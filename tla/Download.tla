------------------------------ MODULE Download ------------------------------
(***************************************************************************)
(* How iolsucker puts the files of a course into the repository: the       *)
(* function foreach_getfile (iol.c) and the file half of _transfer_page.   *)
(* Every missing file is downloaded to ".download.tmp" in its own          *)
(* directory and renamed to its final name.                                *)
(*                                                                         *)
(* Several iolsucker processes may run at once (the wizard forks one on    *)
(* every press of its button and waits for none), any of them may be       *)
(* killed at any step, and a later run starts from what the others left.   *)
(*                                                                         *)
(* A file's text is N stdio buffers: a buffer reaches the disk when it is  *)
(* full, the last one at fclose.  Descriptors name inodes, as in POSIX: a  *)
(* rename or a truncation by one process is seen by another that has the   *)
(* same file open.                                                         *)
(***************************************************************************)
EXTENDS Naturals

CONSTANTS
    Procs,           \* iolsucker processes
    Dirs,            \* directories below the repositories
    Entries,         \* the files of the courses: pairs of a directory and a name
    Inodes,          \* bound: inodes of the file system
    N,               \* stdio buffers in the text of a file
    Root,            \* Root[p]: the directories of the repository p works in
    Dry,             \* the processes started with --dry-run
    None             \* no inode, no text, no file in hand

ASSUME ConstantsAssumption ==
    /\ N \in Nat \ {0}
    /\ \A e \in Entries : e[1] \in Dirs
    /\ Root \in [Procs -> SUBSET Dirs]
    /\ Dry \subseteq Procs
    /\ None \notin Inodes
    /\ None \notin Entries

VARIABLES
    name,            \* name[<<d, f>>]: the inode under the final name
    tmp,             \* tmp[d]: the inode under d/.download.tmp
    data,            \* data[i][b]: the file whose text is in buffer b of inode i
    pc,              \* pc[p]: where in foreach_getfile the process is
    job,             \* job[p]: the file in hand
    fd,              \* fd[p]: the inode open for writing
    off,             \* off[p]: the buffers written through fd[p]
    todo,            \* todo[p]: the files g_slist_foreach has yet to visit
    orphan           \* history: directories where a killed run left the temporary

vars == <<name, tmp, data, pc, job, fd, off, todo, orphan>>

\* The material of the repository of p: what its list of files resolves to.
Material(p) == {e \in Entries : e[1] \in Root[p]}

Blank == [b \in 1..N |-> None]

Init ==
    /\ name = [e \in Entries |-> None]
    /\ tmp = [d \in Dirs |-> None]
    /\ data = [i \in Inodes |-> Blank]
    /\ pc = [p \in Procs |-> "idle"]
    /\ job = [p \in Procs |-> None]
    /\ fd = [p \in Procs |-> None]
    /\ off = [p \in Procs |-> 0]
    /\ todo = [p \in Procs |-> {}]
    /\ orphan = {}

-----------------------------------------------------------------------------
(* The steps of foreach_getfile.                                           *)

\* The directory, and so the temporary, of the file in hand.
DirOf(p) == job[p][1]

\* A run of p begins to walk its list of files.
Start(p) ==
    /\ pc[p] = "idle" /\ todo[p] = {}
    /\ todo' = [todo EXCEPT ![p] = Material(p)]
    /\ UNCHANGED <<name, tmp, data, pc, job, fd, off, orphan>>

\* Mutant: the answer of stat() is ignored.
ConsiderWithoutStat(p, e) ==
    /\ pc[p] = "idle" /\ e \in todo[p]
    /\ pc' = [pc EXCEPT ![p] = "stated"]
    /\ job' = [job EXCEPT ![p] = e]
    /\ UNCHANGED <<name, tmp, data, fd, off, todo, orphan>>

\* stat() says that the file is not in the repository, and its directory
\* exists or is made.
Consider(p, e) ==
    /\ pc[p] = "idle" /\ e \in todo[p] /\ p \notin Dry
    /\ name[e] = None
    /\ pc' = [pc EXCEPT ![p] = "stated"]
    /\ job' = [job EXCEPT ![p] = e]
    /\ UNCHANGED <<name, tmp, data, fd, off, todo, orphan>>

\* stat() finds the file: nothing to do.
Found(p, e) ==
    /\ pc[p] = "idle" /\ e \in todo[p]
    /\ name[e] # None
    /\ todo' = [todo EXCEPT ![p] = @ \ {e}]
    /\ UNCHANGED <<name, tmp, data, pc, job, fd, off, orphan>>

\* A missing file is passed over: its URL lacks the code of the course,
\* mkrdir() fails, or the run is dry.
Skip(p, e) ==
    /\ pc[p] = "idle" /\ e \in todo[p]
    /\ name[e] = None
    /\ todo' = [todo EXCEPT ![p] = @ \ {e}]
    /\ UNCHANGED <<name, tmp, data, pc, job, fd, off, orphan>>

\* An inode no name and no descriptor refers to.
Free(i) ==
    /\ \A e \in Entries : name[e] # i
    /\ \A d \in Dirs : tmp[d] # i
    /\ \A p \in Procs : fd[p] # i

\* The one a new file is given.  Which it is nobody can tell, so one will do.
Fresh(i) == Free(i) /\ i = CHOOSE j \in Inodes : Free(j)

\* Mutant: the file is written in place, under its final name.
OpenFinal(p) ==
    /\ pc[p] = "stated"
    /\ \E i \in Inodes :
         /\ Fresh(i)
         /\ data' = [data EXCEPT ![i] = Blank]
         /\ fd' = [fd EXCEPT ![p] = i]
         /\ tmp' = [tmp EXCEPT ![DirOf(p)] = i]
         /\ name' = [name EXCEPT ![job[p]] = i]
    /\ off' = [off EXCEPT ![p] = 0]
    /\ pc' = [pc EXCEPT ![p] = "writing"]
    /\ UNCHANGED <<job, todo, orphan>>

\* fopen(".download.tmp", "wb"): truncates the inode that has the name, or
\* gives the name to a new one.
Open(p) ==
    /\ pc[p] = "stated"
    /\ \E i \in Inodes :
         /\ IF tmp[DirOf(p)] = None THEN Fresh(i) ELSE i = tmp[DirOf(p)]
         /\ data' = [data EXCEPT ![i] = Blank]
         /\ fd' = [fd EXCEPT ![p] = i]
         /\ tmp' = [tmp EXCEPT ![DirOf(p)] = i]
    /\ off' = [off EXCEPT ![p] = 0]
    /\ pc' = [pc EXCEPT ![p] = "writing"]
    /\ UNCHANGED <<name, job, todo, orphan>>

\* fopen() fails, or --ask is answered with a no: transfer_page returns before
\* it opens anything.
Refuse(p) ==
    /\ pc[p] = "stated"
    /\ pc' = [pc EXCEPT ![p] = "failed"]
    /\ UNCHANGED <<name, tmp, data, job, fd, off, todo, orphan>>

\* Mutant: the buffer after the last one is written as well.
WriteBeyond(p) ==
    /\ pc[p] = "writing" /\ off[p] < N
    /\ data' = [data EXCEPT ![fd[p]][off[p] + 1] = job[p]]
    /\ off' = [off EXCEPT ![p] = @ + 1]
    /\ UNCHANGED <<name, tmp, pc, job, fd, todo, orphan>>

\* A full buffer reaches the disk.
Write(p) ==
    /\ pc[p] = "writing" /\ off[p] < N - 1
    /\ data' = [data EXCEPT ![fd[p]][off[p] + 1] = job[p]]
    /\ off' = [off EXCEPT ![p] = @ + 1]
    /\ UNCHANGED <<name, tmp, pc, job, fd, todo, orphan>>

\* curl_easy_perform succeeded; fclose() writes the last buffer, or fails to.
\* Its result is not looked at.
Close(p) ==
    /\ pc[p] = "writing" /\ off[p] = N - 1
    /\ \E last \in {job[p], None} : data' = [data EXCEPT ![fd[p]][N] = last]
    /\ fd' = [fd EXCEPT ![p] = None]
    /\ pc' = [pc EXCEPT ![p] = "received"]
    /\ UNCHANGED <<name, tmp, job, off, todo, orphan>>

\* Mutant: the result of the transfer is not looked at.
BreakUnseen(p) ==
    /\ pc[p] = "writing"
    /\ fd' = [fd EXCEPT ![p] = None]
    /\ pc' = [pc EXCEPT ![p] = "received"]
    /\ UNCHANGED <<name, tmp, data, job, off, todo, orphan>>

\* The transfer breaks at any point; fclose() writes what is buffered or not.
Break(p) ==
    /\ pc[p] = "writing"
    /\ \E last \in {job[p], data[fd[p]][off[p] + 1]} :
         data' = [data EXCEPT ![fd[p]][off[p] + 1] = last]
    /\ fd' = [fd EXCEPT ![p] = None]
    /\ pc' = [pc EXCEPT ![p] = "failed"]
    /\ UNCHANGED <<name, tmp, job, off, todo, orphan>>

\* The file in hand is done with: the walk goes on.
Advance(p) ==
    /\ pc' = [pc EXCEPT ![p] = "idle"]
    /\ job' = [job EXCEPT ![p] = None]
    /\ off' = [off EXCEPT ![p] = 0]
    /\ todo' = [todo EXCEPT ![p] = @ \ {job[p]}]
    /\ orphan' = orphan \ {DirOf(p)}

\* Mutant: the result of the transfer is tested the wrong way round.
RemoveReceived(p) ==
    /\ pc[p] = "received"
    /\ tmp' = [tmp EXCEPT ![DirOf(p)] = None]
    /\ Advance(p)
    /\ UNCHANGED <<name, data, fd>>

\* rename(download, local): replaces the final name; without a temporary it
\* fails, which is not looked at.
Rename(p) ==
    /\ pc[p] = "received"
    /\ IF tmp[DirOf(p)] = None
         THEN UNCHANGED <<name, tmp>>
         ELSE /\ name' = [name EXCEPT ![job[p]] = tmp[DirOf(p)]]
              /\ tmp' = [tmp EXCEPT ![DirOf(p)] = None]
    /\ Advance(p)
    /\ UNCHANGED <<data, fd>>

\* Mutant: a failed download leaves its temporary.
LeaveTemporary(p) ==
    /\ pc[p] = "failed"
    /\ Advance(p)
    /\ UNCHANGED <<name, tmp, data, fd>>

\* Mutant: a failed download is tried again.
RetryForEver(p) ==
    /\ pc[p] = "failed"
    /\ tmp' = [tmp EXCEPT ![DirOf(p)] = None]
    /\ pc' = [pc EXCEPT ![p] = "stated"]
    /\ UNCHANGED <<name, data, job, fd, off, todo, orphan>>

\* remove(download)
Remove(p) ==
    /\ pc[p] = "failed"
    /\ tmp' = [tmp EXCEPT ![DirOf(p)] = None]
    /\ Advance(p)
    /\ UNCHANGED <<name, data, fd>>

\* The process dies, wherever it is: the buffered text is lost, the temporary
\* stays.
Kill(p) ==
    /\ todo[p] # {}
    /\ orphan' = IF pc[p] = "idle" THEN orphan ELSE
                   orphan \cup {d \in {DirOf(p)} : tmp[d] # None}
    /\ pc' = [pc EXCEPT ![p] = "idle"]
    /\ job' = [job EXCEPT ![p] = None]
    /\ fd' = [fd EXCEPT ![p] = None]
    /\ off' = [off EXCEPT ![p] = 0]
    /\ todo' = [todo EXCEPT ![p] = {}]
    /\ UNCHANGED <<name, tmp, data>>

-----------------------------------------------------------------------------
\* What keeps a run from bringing a missing file.
Fails(p) == Refuse(p) \/ Break(p) \/ \E e \in Entries : Skip(p, e)

\* The steps of a process that is let run.
Step(p) ==
    \/ \E e \in Entries : Consider(p, e) \/ Found(p, e)
    \/ Open(p)
    \/ Write(p)
    \/ Close(p)
    \/ Rename(p)
    \/ Remove(p)
    \/ Fails(p)

Next == \E p \in Procs : Start(p) \/ Step(p) \/ Kill(p)

\* A process that is not killed keeps running: it has no locks and waits for
\* nobody but the server, whose transfers are taken to end.
Spec == Init /\ [][Next]_vars /\ \A p \in Procs : WF_vars(Step(p))

-----------------------------------------------------------------------------
(* Properties.                                                             *)

TypeOK ==
    /\ name \in [Entries -> Inodes \cup {None}]
    /\ tmp \in [Dirs -> Inodes \cup {None}]
    /\ data \in [Inodes -> [1..N -> Entries \cup {None}]]
    /\ pc \in [Procs -> {"idle", "stated", "writing", "received", "failed"}]
    /\ job \in [Procs -> Entries \cup {None}]
    /\ fd \in [Procs -> Inodes \cup {None}]
    /\ off \in [Procs -> 0..N-1]
    /\ todo \in [Procs -> SUBSET Entries]
    /\ orphan \subseteq Dirs

\* The repositories of two processes have no directory in common.
Isolated == \A p, q \in Procs : p # q => Root[p] \cap Root[q] = {}

\* The inode holds the text of e but for, at most, its last buffer.
HasText(i, e) ==
    /\ \A b \in 1..N-1 : data[i][b] = e
    /\ data[i][N] \in {e, None}

\* A file that is under its final name is all there, but for the one buffer
\* an unseen failure of fclose() loses: a broken transfer, a killed process
\* or a stale temporary never shows under a final name.  (_transfer_page
\* writes .download.tmp, foreach_getfile renames it only after success.)
FinalComplete ==
    \A e \in Entries : name[e] # None => HasText(name[e], e)

\* What is once in the repository is never downloaded again, replaced or
\* written to, by this run or a later one.  (the stat() of foreach_getfile)
NeverReplaced ==
    [][\A e \in Entries : name[e] # None =>
          name'[e] = name[e] /\ data'[name[e]] = data[name[e]]]_vars

\* A file is downloaded only if it is not in the repository.  (the comment at
\* foreach_getfile)
DownloadsOnlyMissing ==
    [][\A p \in Procs :
          pc[p] = "stated" /\ pc'[p] = "writing" => name[job[p]] = None]_vars

\* A .download.tmp is the work of a download in progress or was left by a run
\* that died: a download that fails cleans up.  (remove() in foreach_getfile)
TemporaryAccounted ==
    \A d \in Dirs : tmp[d] # None =>
        \/ d \in orphan
        \/ \E p \in Procs : pc[p] # "idle" /\ DirOf(p) = d

\* The names of the repository appear atomically, once.  (Repository.tla)
Seen(e) ==
    IF name[e] = None THEN "absent"
    ELSE IF data[name[e]][N] = None THEN "short" ELSE "whole"

Promise == INSTANCE Repository WITH store <- [e \in Entries |-> Seen(e)]

ImplementsRepository == Promise!Spec

\* Every run comes to its end: a file that cannot be had is given up, not
\* retried for ever.  (g_slist_foreach visits each file once)
RunEnds == \A p \in Procs : todo[p] # {} ~> todo[p] = {}

\* Re-running is enough: once downloads stop failing, a process that is
\* started again and again brings its whole repository, whatever earlier
\* failures and kills left behind.
Converges ==
    \A p \in Procs :
        (/\ <>[][~Fails(p) /\ ~Kill(p)]_vars
         /\ []<>(todo[p] = Material(p)))
        => <>[](\A e \in Material(p) : name[e] # None)
=============================================================================
