---------------------------- MODULE ResyncProofs ----------------------------
(***************************************************************************)
(* Where the files of a repository end up, for any courses, names and      *)
(* options, and any order of runs, changes on the server and failures.     *)
(***************************************************************************)
EXTENDS Resync, SequenceTheorems, TLAPS

-----------------------------------------------------------------------------
(* Paths.                                                                  *)

LEMMA PathsArePaths ==
    ASSUME NEW path \in Paths
    PROVE  path \in Seq(ToSet(path)) /\ Len(path) \in 1..3
BY ConstantsAssumption DEF Paths

LEMMA FrontLength ==
    ASSUME NEW S, NEW s \in Seq(S), Len(s) \in 1..3
    PROVE  Len(SubSeq(s, 1, Len(s) - 1)) = Len(s) - 1
<1> PICK n \in 1..3 : n = Len(s)
  OBVIOUS
<1>1. n - 1 \in 0..n
  OBVIOUS
<1> QED
  BY <1>1

\* The folders common to a list are fewer than the parts of any of its paths.
LEMMA CommonIsFolders ==
    ASSUME NEW l \in SUBSET Paths, l # {}
    PROVE  CommonFolders(l) \in 0..2 /\ \A path \in l : CommonFolders(l) < Len(path)
<1> DEFINE Shared(k) == \A p, q \in l :
                /\ k <= Len(Folders(p))
                /\ SubSeq(p, 1, k) = SubSeq(q, 1, k)
           Longest(k) == Shared(k) /\ \A j \in 0..2 : Shared(j) => j <= k
<1>1. \A p \in l : p \in Seq(ToSet(p)) /\ Len(p) \in 1..3
  BY PathsArePaths
<1>2. \A p \in l : Len(Folders(p)) = Len(p) - 1
  <2> TAKE p \in l
  <2>1. p \in Seq(ToSet(p)) /\ Len(p) \in 1..3
    BY <1>1
  <2> QED
    BY <2>1, FrontLength DEF Folders
<1>3. Shared(0)
  <2>1. \A p \in l : SubSeq(p, 1, 0) = <<>>
    BY <1>1
  <2> QED
    BY <1>1, <1>2, <2>1
<1>4. CommonFolders(l) = CHOOSE k \in 0..2 : Longest(k)
  BY DEF CommonFolders
<1>5. \A k \in 0..2 : Shared(k) => \A path \in l : k < Len(path)
  BY <1>1, <1>2
<1> HIDE DEF Shared
<1>6. \E k \in 0..2 : Longest(k)
  BY <1>3
<1>7. (CHOOSE k \in 0..2 : Longest(k)) \in 0..2 /\ Longest(CHOOSE k \in 0..2 : Longest(k))
  BY <1>6
<1> QED
  BY <1>4, <1>5, <1>7

\* What is left of a path without them is a name.
LEMMA BelowIsLocal ==
    ASSUME NEW path \in Paths, NEW k \in 0..2, k < Len(path)
    PROVE  Below(k, path) \in Locals
<1>1. path \in Seq(ToSet(path)) /\ Len(path) \in 1..3
  BY PathsArePaths
<1>2. Len(Below(k, path)) = Len(path) - k
  BY <1>1 DEF Below
<1>3. Len(<<>>) = 0
  OBVIOUS
<1>4. Below(k, path) # <<>>
  BY <1>1, <1>2, <1>3
<1> QED
  BY <1>4 DEF Locals

\* The names of files and folders, of which all paths, folders cut off and local
\* names are made.
Parts == UNION {ToSet(path) : path \in Paths}

LEMMA MadeOfParts ==
    /\ Paths \subseteq Seq(Parts)
    /\ StartPaths \subseteq Seq(Parts)
    /\ Locals \subseteq Seq(Parts)
<1>1. ASSUME NEW path \in Paths
      PROVE  path \in Seq(Parts)
  <2>1. path \in Seq(ToSet(path)) /\ ToSet(path) \subseteq Parts
    BY PathsArePaths DEF Parts
  <2> QED
    BY <2>1
<1>2. ASSUME NEW prefix \in StartPaths
      PROVE  prefix \in Seq(Parts)
  <2>1. PICK path \in Paths : prefix \in {SubSeq(path, 1, k) : k \in 0..Len(path) - 1}
    BY DEF StartPaths
  <2>2. PICK k \in 0..Len(path) - 1 : prefix = SubSeq(path, 1, k)
    BY <2>1
  <2>3. path \in Seq(Parts) /\ Len(path) \in 1..3
    BY <1>1, PathsArePaths
  <2> QED
    BY <2>2, <2>3
<1>3. ASSUME NEW l \in Locals
      PROVE  l \in Seq(Parts)
  <2>1. PICK k \in 0..2, path \in Paths : l = Below(k, path)
    BY DEF Locals
  <2>2. path \in Seq(Parts) /\ Len(path) \in 1..3
    BY <1>1, PathsArePaths
  <2> QED
    BY <2>1, <2>2 DEF Below
<1> QED
  BY <1>1, <1>2, <1>3

\* A path is what is cut off it and what is left.
LEMMA SplitPath ==
    ASSUME NEW path \in Paths, NEW k \in 0..2, k < Len(path)
    PROVE  path = SubSeq(path, 1, k) \o Below(k, path)
<1>1. path \in Seq(Parts) /\ Len(path) \in 1..3
  BY MadeOfParts, PathsArePaths
<1>2. SubSeq(path, 1, k) \o SubSeq(path, k + 1, Len(path)) = SubSeq(path, 1, Len(path))
  <2>1. 1 \in 1..Len(path) + 1 /\ k \in 1 - 1..Len(path) /\ Len(path) \in k..Len(path)
    BY <1>1
  <2> QED
    BY <1>1, <2>1, ConcatAdjacentSubSeq
<1> QED
  BY <1>1, <1>2, SubSeqFull DEF Below

\* Of a path and what is cut off it, only one name can be left.
LEMMA OneLocal ==
    ASSUME NEW prefix \in StartPaths, NEW l \in Locals, NEW m \in Locals,
           prefix \o l = prefix \o m
    PROVE  l = m
BY MadeOfParts, ConcatSimplifications

-----------------------------------------------------------------------------
(* The invariant.                                                          *)

Busy == {"crawl", "files"}

\* The course at hand is worked on in a directory of its own that exists; the files
\* still to be visited are its own, and what is cut off them is remembered.
AtWork ==
    pc \in Busy =>
        /\ cur \in Course /\ dir \in dirs /\ dir \in {Code[cur], name[cur]}
        /\ pc # "crawl" =>
              \A path \in list : path \in server[cur] /\ SubSeq(path, 1, common) \in used[cur]

\* A file is in a directory that exists.
Housed == \A x \in Places : disk[x] # Nothing => x[1] \in dirs

\* No file is lost: it stays where it is, or goes with the directory of a course.
Kept ==
    \A x \in Places : disk[x] # Nothing =>
        \/ disk'[x] = disk[x]
        \/ /\ x[1] \notin dirs'
           /\ \E c \in Course : x[1] = Other(c) /\ disk'[<<Wanted(c), x[2]>>] = disk[x]

\* What Placement says of the files of the courses.
Placed(x, c, path) ==
    /\ \E d \in Course : Share(c, d) /\ x[1] \in {Code[d], name[d]}
    /\ \E prefix \in used[c] : path = prefix \o x[2]

AllPlaced ==
    \A x \in Places, c \in Course, path \in Paths : disk[x] = <<c, path>> => Placed(x, c, path)

LEMMA PlacementForm == Placement <=> AllPlaced
<1>1. ASSUME Placement, NEW x \in Places, NEW c \in Course, NEW path \in Paths,
             disk[x] = <<c, path>>
      PROVE  Placed(x, c, path)
  <2>1. disk[x] \in Course \X Paths /\ disk[x][1] = c /\ disk[x][2] = path
    BY <1>1
  <2> QED
    BY <1>1, <2>1 DEF Placement, Placed
<1>2. ASSUME AllPlaced, NEW x \in Places, disk[x] \in Course \X Paths
      PROVE  Placed(x, disk[x][1], disk[x][2])
  <2>1. PICK c \in Course, path \in Paths : disk[x] = <<c, path>>
    BY <1>2
  <2> QED
    BY <1>2, <2>1 DEF AllPlaced
<1> QED
  BY <1>1, <1>2 DEF Placement, Placed, AllPlaced

IInv ==
    /\ name \in Names
    /\ TypeOK
    /\ AtWork
    /\ Housed
    /\ AllPlaced
    /\ OneDirectory

\* A directory is named after a code or after a name, not after both.
LEMMA NameFacts ==
    ASSUME name \in Names
    PROVE  /\ name \in [Course -> DirNames]
           /\ \A c \in Course : Code[c] \in DirNames /\ name[c] \in DirNames
           /\ \A c, d \in Course : Code[c] # name[d] /\ (Code[c] = Code[d] => c = d)
BY ConstantsAssumption DEF Names

LEMMA InitIInv ==
    ASSUME Init
    PROVE  IInv
<1>1. name \in Names /\ TypeOK
  <2>1. name \in Names /\ name \in [Course -> DirNames]
    BY NameFacts DEF Init
  <2>2. disk \in [Places -> Contents]
    BY DEF Init, Contents
  <2>3. server \in [Course -> SUBSET Paths] /\ used \in [Course -> SUBSET StartPaths]
        /\ synced \in [Course -> SUBSET Paths]
    BY DEF Init
  <2>4. missed \in BOOLEAN
    BY DEF Init
  <2>5. list = {} /\ repfiles = {} /\ common = 0 /\ dirs = {} /\ todo = {} /\ pc = "idle"
        /\ cur = Nothing /\ dir = Nothing /\ opts = NoOptions
    BY DEF Init
  <2> QED
    BY <2>1, <2>2, <2>3, <2>4, <2>5 DEF TypeOK
<1>2. AtWork
  BY DEF Init, AtWork, Busy
<1>3. Housed /\ AllPlaced /\ OneDirectory
  <2>1. \A x \in Places : disk[x] = Nothing
    BY DEF Init
  <2>2. \A c \in Course, path \in Paths : <<c, path>> # Nothing
    BY ConstantsAssumption
  <2> QED
    BY <2>1, <2>2 DEF Init, Housed, AllPlaced, OneDirectory
<1> QED
  BY <1>1, <1>2, <1>3 DEF IInv

\* Of the folders lists have in common, none is ever forgotten.
UsedGrows == \A c \in Course : used[c] \subseteq used'[c]

LEMMA StillPlaced ==
    ASSUME UNCHANGED name, UsedGrows, NEW x, NEW c \in Course, NEW path, Placed(x, c, path)
    PROVE  Placed(x, c, path)'
<1>1. \E d \in Course : Share(c, d)' /\ x[1] \in {Code[d], name'[d]}
  BY DEF Placed, Share
<1>2. \E prefix \in used'[c] : path = prefix \o x[2]
  BY DEF Placed, UsedGrows
<1> QED
  BY <1>1, <1>2 DEF Placed

\* A step that brings no new file.
LEMMA NoneMisplaced ==
    ASSUME AllPlaced, UNCHANGED name, UsedGrows,
           \A x \in Places, c \in Course, path \in Paths :
               disk'[x] = <<c, path>> => disk[x] = <<c, path>>
    PROVE  AllPlaced'
<1> SUFFICES ASSUME NEW x \in Places, NEW c \in Course, NEW path \in Paths,
                    disk'[x] = <<c, path>>
             PROVE  Placed(x, c, path)'
  BY DEF AllPlaced
<1>1. Placed(x, c, path)
  BY DEF AllPlaced
<1> QED
  BY <1>1, StillPlaced

\* A step that leaves the repository alone.
LEMMA QuietStep ==
    ASSUME IInv, UNCHANGED <<name, disk, dirs>>, UsedGrows
    PROVE  /\ name' \in Names /\ Housed' /\ AllPlaced' /\ OneDirectory'
           /\ Kept
<1>1. name' \in Names /\ Housed' /\ OneDirectory'
  BY DEF IInv, Housed, OneDirectory, Sole, Share
<1>2. AllPlaced'
  BY NoneMisplaced DEF IInv
<1>3. Kept
  BY DEF Kept
<1> QED
  BY <1>1, <1>2, <1>3

LEMMA PublishIInv ==
    ASSUME IInv, NEW c \in Course, NEW path \in Material[c], Publish(c, path) \/ Withdraw(c, path)
    PROVE  IInv' /\ Kept
<1>1. UNCHANGED <<name, disk, dirs>> /\ UsedGrows
  BY DEF Publish, Withdraw, history, UsedGrows
<1>2. TypeOK'
  <2>1. server' \in [Course -> SUBSET Paths]
    <3>1. server \in [Course -> SUBSET Paths] /\ path \in Paths
      BY DEF IInv, TypeOK, Paths
    <3>2. \E files \in SUBSET Paths : server' = [server EXCEPT ![c] = files]
      BY <3>1 DEF Publish, Withdraw
    <3> QED
      BY <3>1, <3>2
  <2>2. UNCHANGED <<name, disk, dirs, opts, pc, todo, cur, dir, list, common, repfiles,
                    used, synced, missed>>
    BY DEF Publish, Withdraw, history
  <2> QED
    BY <2>1, <2>2 DEF IInv, TypeOK
<1>3. AtWork'
  BY DEF IInv, AtWork, Publish, Withdraw, Busy
<1> QED
  BY <1>1, <1>2, <1>3, QuietStep DEF IInv

LEMMA StartRunIInv ==
    ASSUME IInv, NEW o \in Options, StartRun(o)
    PROVE  IInv' /\ Kept
<1>1. UNCHANGED <<name, disk, dirs>> /\ UsedGrows
  BY DEF StartRun, world, history, UsedGrows
<1>2. TypeOK'
  BY DEF IInv, TypeOK, StartRun, world, history
<1>3. AtWork'
  BY DEF AtWork, StartRun, Busy
<1> QED
  BY <1>1, <1>2, <1>3, QuietStep DEF IInv

LEMMA EnterBareIInv ==
    ASSUME IInv, NEW c \in Course, EnterBare(c)
    PROVE  IInv' /\ Kept
<1>1. UNCHANGED <<name, disk, dirs>> /\ UsedGrows
  BY DEF EnterBare, world, history, UsedGrows
<1>2. TypeOK'
  BY DEF IInv, TypeOK, EnterBare, world, Scan
<1>3. AtWork'
  BY DEF AtWork, EnterBare, Busy
<1> QED
  BY <1>1, <1>2, <1>3, QuietStep DEF IInv

LEMMA LeaveIInv ==
    ASSUME IInv, Leave
    PROVE  IInv' /\ Kept
<1>1. UNCHANGED <<name, disk, dirs>> /\ UsedGrows
  BY DEF Leave, world, history, UsedGrows
<1>2. TypeOK'
  BY DEF IInv, TypeOK, Leave, world, history
<1>3. AtWork'
  BY DEF AtWork, Leave, Busy
<1> QED
  BY <1>1, <1>2, <1>3, QuietStep DEF IInv

LEMMA StopIInv ==
    ASSUME IInv, Stop
    PROVE  IInv' /\ Kept
<1>1. UNCHANGED <<name, disk, dirs>> /\ UsedGrows
  BY DEF Stop, world, history, UsedGrows
<1>2. TypeOK'
  <2>1. name' \in [Course -> DirNames] /\ server' \in [Course -> SUBSET Paths]
        /\ disk' \in [Places -> Contents] /\ dirs' \subseteq DirNames
    BY DEF IInv, TypeOK, Stop, world
  <2>2. opts' \in Options \cup {NoOptions} /\ pc' \in {"idle", "course", "crawl", "files"}
        /\ todo' \subseteq Course /\ cur' \in Course \cup {Nothing} /\ dir' \in DirNames \cup {Nothing}
    BY DEF Stop
  <2>3. list' \subseteq Paths /\ common' \in 0..2 /\ (\A path \in list' : common' < Len(path))
        /\ repfiles' \subseteq Places
    BY DEF Stop
  <2>4. used' \in [Course -> SUBSET StartPaths] /\ synced' \in [Course -> SUBSET Paths]
    BY DEF IInv, TypeOK, Stop
  <2>5. missed' \in BOOLEAN
    BY DEF Stop
  <2> QED
    BY <2>1, <2>2, <2>3, <2>4, <2>5 DEF TypeOK
<1>3. AtWork'
  BY DEF AtWork, Stop, Busy
<1> QED
  BY <1>1, <1>2, <1>3, QuietStep DEF IInv

-----------------------------------------------------------------------------
(* The directory of a course.                                              *)

\* It has one of two names, and is asked for under one of them.
LEMMA WantedOrOther ==
    ASSUME name \in Names, NEW c \in Course
    PROVE  /\ {Wanted(c), Other(c)} = {Code[c], name[c]} /\ Wanted(c) # Other(c)
           /\ Wanted(c) \in DirNames /\ Other(c) \in DirNames
BY NameFacts DEF Wanted, Other

\* A directory that is renamed from one to the other takes its files with it.
LEMMA MoveStep ==
    ASSUME IInv, NEW c \in Course, UNCHANGED name, UsedGrows,
           Other(c) \in dirs, Wanted(c) \notin dirs, Move(Other(c), Wanted(c))
    PROVE  /\ disk' \in [Places -> Contents] /\ dirs' \subseteq DirNames
           /\ Wanted(c) \in dirs'
           /\ Housed' /\ AllPlaced' /\ OneDirectory' /\ Kept
<1> DEFINE from == Other(c)
           to == Wanted(c)
<1>1. from \in DirNames /\ to \in DirNames /\ from # to
  BY WantedOrOther DEF IInv
<1>2. disk \in [Places -> Contents] /\ dirs \subseteq DirNames
  BY DEF IInv, TypeOK
<1>3. dirs' = (dirs \ {from}) \cup {to}
  BY DEF Move
<1>4. \A x \in Places : /\ <<from, x[2]>> \in Places /\ <<to, x[2]>> \in Places
                       /\ <<from, x[2]>>[1] = from /\ <<from, x[2]>>[2] = x[2]
                       /\ <<to, x[2]>>[1] = to /\ <<to, x[2]>>[2] = x[2]
                       /\ x = <<x[1], x[2]>>
  BY <1>1 DEF Places
<1>5. disk' = [x \in Places |-> IF x[1] = to THEN disk[<<from, x[2]>>]
                                ELSE IF x[1] = from THEN Nothing ELSE disk[x]]
  BY DEF Move
<1> HIDE DEF from, to
<1>6. \A x \in Places : disk'[x] = IF x[1] = to THEN disk[<<from, x[2]>>]
                                   ELSE IF x[1] = from THEN Nothing ELSE disk[x]
  BY <1>5
<1>7. disk' \in [Places -> Contents]
  <2>1. \A x \in Places : disk'[x] \in Contents
    BY <1>2, <1>4, <1>6 DEF Contents
  <2> QED
    BY <1>5, <2>1
<1>8. dirs' \subseteq DirNames /\ to \in dirs'
  BY <1>1, <1>2, <1>3
<1>9. Housed'
  <2> SUFFICES ASSUME NEW x \in Places, disk'[x] # Nothing
               PROVE  x[1] \in dirs'
    BY DEF Housed
  <2>1. CASE x[1] = to
    BY <1>3, <2>1
  <2>2. CASE x[1] # to
    <3>1. x[1] # from /\ disk[x] # Nothing
      BY <1>6, <2>2
    <3> QED
      BY <1>3, <3>1 DEF IInv, Housed
  <2> QED
    BY <2>1, <2>2
<1>10. Kept
  <2> SUFFICES ASSUME NEW x \in Places, disk[x] # Nothing
               PROVE  \/ disk'[x] = disk[x]
                      \/ /\ x[1] \notin dirs'
                         /\ x[1] = Other(c) /\ disk'[<<Wanted(c), x[2]>>] = disk[x]
    BY DEF Kept
  <2>1. x[1] # to
    BY DEF IInv, Housed, to
  <2>2. CASE x[1] = from
    <3>1. disk'[<<to, x[2]>>] = disk[x]
      BY <1>4, <1>6, <2>2
    <3>2. x[1] \notin dirs'
      BY <1>1, <1>3, <2>1, <2>2
    <3> QED
      BY <2>2, <3>1, <3>2 DEF from, to
  <2>3. CASE x[1] # from
    BY <1>6, <2>1, <2>3
  <2> QED
    BY <2>2, <2>3
<1>11. AllPlaced'
  <2> SUFFICES ASSUME NEW x \in Places, NEW d \in Course, NEW path \in Paths,
                      disk'[x] = <<d, path>>
               PROVE  Placed(x, d, path)'
    BY DEF AllPlaced
  <2>1. <<d, path>> # Nothing
    BY ConstantsAssumption
  <2>2. CASE x[1] = to
    <3>1. disk[<<from, x[2]>>] = <<d, path>>
      BY <1>6, <2>2
    <3>2. PICK y \in Places : y[1] = from /\ y[2] = x[2] /\ disk[y] = <<d, path>>
      BY <1>4, <3>1
    <3>3. Placed(y, d, path)
      BY <3>2 DEF IInv, AllPlaced
    <3>4. PICK e \in Course : Share(d, e) /\ from \in {Code[e], name[e]}
      BY <3>2, <3>3 DEF Placed
    <3>5. Share(d, c)
      BY <3>4, NameFacts, WantedOrOther DEF IInv, Share, from
    <3>6. to \in {Code[c], name[c]}
      BY WantedOrOther DEF IInv, to
    <3>7. Placed(x, d, path)
      BY <2>2, <3>2, <3>3, <3>5, <3>6 DEF Placed
    <3> QED
      BY <3>7, StillPlaced
  <2>3. CASE x[1] # to
    <3>1. disk[x] = <<d, path>>
      BY <1>6, <2>1, <2>3
    <3> QED
      BY <3>1, StillPlaced DEF IInv, AllPlaced
  <2> QED
    BY <2>2, <2>3
<1>12. OneDirectory'
  <2> SUFFICES ASSUME NEW d \in Course, Sole(d)
               PROVE  ~(Code[d] \in dirs' /\ name[d] \in dirs')
    BY DEF OneDirectory, Sole, Share
  <2>1. ~(Code[d] \in dirs /\ name[d] \in dirs)
    BY DEF IInv, OneDirectory
  <2>2. CASE d = c
    <3>1. from \notin dirs'
      BY <1>1, <1>3
    <3> QED
      BY <2>2, <3>1, WantedOrOther DEF IInv, from
  <2>3. CASE d # c
    <3>1. name[c] # name[d]
      BY <2>3 DEF Sole, Share
    <3>2. to \notin {Code[d], name[d]}
      BY <2>3, <3>1, NameFacts, WantedOrOther DEF IInv, to
    <3> QED
      BY <1>3, <2>1, <3>2
  <2> QED
    BY <2>2, <2>3
<1> QED
  BY <1>7, <1>8, <1>9, <1>10, <1>11, <1>12 DEF to

\* A directory that is made is empty, and the course has no other.
LEMMA MakeStep ==
    ASSUME IInv, NEW c \in Course, UNCHANGED <<name, disk>>, UsedGrows,
           Other(c) \notin dirs, dirs' = dirs \cup {Wanted(c)}
    PROVE  /\ disk' \in [Places -> Contents] /\ dirs' \subseteq DirNames
           /\ Wanted(c) \in dirs'
           /\ Housed' /\ AllPlaced' /\ OneDirectory' /\ Kept
<1>1. disk' \in [Places -> Contents] /\ dirs' \subseteq DirNames /\ Wanted(c) \in dirs'
  BY WantedOrOther DEF IInv, TypeOK
<1>2. Housed'
  BY DEF IInv, Housed
<1>3. AllPlaced'
  BY NoneMisplaced DEF IInv
<1>4. Kept
  BY DEF Kept
<1>5. OneDirectory'
  <2> SUFFICES ASSUME NEW d \in Course, Sole(d)
               PROVE  ~(Code[d] \in dirs' /\ name[d] \in dirs')
    BY DEF OneDirectory, Sole, Share
  <2>1. ~(Code[d] \in dirs /\ name[d] \in dirs)
    BY DEF IInv, OneDirectory
  <2>2. CASE d = c
    <3>1. Other(c) \notin dirs'
      BY WantedOrOther DEF IInv
    <3> QED
      BY <2>2, <3>1, WantedOrOther DEF IInv
  <2>3. CASE d # c
    <3>1. name[c] # name[d]
      BY <2>3 DEF Sole, Share
    <3>2. Wanted(c) \notin {Code[d], name[d]}
      BY <2>3, <3>1, NameFacts, WantedOrOther DEF IInv
    <3> QED
      BY <2>1, <3>2
  <2> QED
    BY <2>2, <2>3
<1> QED
  BY <1>1, <1>2, <1>3, <1>4, <1>5

\* The three ways to the directory of a course.
LEMMA SettleStep ==
    ASSUME IInv, NEW c \in Course, UNCHANGED name, UsedGrows, Settle(c)
    PROVE  /\ disk' \in [Places -> Contents] /\ dirs' \subseteq DirNames
           /\ dir' \in dirs' /\ dir' \in {Code[c], name'[c]}
           /\ Housed' /\ AllPlaced' /\ OneDirectory' /\ Kept
<1>0. {Wanted(c), Other(c)} = {Code[c], name'[c]}
  BY WantedOrOther DEF IInv
<1>1. CASE /\ Other(c) \in dirs /\ Wanted(c) \notin dirs
           /\ dir' = Wanted(c) /\ Move(Other(c), Wanted(c))
  BY <1>0, <1>1, MoveStep
<1>2. CASE Other(c) \in dirs /\ dir' = Other(c) /\ UNCHANGED <<disk, dirs>>
  <2>1. disk' \in [Places -> Contents] /\ dirs' \subseteq DirNames
    BY <1>2 DEF IInv, TypeOK
  <2> QED
    BY <1>0, <1>2, <2>1, QuietStep
<1>3. CASE /\ Other(c) \notin dirs /\ dir' = Wanted(c)
           /\ dirs' = dirs \cup {Wanted(c)} /\ UNCHANGED disk
  BY <1>0, <1>3, MakeStep
<1> QED
  BY <1>1, <1>2, <1>3 DEF Settle

LEMMA EnterIInv ==
    ASSUME IInv, NEW c \in Course, Enter(c)
    PROVE  IInv' /\ Kept
<1>1. Settle(c) /\ UNCHANGED name /\ UsedGrows
  BY DEF Enter, UsedGrows
<1>2. /\ disk' \in [Places -> Contents] /\ dirs' \subseteq DirNames
      /\ dir' \in dirs' /\ dir' \in {Code[c], name'[c]}
      /\ Housed' /\ AllPlaced' /\ OneDirectory' /\ Kept
  BY <1>1, SettleStep
<1>3. TypeOK'
  <2>1. name' \in [Course -> DirNames] /\ server' \in [Course -> SUBSET Paths]
    BY DEF IInv, TypeOK, Enter
  <2>2. opts' \in Options \cup {NoOptions} /\ pc' \in {"idle", "course", "crawl", "files"}
        /\ todo' \subseteq Course /\ cur' \in Course \cup {Nothing}
    BY DEF IInv, TypeOK, Enter
  <2>3. dir' \in DirNames \cup {Nothing}
    BY <1>2
  <2>4. list' \subseteq Paths /\ common' \in 0..2 /\ (\A path \in list' : common' < Len(path))
    BY DEF IInv, TypeOK, Enter
  <2>5. repfiles' \subseteq Places
    BY DEF IInv, TypeOK, Enter, Scan
  <2>6. used' \in [Course -> SUBSET StartPaths] /\ synced' \in [Course -> SUBSET Paths]
    BY DEF IInv, TypeOK, Enter
  <2>7. missed' \in BOOLEAN
    BY DEF IInv, TypeOK, Enter
  <2> QED
    BY <1>2, <2>1, <2>2, <2>3, <2>4, <2>5, <2>6, <2>7 DEF TypeOK
<1>4. AtWork'
  <2>1. cur' = c /\ pc' = "crawl"
    BY DEF Enter
  <2> QED
    BY <1>2, <2>1 DEF AtWork
<1>5. name' \in Names
  BY <1>1 DEF IInv
<1> QED
  BY <1>2, <1>3, <1>4, <1>5 DEF IInv

-----------------------------------------------------------------------------
(* The files of a course.                                                  *)

LEMMA CrawlIInv ==
    ASSUME IInv, Crawl
    PROVE  IInv' /\ Kept
<1>1. UNCHANGED <<name, disk, dirs>>
  BY DEF Crawl, world
<1>2. cur \in Course /\ pc' \in Busy /\ UNCHANGED <<cur, dir>>
  BY DEF IInv, AtWork, Crawl, Busy
<1>3. PICK l \in SUBSET server[cur] :
         /\ list' = l
         /\ common' = IF l = {} THEN 0 ELSE CommonFolders(l)
         /\ used' = [used EXCEPT ![cur] = @ \cup {SubSeq(path, 1, common') : path \in l}]
         /\ missed' = (missed \/ l # server[cur])
  BY DEF Crawl
<1>4. l \subseteq Paths
  BY <1>2 DEF IInv, TypeOK
<1>5. common' \in 0..2 /\ \A path \in l : common' < Len(path)
  BY <1>3, <1>4, CommonIsFolders
<1>6. TypeOK'
  <2>1. name' \in [Course -> DirNames] /\ server' \in [Course -> SUBSET Paths]
        /\ disk' \in [Places -> Contents] /\ dirs' \subseteq DirNames
    BY DEF IInv, TypeOK, Crawl, world
  <2>2. opts' \in Options \cup {NoOptions} /\ pc' \in {"idle", "course", "crawl", "files"}
        /\ todo' \subseteq Course /\ cur' \in Course \cup {Nothing}
        /\ dir' \in DirNames \cup {Nothing} /\ repfiles' \subseteq Places
    BY DEF IInv, TypeOK, Crawl
  <2>3. list' \subseteq Paths /\ common' \in 0..2 /\ (\A path \in list' : common' < Len(path))
    BY <1>3, <1>4, <1>5
  <2>4. used' \in [Course -> SUBSET StartPaths]
    <3>1. used \in [Course -> SUBSET StartPaths]
      BY DEF IInv, TypeOK
    <3>2. {SubSeq(path, 1, common') : path \in l} \subseteq StartPaths
      <4> SUFFICES ASSUME NEW path \in l
                   PROVE  SubSeq(path, 1, common') \in StartPaths
        OBVIOUS
      <4>1. Len(path) \in 1..3
        BY <1>4, PathsArePaths
      <4>2. common' \in 0..Len(path) - 1
        BY <1>5, <4>1
      <4>3. SubSeq(path, 1, common') \in {SubSeq(path, 1, k) : k \in 0..Len(path) - 1}
        BY <4>2
      <4> QED
        BY <1>4, <4>3 DEF StartPaths
    <3> QED
      BY <1>2, <1>3, <3>1, <3>2
  <2>5. synced' \in [Course -> SUBSET Paths]
    BY DEF IInv, TypeOK, Crawl
  <2>6. missed' \in BOOLEAN
    BY <1>3 DEF IInv, TypeOK
  <2> QED
    BY <2>1, <2>2, <2>3, <2>4, <2>5, <2>6 DEF TypeOK
<1>7. AtWork'
  <2>1. cur' = cur /\ dir' = dir /\ server' = server /\ cur \in Course /\ dir \in dirs
        /\ dir \in {Code[cur], name[cur]}
    BY <1>2 DEF IInv, AtWork, Crawl, Busy, world
  <2>2. ASSUME NEW path \in l
        PROVE  path \in server[cur] /\ SubSeq(path, 1, common') \in used'[cur]
    <3>1. used \in [Course -> SUBSET StartPaths]
      BY DEF IInv, TypeOK
    <3> QED
      BY <1>3, <2>1, <3>1
  <2> QED
    BY <1>1, <1>3, <2>1, <2>2 DEF AtWork
<1>8. UsedGrows
  <2>1. used \in [Course -> SUBSET StartPaths]
    BY DEF IInv, TypeOK
  <2> QED
    BY <1>2, <1>3, <2>1 DEF UsedGrows
<1> QED
  BY <1>1, <1>6, <1>7, <1>8, QuietStep DEF IInv

\* A file that is written goes where there is none.
LEMMA WriteStep ==
    ASSUME IInv, UNCHANGED <<name, dirs>>, NEW x \in Places, NEW content \in Contents,
           disk[x] = Nothing, disk' = [disk EXCEPT ![x] = content], x[1] \in dirs
    PROVE  disk' \in [Places -> Contents] /\ Housed' /\ OneDirectory' /\ Kept
<1>1. disk \in [Places -> Contents]
  BY DEF IInv, TypeOK
<1>2. disk' \in [Places -> Contents]
  BY <1>1
<1>3. Housed'
  BY <1>1 DEF IInv, Housed
<1>4. OneDirectory'
  BY DEF IInv, OneDirectory, Sole, Share
<1>5. Kept
  BY <1>1 DEF Kept
<1> QED
  BY <1>2, <1>3, <1>4, <1>5

LEMMA PutForeignIInv ==
    ASSUME IInv, NEW x \in Places, PutForeign(x)
    PROVE  IInv' /\ Kept
<1>1. /\ UNCHANGED <<name, dirs>> /\ disk[x] = Nothing /\ x[1] \in dirs
      /\ disk' = [disk EXCEPT ![x] = Foreign]
  BY DEF PutForeign
<1>2. disk' \in [Places -> Contents] /\ Housed' /\ OneDirectory' /\ Kept
  BY <1>1, WriteStep DEF Contents
<1>3. TypeOK'
  BY <1>2 DEF IInv, TypeOK, PutForeign, history
<1>4. AtWork'
  BY DEF AtWork, PutForeign, Busy
<1>5. AllPlaced'
  <2>1. disk \in [Places -> Contents]
    BY DEF IInv, TypeOK
  <2>2. ASSUME NEW y \in Places, NEW c \in Course, NEW path \in Paths, disk'[y] = <<c, path>>
        PROVE  disk[y] = <<c, path>>
    <3>1. <<c, path>> # Foreign
      BY ConstantsAssumption
    <3> QED
      BY <1>1, <2>1, <2>2, <3>1
  <2>3. UsedGrows
    BY DEF PutForeign, history, UsedGrows
  <2> QED
    BY <1>1, <2>2, <2>3, NoneMisplaced DEF IInv
<1> QED
  BY <1>1, <1>2, <1>3, <1>4, <1>5 DEF IInv

LEMMA VisitIInv ==
    ASSUME IInv, NEW path \in Paths, Visit(path)
    PROVE  IInv' /\ Kept
<1>1. UNCHANGED <<name, dirs, cur, dir, pc>> /\ pc \in Busy /\ path \in list
  BY DEF Visit, Busy
<1>2. cur \in Course /\ dir \in dirs /\ dir \in {Code[cur], name[cur]}
  BY <1>1 DEF IInv, AtWork
<1>3. common \in 0..2 /\ common < Len(path)
  BY <1>1 DEF IInv, TypeOK
<1>4. Below(common, path) \in Locals
  BY <1>3, BelowIsLocal
<1>5. /\ Local(path) \in Places /\ Local(path)[1] = dir
      /\ Local(path)[2] = Below(common, path)
  BY <1>2, <1>4 DEF Local, Places, IInv, TypeOK
<1>6. AtWork'
  <2>1. list' \subseteq list /\ UNCHANGED <<server, common, used>>
    BY DEF Visit
  <2>2. pc # "crawl"
    BY DEF Visit
  <2>3. \A p \in list : p \in server[cur] /\ SubSeq(p, 1, common) \in used[cur]
    BY <1>1, <2>2 DEF IInv, AtWork
  <2> QED
    BY <1>1, <1>2, <2>1, <2>2, <2>3 DEF AtWork
<1>0. UsedGrows /\ SubSeq(path, 1, common) \in used[cur]
  BY <1>1 DEF IInv, AtWork, Visit, UsedGrows
<1>7. ASSUME disk' \in [Places -> Contents]
      PROVE  TypeOK'
  <2>1. synced' \in [Course -> SUBSET Paths]
    <3>1. synced \in [Course -> SUBSET Paths]
      BY DEF IInv, TypeOK
    <3>2. synced' = synced \/ synced' = [synced EXCEPT ![cur] = @ \cup {path}]
      BY DEF Visit
    <3> QED
      BY <1>2, <3>1, <3>2
  <2>2. list' \subseteq Paths /\ (\A p \in list' : common' < Len(p)) /\ repfiles' \subseteq Places
    BY DEF IInv, TypeOK, Visit
  <2>3. UNCHANGED <<name, server, dirs, opts, pc, todo, cur, dir, common, used, missed>>
    BY DEF Visit
  <2> QED
    BY <1>7, <2>1, <2>2, <2>3 DEF IInv, TypeOK
<1>8. CASE UNCHANGED disk
  <2>1. disk' \in [Places -> Contents]
    BY <1>8 DEF IInv, TypeOK
  <2> QED
    BY <1>0, <1>1, <1>6, <1>7, <1>8, <2>1, QuietStep DEF IInv
<1>9. CASE disk[Local(path)] = Nothing /\ disk' = [disk EXCEPT ![Local(path)] = <<cur, path>>]
  <2>1. <<cur, path>> \in Contents
    BY <1>2 DEF Contents
  <2>2. disk' \in [Places -> Contents] /\ Housed' /\ OneDirectory' /\ Kept
    BY <1>1, <1>2, <1>5, <1>9, <2>1, WriteStep
  <2>3. AllPlaced'
    <3> SUFFICES ASSUME NEW x \in Places, NEW c \in Course, NEW p \in Paths,
                        disk'[x] = <<c, p>>
                 PROVE  Placed(x, c, p)'
      BY DEF AllPlaced
    <3>1. disk \in [Places -> Contents]
      BY DEF IInv, TypeOK
    <3>2. CASE x = Local(path)
      <4>1. c = cur /\ p = path
        BY <1>5, <1>9, <3>1, <3>2
      <4>2. Share(cur, cur)
        BY DEF Share
      <4>3. path = SubSeq(path, 1, common) \o x[2]
        BY <1>3, <1>5, <3>2, SplitPath
      <4>4. Placed(x, c, p)
        BY <1>0, <1>2, <1>5, <3>2, <4>1, <4>2, <4>3 DEF Placed
      <4> QED
        BY <1>0, <1>1, <4>4, StillPlaced
    <3>3. CASE x # Local(path)
      <4>1. disk[x] = <<c, p>>
        BY <1>9, <3>1, <3>3
      <4> QED
        BY <1>0, <1>1, <4>1, StillPlaced DEF IInv, AllPlaced
    <3> QED
      BY <3>2, <3>3
  <2> QED
    BY <1>1, <1>6, <1>7, <2>2, <2>3 DEF IInv
<1> QED
  BY <1>8, <1>9 DEF Visit

-----------------------------------------------------------------------------
(* What was delivered.                                                     *)

\* A directory is named after a course.
Owned == \A d \in dirs : \E c \in Course : d \in {Code[c], name[c]}

LEMMA OwnedStep ==
    ASSUME IInv, Owned, Next
    PROVE  Owned'
<1>1. UNCHANGED name
  BY DEF Next, Publish, Withdraw, PutForeign, StartRun, Enter, EnterBare, Crawl, Visit, Leave,
         Finish, Abort, Stop, world
<1>2. CASE UNCHANGED dirs
  BY <1>1, <1>2 DEF Owned
<1>3. CASE \E c \in Course : Enter(c)
  <2>1. PICK c \in Course : Settle(c)
    BY <1>3 DEF Enter
  <2>2. dirs' \subseteq dirs \cup {Wanted(c)}
    BY <2>1 DEF Settle, Move
  <2>3. Wanted(c) \in {Code[c], name[c]}
    BY DEF Wanted
  <2> QED
    BY <1>1, <2>2, <2>3 DEF Owned
<1> QED
  BY <1>2, <1>3 DEF Next, Publish, Withdraw, PutForeign, StartRun, EnterBare, Crawl, Visit, Leave,
         Finish, Abort, Stop, world

\* A file of a course of a name of its own is below a name of that course.
LEMMA OwnPlace ==
    ASSUME IInv, NEW c \in Course, NEW d \in Course, NEW path \in Paths, NEW x \in Places,
           Placed(x, c, path), Sole(c) \/ Sole(d), x[1] \in {Code[d], name[d]}
    PROVE  c = d
<1>1. PICK e \in Course : Share(c, e) /\ x[1] \in {Code[e], name[e]}
  BY DEF Placed
<1>2. Share(e, d)
  BY <1>1, NameFacts DEF IInv, Share
<1> QED
  BY <1>1, <1>2 DEF Sole, Share

\* What a file that is visited finds in its place, in a course of a name of its own
\* whose lists never changed what they have in common: nothing, itself, or a file
\* of the user.
LEMMA FoundInPlace ==
    ASSUME IInv, NEW path \in Paths, Visit(path), Sole(cur), Stable(cur)
    PROVE  /\ cur \in Course /\ dir \in {Code[cur], name[cur]} \cap dirs
           /\ Below(common, path) \in Locals
           /\ Local(path) = <<dir, Below(common, path)>> /\ Local(path) \in Places
           /\ SubSeq(path, 1, common) \in used[cur]
           /\ path = SubSeq(path, 1, common) \o Below(common, path)
           /\ disk[Local(path)] \in {Nothing, <<cur, path>>, Foreign}
<1>1. pc \in Busy /\ pc # "crawl" /\ path \in list
  BY DEF Visit, Busy
<1>2. /\ cur \in Course /\ dir \in dirs /\ dir \in {Code[cur], name[cur]}
      /\ SubSeq(path, 1, common) \in used[cur]
  BY <1>1 DEF IInv, AtWork
<1>3. common \in 0..2 /\ common < Len(path)
  BY <1>1 DEF IInv, TypeOK
<1>4. Below(common, path) \in Locals /\ path = SubSeq(path, 1, common) \o Below(common, path)
  BY <1>3, BelowIsLocal, SplitPath
<1>5. /\ Local(path) = <<dir, Below(common, path)>> /\ Local(path) \in Places
      /\ Local(path)[1] = dir /\ Local(path)[2] = Below(common, path)
  BY <1>2, <1>4 DEF Local, Places, IInv, TypeOK
<1>6. disk[Local(path)] \in Contents
  BY <1>5 DEF IInv, TypeOK
<1>7. ASSUME NEW c \in Course, NEW p \in Paths, disk[Local(path)] = <<c, p>>
      PROVE  c = cur /\ p = path
  <2>1. PICK x \in Places : x[1] = dir /\ x[2] = Below(common, path) /\ disk[x] = <<c, p>>
    BY <1>5, <1>7
  <2>5. PICK d \in Course : d = cur /\ Sole(d) /\ x[1] \in {Code[d], name[d]}
    BY <1>2, <2>1
  <2>2. c = cur /\ \E prefix \in used[c] : p = prefix \o x[2]
    <3>1. Placed(x, c, p)
      BY <2>1 DEF IInv, AllPlaced
    <3>2. c = d
      BY <2>5, <3>1, OwnPlace
    <3> QED
      BY <2>5, <3>1, <3>2 DEF Placed
  <2>3. PICK prefix \in used[c] : p = prefix \o x[2]
    BY <2>2
  <2>4. prefix = SubSeq(path, 1, common)
    BY <1>2, <2>2 DEF Stable
  <2> QED
    BY <1>4, <2>1, <2>2, <2>3, <2>4
<1>8. disk[Local(path)] \in {Nothing, <<cur, path>>, Foreign}
  BY <1>6, <1>7 DEF Contents
<1> QED
  BY <1>2, <1>4, <1>5, <1>8

LEMMA SameNames ==
    ASSUME Next
    PROVE  UNCHANGED name
<1>1. CASE \E c \in Course : \E path \in Material[c] : Publish(c, path) \/ Withdraw(c, path)
  BY <1>1 DEF Publish, Withdraw
<1>2. CASE \E x \in Places : PutForeign(x)
  BY <1>2 DEF PutForeign
<1>3. CASE \E o \in Options : StartRun(o)
  BY <1>3 DEF StartRun, world
<1>4. CASE \E c \in Course : Enter(c) \/ EnterBare(c)
  BY <1>4 DEF Enter, EnterBare, world
<1>5. CASE Crawl
  BY <1>5 DEF Crawl, world
<1>6. CASE \E path \in Paths : Visit(path)
  BY <1>6 DEF Visit
<1>7. CASE Leave \/ Finish \/ Abort
  BY <1>7 DEF Leave, Finish, Abort, Stop, world
<1> QED
  BY <1>1, <1>2, <1>3, <1>4, <1>5, <1>6, <1>7 DEF Next

\* A course that is stable after a step was so before it.
LEMMA StableBefore ==
    ASSUME UsedGrows, NEW c \in Course, Stable(c)'
    PROVE  Stable(c)
BY DEF UsedGrows, Stable

\* What was delivered to a course of a name of its own stays so.
LEMMA StaysDelivered ==
    ASSUME IInv, IInv', Kept, UNCHANGED name,
           NEW c \in Course, Sole(c), NEW path \in Paths, NEW l \in Locals,
           NEW d \in {Code[c], name[c]} \cap dirs, disk[<<d, l>>] \in {<<c, path>>, Foreign}
    PROVE  \E e \in {Code[c], name[c]} \cap dirs' : disk'[<<e, l>>] \in {<<c, path>>, Foreign}
<1>0. d \in DirNames
  BY DEF IInv, TypeOK
<1>1. PICK x \in Places : x = <<d, l>> /\ x[1] = d /\ x[2] = l
  BY <1>0 DEF Places
<1>2. disk[x] # Nothing
  BY <1>1, ConstantsAssumption
<1>3. CASE disk'[x] = disk[x]
  <2>1. d \in dirs'
    BY <1>1, <1>2, <1>3 DEF IInv, Housed
  <2> QED
    BY <1>1, <1>3, <2>1
<1>4. CASE \E e \in Course : x[1] = Other(e) /\ disk'[<<Wanted(e), x[2]>>] = disk[x]
  <2>1. PICK e \in Course : d = Other(e) /\ disk'[<<Wanted(e), l>>] = disk[x]
    BY <1>1, <1>4
  <2>2. Share(c, e)
    BY <2>1, NameFacts, WantedOrOther DEF IInv, Share
  <2>3. e = c
    BY <2>2 DEF Sole
  <2>4. Wanted(c) \in {Code[c], name[c]} /\ Wanted(c) \in DirNames
    BY WantedOrOther DEF IInv
  <2>5. PICK y \in Places : y = <<Wanted(c), l>> /\ y[1] = Wanted(c) /\ disk'[y] = disk[x]
    BY <2>1, <2>3, <2>4 DEF Places
  <2>6. Wanted(c) \in dirs'
    BY <1>2, <2>5 DEF IInv, Housed
  <2> QED
    BY <1>1, <2>4, <2>5, <2>6
<1> QED
  BY <1>2, <1>3, <1>4 DEF Kept

LEMMA DeliveredStep ==
    ASSUME IInv, IInv', Kept, UsedGrows, Next, Delivered
    PROVE  Delivered'
<1> SUFFICES ASSUME NEW c \in Course, Sole(c)', Stable(c)', NEW path \in synced'[c]
             PROVE  \E prefix \in used'[c], l \in Locals :
                       /\ path = prefix \o l
                       /\ \E d \in {Code[c], name'[c]} \cap dirs' :
                             disk'[<<d, l>>] \in {<<c, path>>, Foreign}
  BY DEF Delivered
<1>1. UNCHANGED name /\ Sole(c) /\ Stable(c)
  BY SameNames, StableBefore DEF Sole, Share
<1>2. path \in Paths
  BY DEF IInv, TypeOK
<1>3. CASE path \in synced[c]
  <2>1. PICK prefix \in used[c], l \in Locals :
           /\ path = prefix \o l
           /\ \E d \in {Code[c], name[c]} \cap dirs : disk[<<d, l>>] \in {<<c, path>>, Foreign}
    BY <1>1, <1>3 DEF Delivered
  <2>2. \E e \in {Code[c], name[c]} \cap dirs' : disk'[<<e, l>>] \in {<<c, path>>, Foreign}
    BY <1>1, <1>2, <2>1, StaysDelivered
  <2>3. prefix \in used'[c]
    BY DEF UsedGrows
  <2> QED
    BY <1>1, <2>1, <2>2, <2>3
<1>4. CASE path \notin synced[c]
  <2>1. PICK p \in Paths : Visit(p)
    BY <1>4 DEF Next, Publish, Withdraw, PutForeign, StartRun, Enter, EnterBare, Crawl, Leave,
                Finish, Abort, Stop, history
  <2>2. c = cur /\ path = p
    <3>1. synced' = synced \/ synced' = [synced EXCEPT ![cur] = @ \cup {p}]
      BY <2>1 DEF Visit
    <3>2. synced \in [Course -> SUBSET Paths]
      BY DEF IInv, TypeOK
    <3> QED
      BY <1>4, <3>1, <3>2
  <2>3. /\ dir \in {Code[cur], name[cur]} \cap dirs
        /\ Below(common, path) \in Locals
        /\ Local(path) = <<dir, Below(common, path)>> /\ Local(path) \in Places
        /\ SubSeq(path, 1, common) \in used[cur]
        /\ path = SubSeq(path, 1, common) \o Below(common, path)
        /\ disk[Local(path)] \in {Nothing, <<cur, path>>, Foreign}
    BY <1>1, <1>2, <2>1, <2>2, FoundInPlace
  <2>4. disk'[Local(path)] \in {<<cur, path>>, Foreign} /\ dirs' = dirs
    <3>1. disk \in [Places -> Contents]
      BY DEF IInv, TypeOK
    <3> QED
      BY <1>4, <2>1, <2>2, <2>3, <3>1 DEF Visit
  <2>5. SubSeq(path, 1, common) \in used'[c]
    BY <2>2, <2>3 DEF UsedGrows
  <2> QED
    BY <1>1, <2>2, <2>3, <2>4, <2>5
<1> QED
  BY <1>3, <1>4

-----------------------------------------------------------------------------
(* Every step.                                                             *)

LEMMA NextIInv ==
    ASSUME IInv, Next
    PROVE  IInv' /\ Kept
BY PublishIInv, PutForeignIInv, StartRunIInv, EnterIInv, EnterBareIInv, CrawlIInv,
   VisitIInv, LeaveIInv, StopIInv DEF Next, Finish, Abort

LEMMA NextUsedGrows ==
    ASSUME IInv, Next
    PROVE  UsedGrows
<1>1. used \in [Course -> SUBSET StartPaths]
  BY DEF IInv, TypeOK
<1>2. CASE Crawl
  <2>1. cur \in Course
    BY <1>2 DEF IInv, AtWork, Crawl, Busy
  <2>2. \E new : used' = [used EXCEPT ![cur] = @ \cup new]
    BY <1>2 DEF Crawl
  <2> QED
    BY <1>1, <2>1, <2>2 DEF UsedGrows
<1>3. CASE ~Crawl
  <2>1. UNCHANGED used
    BY <1>3 DEF Next, Publish, Withdraw, PutForeign, StartRun, Enter, EnterBare, Visit, Leave,
                Finish, Abort, Stop, history
  <2> QED
    BY <2>1 DEF UsedGrows
<1> QED
  BY <1>2, <1>3

LEMMA StutterIInv ==
    ASSUME IInv, UNCHANGED vars
    PROVE  IInv'
<1>1. UNCHANGED <<name, server, disk, dirs, opts, pc, todo, cur, dir, list, common,
                  repfiles, used, synced, missed>>
  BY DEF vars
<1>2. TypeOK'
  BY <1>1 DEF IInv, TypeOK
<1>3. AtWork'
  BY <1>1 DEF IInv, AtWork
<1>4. UsedGrows
  BY <1>1 DEF UsedGrows
<1> QED
  BY <1>1, <1>2, <1>3, <1>4, QuietStep DEF IInv

THEOREM Invariance == Spec => []IInv
<1>1. Init => IInv
  BY InitIInv
<1>2. IInv /\ [Next]_vars => IInv'
  BY NextIInv, StutterIInv
<1> QED
  BY <1>1, <1>2, PTL DEF Spec

\* Every variable keeps its type; in particular, the folders that are cut off
\* the paths of a list are fewer than any path on it has, so that every file
\* keeps a name below the directory of its course.
\* (get_common_startpath, foreach_getfile)
THEOREM TypeCorrect == Spec => []TypeOK
<1>1. IInv => TypeOK
  BY DEF IInv
<1> QED
  BY <1>1, Invariance, PTL

\* Whatever the options of the runs, and wherever they end, a file is in a
\* directory of its course or of one of the same name, and named as its path is
\* below folders that a list of its course had in common.
\* (iol_resync_download, convertRepository, foreach_getfile)
THEOREM FilesStayPut == Spec => []Placement
<1>1. IInv => Placement
  BY PlacementForm DEF IInv
<1> QED
  BY <1>1, Invariance, PTL

\* A course whose name no other has never has two directories.
\* (iol_resync_download)
THEOREM NeverTwoDirectories == Spec => []OneDirectory
<1>1. IInv => OneDirectory
  BY DEF IInv
<1> QED
  BY <1>1, Invariance, PTL

\* No step of any run loses or overwrites a file.
\* (stat() in foreach_getfile, rename() in convertRepository)
THEOREM NothingLost == Spec => NoLoss
<1> DEFINE Safe == \A x \in Places : disk[x] # Nothing =>
              \/ disk'[x] = disk[x]
              \/ x[1] \notin dirs' /\ \E d \in DirNames : disk'[<<d, x[2]>>] = disk[x]
<1>1. ASSUME IInv, Kept
      PROVE  Safe
  <2> SUFFICES ASSUME NEW x \in Places, disk[x] # Nothing, disk'[x] # disk[x]
               PROVE  x[1] \notin dirs' /\ \E d \in DirNames : disk'[<<d, x[2]>>] = disk[x]
    OBVIOUS
  <2>1. PICK c \in Course : x[1] \notin dirs' /\ disk'[<<Wanted(c), x[2]>>] = disk[x]
    BY <1>1 DEF Kept
  <2>2. Wanted(c) \in DirNames
    BY <1>1, WantedOrOther DEF IInv
  <2> QED
    BY <2>1, <2>2
<1> HIDE DEF Safe
<1>2. IInv /\ [Next]_vars => [Safe]_vars
  BY <1>1, NextIInv
<1> QED
  BY <1>2, Invariance, PTL DEF Spec, NoLoss, Safe

\* What foreach_getfile was content with is in the repository, under its local name
\* and with its own content or with the user's, whatever runs, options and failures
\* there were since, as long as the lists of its course had the same folders in
\* common.  (get_common_startpath, foreach_getfile, convertRepository)
THEOREM DeliveredStays == Spec => []Delivered
<1>1. Init => Delivered
  BY DEF Init, Delivered
<1>2. IInv /\ IInv' /\ Delivered /\ [Next]_vars => Delivered'
  <2>1. ASSUME IInv, IInv', Delivered, Next
        PROVE  Delivered'
    BY <2>1, NextIInv, NextUsedGrows, DeliveredStep
  <2>2. ASSUME Delivered, UNCHANGED vars
        PROVE  Delivered'
    <3>1. UNCHANGED <<name, disk, dirs, used, synced>>
      BY <2>2 DEF vars
    <3>2. ASSUME NEW c \in Course, Sole(c)', Stable(c)', NEW path \in synced'[c]
          PROVE  \E prefix \in used'[c], l \in Locals :
                     /\ path = prefix \o l
                     /\ \E d \in {Code[c], name'[c]} \cap dirs' :
                           disk'[<<d, l>>] \in {<<c, path>>, Foreign}
      <4>1. Sole(c) /\ Stable(c)
        BY <3>1, <3>2 DEF Sole, Share, Stable
      <4>2. path \in synced[c]
        BY <3>1
      <4>3. PICK prefix \in used[c], l \in Locals :
               /\ path = prefix \o l
               /\ \E d \in {Code[c], name[c]} \cap dirs : disk[<<d, l>>] \in {<<c, path>>, Foreign}
        BY <2>2, <4>1, <4>2 DEF Delivered
      <4> QED
        BY <3>1, <4>3
    <3> QED
      BY <3>2 DEF Delivered
  <2> QED
    BY <2>1, <2>2
<1> QED
  BY <1>1, <1>2, Invariance, PTL DEF Spec

-----------------------------------------------------------------------------
(* The report.                                                             *)

\* No report is under way between runs.
Idle == pc = "idle" => repfiles = {} /\ ~missed

\* The courses visited so far have no directory but the one the options ask for.
Straight ==
    /\ pc # "idle" /\ ~missed => \A c \in Course \ todo : Other(c) \notin dirs
    /\ pc \in Busy => cur \notin todo

\* The files of a course the report names are those it has still to visit.
KnownVisited ==
    pc # "idle" /\ ~missed =>
        \A x \in repfiles, c \in Course : Sole(c) /\ Stable(c) =>
            \A path \in server[c] : disk[x] = <<c, path>> =>
                pc \in Busy /\ cur = c /\ (pc = "crawl" \/ path \in list)

\* The unknown files of the courses visited so far are named.
UnknownListed ==
    pc # "idle" /\ ~missed /\ opts.xenofobe =>
        \A x \in Places :
            Unknown(x) /\ (\E c \in Course \ todo : x[1] = Wanted(c)) => x \in repfiles

Reporting == Owned /\ Idle /\ Straight /\ KnownVisited /\ UnknownListed

\* A step that ends a run, or is taken between runs.
LEMMA IdleReporting ==
    ASSUME pc' = "idle", repfiles' = {}, ~missed', Owned'
    PROVE  Reporting'
BY DEF Reporting, Idle, Straight, KnownVisited, UnknownListed, Busy

LEMMA StartRunReporting ==
    ASSUME Reporting, NEW o \in Options, StartRun(o), Owned'
    PROVE  Reporting'
<1>1. pc' = "course" /\ todo' = Course /\ repfiles' = {}
  BY DEF StartRun, Reporting, Idle
<1> QED
  BY <1>1 DEF Reporting, Idle, Straight, KnownVisited, UnknownListed, Busy

\* A file of the user that is unknown after a step was so before it.
LEMMA UnknownBefore ==
    ASSUME UNCHANGED <<name, server>>, UsedGrows, NEW x, disk'[x] = disk[x], Unknown(x)'
    PROVE  Unknown(x)
<1>1. disk[x] = Foreign
  BY DEF Unknown
<1>2. ASSUME NEW c \in Course, x[1] \in {Code[c], name[c]}, NEW prefix \in used[c]
      PROVE  prefix \o x[2] \notin server[c]
  <2>1. prefix \in used'[c] /\ x[1] \in {Code[c], name'[c]}
    BY <1>2 DEF UsedGrows
  <2>2. prefix \o x[2] \notin server'[c]
    BY <2>1 DEF Unknown
  <2> QED
    BY <2>2
<1> QED
  BY <1>1, <1>2 DEF Unknown

\* A course is entered that has no directory to rename.
LEMMA EnterStraight ==
    ASSUME IInv, Reporting, NEW c \in Course, Enter(c) \/ EnterBare(c), ~missed'
    PROVE  /\ ~missed /\ Other(c) \notin dirs /\ UNCHANGED <<name, server, disk, opts, used>>
           /\ dirs' \subseteq dirs \cup {Wanted(c)}
           /\ repfiles' = repfiles \cup (IF opts.xenofobe THEN Scan(c) ELSE {})
           /\ pc = "course" /\ todo' = todo \ {c}
           /\ \A d \in Course : Wanted(d)' = Wanted(d) /\ Other(d)' = Other(d)
<1>1. ~missed /\ Other(c) \notin dirs
  BY DEF Enter, EnterBare
<1>2. /\ pc = "course" /\ todo' = todo \ {c} /\ UNCHANGED <<name, server, opts, used>>
      /\ repfiles' = repfiles \cup (IF opts.xenofobe THEN Scan(c) ELSE {})
  BY DEF Enter, EnterBare, world
<1>3. UNCHANGED disk /\ dirs' \subseteq dirs \cup {Wanted(c)}
  BY <1>1 DEF Enter, EnterBare, world, Settle
<1>4. \A d \in Course : Wanted(d)' = Wanted(d) /\ Other(d)' = Other(d)
  BY <1>2 DEF Wanted, Other
<1> QED
  BY <1>1, <1>2, <1>3, <1>4

LEMMA EnterReporting ==
    ASSUME IInv, Reporting, NEW c \in Course, Enter(c) \/ EnterBare(c), Owned'
    PROVE  Reporting'
<1>1. pc = "course" /\ pc' # "idle" /\ todo' = todo \ {c} /\ (pc' \in Busy => cur' = c)
  BY DEF Enter, EnterBare, Busy
<1>2. Idle'
  BY <1>1 DEF Idle
<1>3. ASSUME ~missed'
      PROVE  \A d \in Course \ todo' : Other(d)' \notin dirs'
  <2> TAKE d \in Course \ todo'
  <2>1. Other(d) # Wanted(c)
    BY NameFacts, WantedOrOther DEF IInv, Wanted, Other
  <2>2. Other(d) \notin dirs
    BY <1>1, <1>3, EnterStraight DEF Reporting, Straight
  <2> QED
    BY <1>3, <2>1, <2>2, EnterStraight
<1>4. Straight'
  BY <1>1, <1>3 DEF Straight
<1>5. KnownVisited'
  <2> SUFFICES ASSUME ~missed', NEW x \in repfiles', NEW d \in Course, Sole(d)', Stable(d)',
                      NEW path \in server'[d], disk'[x] = <<d, path>>
               PROVE  pc' \in Busy /\ cur' = d /\ pc' = "crawl"
    BY DEF KnownVisited
  <2>1. ~missed /\ UNCHANGED <<name, server, disk, used>>
    BY EnterStraight
  <2>2. Sole(d) /\ Stable(d) /\ path \in server[d] /\ disk[x] = <<d, path>>
    BY <2>1 DEF Sole, Share, Stable
  <2>3. x \notin repfiles
    BY <1>1, <2>1, <2>2 DEF Reporting, KnownVisited, Busy
  <2>4. x \in Places /\ x[1] = Wanted(c)
    BY <2>3, EnterStraight DEF Scan
  <2>5. path \in Paths
    BY <2>2 DEF IInv, TypeOK
  <2>6. Placed(x, d, path)
    BY <2>2, <2>4, <2>5 DEF IInv, AllPlaced
  <2>7. Wanted(c) \in {Code[c], name[c]}
    BY DEF Wanted
  <2>8. d = c
    BY <2>2, <2>4, <2>5, <2>6, <2>7, OwnPlace
  <2> QED
    BY <2>2, <2>8 DEF Enter, EnterBare, Busy
<1>6. UnknownListed'
  <2> SUFFICES ASSUME ~missed', opts'.xenofobe, NEW x \in Places, Unknown(x)',
                      NEW d \in Course \ todo', x[1] = Wanted(d)'
               PROVE  x \in repfiles'
    BY DEF UnknownListed
  <2>1. /\ ~missed /\ opts.xenofobe /\ UNCHANGED <<name, server, disk, used>>
        /\ x[1] = Wanted(d) /\ repfiles' = repfiles \cup Scan(c)
    BY EnterStraight
  <2>2. Unknown(x)
    BY <2>1 DEF Unknown
  <2>3. CASE d = c
    <3>1. disk[x] # Nothing
      BY <2>2, ConstantsAssumption DEF Unknown
    <3> QED
      BY <2>1, <2>3, <3>1 DEF Scan
  <2>4. CASE d # c
    <3>1. d \in Course \ todo
      BY <1>1, <2>4
    <3> QED
      BY <1>1, <2>1, <2>2, <3>1 DEF Reporting, UnknownListed
  <2> QED
    BY <2>3, <2>4
<1> QED
  BY <1>2, <1>4, <1>5, <1>6 DEF Reporting

LEMMA CrawlReporting ==
    ASSUME IInv, Reporting, Crawl, Owned'
    PROVE  Reporting'
<1>1. /\ pc = "crawl" /\ pc' \in Busy /\ pc' # "idle"
      /\ UNCHANGED <<name, server, disk, dirs, opts, todo, cur, repfiles>>
      /\ (~missed' => ~missed /\ list' = server[cur])
  BY DEF Crawl, world, Busy
<1>2. UsedGrows
  BY NextUsedGrows DEF Next
<1>3. Idle'
  BY <1>1 DEF Idle
<1>4. Straight'
  BY <1>1 DEF Reporting, Straight, Busy, Other
<1>5. KnownVisited'
  <2> SUFFICES ASSUME ~missed', NEW x \in repfiles', NEW d \in Course, Sole(d)', Stable(d)',
                      NEW path \in server'[d], disk'[x] = <<d, path>>
               PROVE  pc' \in Busy /\ cur' = d /\ path \in list'
    BY DEF KnownVisited
  <2>1. Sole(d) /\ Stable(d) /\ path \in server[d] /\ disk[x] = <<d, path>>
    BY <1>1, <1>2, StableBefore DEF Sole, Share
  <2>2. cur = d
    BY <1>1, <2>1 DEF Reporting, KnownVisited
  <2> QED
    BY <1>1, <2>1, <2>2
<1>6. UnknownListed'
  <2> SUFFICES ASSUME ~missed', opts'.xenofobe, NEW x \in Places, Unknown(x)',
                      NEW d \in Course \ todo', x[1] = Wanted(d)'
               PROVE  x \in repfiles'
    BY DEF UnknownListed
  <2>1. Unknown(x) /\ x[1] = Wanted(d) /\ d \in Course \ todo
    BY <1>1, <1>2, UnknownBefore DEF Wanted
  <2> QED
    BY <1>1, <2>1 DEF Reporting, UnknownListed
<1> QED
  BY <1>3, <1>4, <1>5, <1>6 DEF Reporting

\* The only place a file of the course at hand can be in is where foreach_getfile
\* looks for it, once the directory of the course is the one the options ask for.
LEMMA OnlyPlace ==
    ASSUME IInv, Reporting, ~missed, NEW p \in Paths, Visit(p), Sole(cur), Stable(cur),
           NEW x \in Places, disk[x] = <<cur, p>>
    PROVE  x = Local(p)
<1>1. /\ cur \in Course /\ dir \in {Code[cur], name[cur]} \cap dirs
      /\ Local(p) = <<dir, Below(common, p)>> /\ Below(common, p) \in Locals
      /\ SubSeq(p, 1, common) \in used[cur]
      /\ p = SubSeq(p, 1, common) \o Below(common, p)
  BY FoundInPlace
<1>2. Placed(x, cur, p)
  BY <1>1 DEF IInv, AllPlaced
<1>3. x[1] = dir
  <2>1. PICK e \in Course : Share(cur, e) /\ x[1] \in {Code[e], name[e]}
    BY <1>2 DEF Placed
  <2>2. e = cur
    BY <2>1 DEF Sole
  <2>3. x[1] \in dirs
    <3>1. <<cur, p>> \in Course \X Paths
      BY <1>1
    <3>2. disk[x] # Nothing
      BY <3>1, ConstantsAssumption
    <3> QED
      BY <3>2 DEF IInv, Housed
  <2>4. pc \in Busy /\ pc # "idle"
    BY DEF Visit, Busy
  <2>5. Other(cur) \notin dirs
    BY <1>1, <2>4 DEF Reporting, Straight
  <2> QED
    BY <1>1, <2>1, <2>2, <2>3, <2>5, WantedOrOther DEF IInv
<1>4. x[2] = Below(common, p)
  <2>1. PICK prefix \in used[cur] : p = prefix \o x[2]
    BY <1>2 DEF Placed
  <2>2. prefix = SubSeq(p, 1, common)
    BY <1>1, <2>1 DEF Stable
  <2>3. prefix \in StartPaths
    BY <1>1, <2>1 DEF IInv, TypeOK
  <2>4. x[2] \in Locals
    BY DEF Places
  <2> QED
    BY <1>1, <2>1, <2>2, <2>3, <2>4, OneLocal
<1>5. x = <<x[1], x[2]>>
  BY DEF Places
<1> QED
  BY <1>1, <1>3, <1>4, <1>5

LEMMA VisitReporting ==
    ASSUME IInv, Reporting, NEW p \in Paths, Visit(p), Owned'
    PROVE  Reporting'
<1>1. /\ pc \in Busy /\ pc # "crawl" /\ pc # "idle" /\ p \in list /\ list' = list \ {p}
      /\ repfiles' = repfiles \ {Local(p)}
      /\ UNCHANGED <<name, server, dirs, opts, pc, todo, cur, used, missed>>
  BY DEF Visit, Busy
<1>2. ASSUME NEW x \in Places, x # Local(p)
      PROVE  disk'[x] = disk[x]
  BY <1>2 DEF Visit, IInv, TypeOK
<1>3. Idle' /\ Straight'
  BY <1>1 DEF Reporting, Idle, Straight, Busy, Other
<1>4. KnownVisited'
  <2> SUFFICES ASSUME ~missed, NEW x \in repfiles', NEW d \in Course, Sole(d)', Stable(d)',
                      NEW path \in server'[d], disk'[x] = <<d, path>>
               PROVE  pc' \in Busy /\ cur' = d /\ path \in list'
    BY <1>1 DEF KnownVisited
  <2>1. x \in repfiles /\ x # Local(p) /\ x \in Places
    BY <1>1 DEF IInv, TypeOK
  <2>2. Sole(d) /\ Stable(d) /\ path \in server[d] /\ disk[x] = <<d, path>>
    BY <1>1, <1>2, <2>1 DEF Sole, Share, Stable
  <2>3. cur = d /\ path \in list
    BY <1>1, <2>1, <2>2 DEF Reporting, KnownVisited
  <2>4. path # p
    BY <2>1, <2>2, <2>3, OnlyPlace
  <2> QED
    BY <1>1, <2>3, <2>4
<1>5. UnknownListed'
  <2> SUFFICES ASSUME ~missed, opts.xenofobe, NEW x \in Places, Unknown(x)',
                      NEW d \in Course \ todo, x[1] = Wanted(d)
               PROVE  x \in repfiles'
    BY <1>1 DEF UnknownListed, Wanted
  <2>1. x # Local(p)
    <3>1. /\ cur \in Course /\ dir \in {Code[cur], name[cur]}
          /\ SubSeq(p, 1, common) \in used[cur] /\ p \in server[cur]
      BY <1>1 DEF IInv, AtWork
    <3>2. common \in 0..2 /\ common < Len(p)
      BY <1>1 DEF IInv, TypeOK
    <3>3. p = SubSeq(p, 1, common) \o Below(common, p)
      BY <3>2, SplitPath
    <3>4. Local(p)[1] = dir /\ Local(p)[2] = Below(common, p)
      BY DEF Local
    <3>5. ASSUME x = Local(p)
          PROVE  FALSE
      <4>1. x[1] \in {Code[cur], name'[cur]} /\ SubSeq(p, 1, common) \in used'[cur]
        BY <1>1, <3>1, <3>4, <3>5
      <4>2. SubSeq(p, 1, common) \o x[2] \notin server'[cur]
        BY <3>1, <4>1 DEF Unknown
      <4> QED
        BY <1>1, <3>1, <3>3, <3>4, <3>5, <4>2
    <3> QED
      BY <3>5
  <2>2. UsedGrows
    BY <1>1 DEF UsedGrows
  <2>3. Unknown(x)
    BY <1>1, <1>2, <2>1, <2>2, UnknownBefore
  <2> QED
    BY <1>1, <2>1, <2>3 DEF Reporting, UnknownListed
<1> QED
  BY <1>3, <1>4, <1>5 DEF Reporting

LEMMA LeaveReporting ==
    ASSUME IInv, Reporting, Leave, Owned'
    PROVE  Reporting'
<1>1. /\ pc = "files" /\ pc' = "course" /\ list = {}
      /\ UNCHANGED <<name, server, disk, dirs, opts, todo, repfiles, used, missed>>
  BY DEF Leave, world, history
<1>2. Idle' /\ Straight'
  BY <1>1 DEF Reporting, Idle, Straight, Busy, Other
<1>3. KnownVisited'
  BY <1>1 DEF Reporting, KnownVisited, Busy, Sole, Share, Stable
<1>4. UnknownListed'
  BY <1>1 DEF Reporting, UnknownListed, Unknown, Wanted
<1> QED
  BY <1>2, <1>3, <1>4 DEF Reporting

LEMMA NextReporting ==
    ASSUME IInv, Reporting, Next
    PROVE  Reporting'
<1>1. Owned'
  BY OwnedStep DEF Reporting
<1>2. CASE \E c \in Course : \E path \in Material[c] : Publish(c, path) \/ Withdraw(c, path)
  <2>1. pc' = "idle" /\ repfiles' = {} /\ ~missed'
    BY <1>2 DEF Publish, Withdraw, history, Reporting, Idle
  <2> QED
    BY <1>1, <2>1, IdleReporting
<1>3. CASE \E x \in Places : PutForeign(x)
  <2>1. pc' = "idle" /\ repfiles' = {} /\ ~missed'
    BY <1>3 DEF PutForeign, history, Reporting, Idle
  <2> QED
    BY <1>1, <2>1, IdleReporting
<1>4. CASE Finish \/ Abort
  <2>1. pc' = "idle" /\ repfiles' = {} /\ ~missed'
    BY <1>4 DEF Finish, Abort, Stop
  <2> QED
    BY <1>1, <2>1, IdleReporting
<1> QED
  BY <1>1, <1>2, <1>3, <1>4, StartRunReporting, EnterReporting, CrawlReporting,
     VisitReporting, LeaveReporting DEF Next

LEMMA StutterReporting ==
    ASSUME Reporting, UNCHANGED vars
    PROVE  Reporting'
<1>1. UNCHANGED <<name, server, disk, dirs, opts, pc, todo, cur, list, repfiles, used, missed>>
  BY DEF vars
<1>2. Owned' /\ Idle' /\ Straight'
  BY <1>1 DEF Reporting, Owned, Idle, Straight, Other
<1>3. KnownVisited'
  BY <1>1 DEF Reporting, KnownVisited, Sole, Share, Stable
<1>4. UnknownListed'
  BY <1>1 DEF Reporting, UnknownListed, Unknown, Wanted
<1> QED
  BY <1>2, <1>3, <1>4 DEF Reporting

LEMMA ReportingAlways == Spec => []Reporting
<1>1. Init => Reporting
  BY DEF Init, Reporting, Owned, Idle, Straight, KnownVisited, UnknownListed, Busy
<1>2. IInv /\ Reporting /\ [Next]_vars => Reporting'
  BY NextReporting, StutterReporting
<1> QED
  BY <1>1, <1>2, Invariance, PTL DEF Spec

\* A report of a run in which every file was resolved and no directory was to be
\* renamed names no file that was stored for a course of a name of its own and that
\* the course still offers.  (stringset_remove in foreach_getfile)
THEOREM OnlyForeignReported == Spec => []ReportsOnlyForeign
<1>1. Reporting => ReportsOnlyForeign
  BY DEF Reporting, KnownVisited, ReportsOnlyForeign, Reports, Busy
<1> QED
  BY <1>1, ReportingAlways, PTL

\* And it names every file of the user in the directories of the courses that is not
\* named like one on the server.  (the scan in iol_resync, stringset_remove)
THEOREM EveryForeignReported == Spec => []ReportsEveryForeignInPlace
<1>1. IInv /\ Reporting => ReportsEveryForeignInPlace
  <2> SUFFICES ASSUME IInv, Reporting, Reports, ~missed, NEW x \in Places, Unknown(x)
               PROVE  x \in repfiles
    BY DEF ReportsEveryForeignInPlace, ReportsEveryForeign
  <2>1. pc # "idle" /\ todo = {} /\ opts.xenofobe
    BY DEF Reports
  <2>2. x[1] \in dirs
    BY ConstantsAssumption DEF Unknown, IInv, Housed
  <2>3. PICK c \in Course : x[1] \in {Code[c], name[c]}
    BY <2>2 DEF Reporting, Owned
  <2>4. x[1] # Other(c)
    BY <2>1, <2>2 DEF Reporting, Straight
  <2>5. x[1] = Wanted(c)
    BY <2>3, <2>4, WantedOrOther DEF IInv
  <2> QED
    BY <2>1, <2>5 DEF Reporting, UnknownListed
<1> QED
  BY <1>1, Invariance, ReportingAlways, PTL
=============================================================================
