--------------------------- MODULE DownloadProofs ---------------------------
(***************************************************************************)
(* Proofs about Download, for any number of processes, directories, files  *)
(* and buffers: as long as no two processes share a directory, the         *)
(* temporary file and the rename keep every promise Repository makes.      *)
(*                                                                         *)
(* The argument: a directory's temporary belongs to the one process that   *)
(* works there (Apart), so the inode it writes has no other name and no    *)
(* other writer (Distinct), so what it renames is what it wrote (Work),    *)
(* and the inodes that have final names are out of everybody's reach.      *)
(***************************************************************************)
EXTENDS Download, TLAPS

\* No inode has two names.
Distinct ==
    /\ \A e1, e2 \in Entries : name[e1] # None /\ name[e1] = name[e2] => e1 = e2
    /\ \A d1, d2 \in Dirs : tmp[d1] # None /\ tmp[d1] = tmp[d2] => d1 = d2
    /\ \A e \in Entries, d \in Dirs : name[e] # None => name[e] # tmp[d]

\* The file in hand is missing, and in the repository of the process.
InHand(p) ==
    /\ pc[p] # "idle" =>
         job[p] \in Entries /\ DirOf(p) \in Root[p] /\ name[job[p]] = None
    /\ todo[p] \subseteq Material(p)
    /\ pc[p] # "writing" => fd[p] = None

\* What is written so far is the text of the file in hand.
Written(p) ==
    pc[p] = "writing" =>
        /\ fd[p] # None
        /\ fd[p] = tmp[DirOf(p)]
        /\ \A b \in 1..N : data[fd[p]][b] = IF b <= off[p] THEN job[p] ELSE None

\* What is about to be renamed is the whole of it.
Received(p) ==
    pc[p] = "received" =>
        tmp[DirOf(p)] # None /\ HasText(tmp[DirOf(p)], job[p])

Work == \A p \in Procs : InHand(p) /\ Written(p) /\ Received(p)

IInv == TypeOK /\ Distinct /\ Work /\ FinalComplete

-----------------------------------------------------------------------------

\* Two processes at work are in different directories.
LEMMA Apart ==
    ASSUME Isolated, Work, NEW p \in Procs, NEW q \in Procs, p # q,
           pc[p] # "idle", pc[q] # "idle"
    PROVE  DirOf(p) # DirOf(q)
BY DEF Isolated, Work, InHand

\* The directory of a file in hand is one.
LEMMA HandDir ==
    ASSUME IInv, NEW p \in Procs, pc[p] # "idle"
    PROVE  job[p] \in Entries /\ DirOf(p) \in Dirs
BY ConstantsAssumption DEF IInv, Work, InHand, DirOf

LEMMA InitIInv == Init => IInv
<1> SUFFICES ASSUME Init PROVE IInv
  OBVIOUS
<1>1. TypeOK
  BY ConstantsAssumption DEF Init, TypeOK, Blank
<1>2. Distinct
  BY DEF Init, Distinct
<1>3. Work
  BY DEF Init, Work, InHand, Written, Received
<1>4. FinalComplete
  BY DEF Init, FinalComplete
<1> QED
  BY <1>1, <1>2, <1>3, <1>4 DEF IInv

LEMMA StartIInv ==
    ASSUME IInv, NEW p \in Procs, Start(p) PROVE IInv'
<1>1. TypeOK'
  BY DEF IInv, TypeOK, Start, Material
<1>2. Distinct'
  BY DEF IInv, Distinct, Start
<1>3. Work'
  BY DEF IInv, TypeOK, Work, InHand, Written, Received, HasText, DirOf, Start, Material
<1>4. FinalComplete'
  BY DEF IInv, FinalComplete, HasText, Start
<1> QED
  BY <1>1, <1>2, <1>3, <1>4 DEF IInv

LEMMA ConsiderIInv ==
    ASSUME IInv, NEW p \in Procs, NEW e \in Entries, Consider(p, e) PROVE IInv'
<1>1. TypeOK'
  BY DEF IInv, TypeOK, Consider
<1>2. Distinct'
  BY DEF IInv, Distinct, Consider
<1>3. Work'
  BY DEF IInv, TypeOK, Work, InHand, Written, Received, HasText, DirOf, Consider, Material
<1>4. FinalComplete'
  BY DEF IInv, FinalComplete, HasText, Consider
<1> QED
  BY <1>1, <1>2, <1>3, <1>4 DEF IInv

LEMMA PassIInv ==
    ASSUME IInv, NEW p \in Procs, NEW e \in Entries, Found(p, e) \/ Skip(p, e)
    PROVE  IInv'
<1>1. TypeOK'
  BY DEF IInv, TypeOK, Found, Skip
<1>2. Distinct'
  BY DEF IInv, Distinct, Found, Skip
<1>3. Work'
  <2> SUFFICES ASSUME NEW q \in Procs PROVE (InHand(q) /\ Written(q) /\ Received(q))'
    BY DEF Work
  <2>1. todo'[q] \subseteq todo[q] /\ UNCHANGED <<name, tmp, data, pc, job, fd, off>>
    BY DEF IInv, TypeOK, Found, Skip
  <2>2. InHand(q)'
    BY <2>1 DEF IInv, Work, InHand, DirOf, Material
  <2>3. Written(q)' /\ Received(q)'
    BY <2>1 DEF IInv, Work, Written, Received, HasText, DirOf
  <2> QED
    BY <2>2, <2>3
<1>4. FinalComplete'
  BY DEF IInv, FinalComplete, HasText, Found, Skip
<1> QED
  BY <1>1, <1>2, <1>3, <1>4 DEF IInv

LEMMA OpenIInv ==
    ASSUME Isolated, IInv, NEW p \in Procs, Open(p) PROVE IInv'
<1> USE ConstantsAssumption
<1>0. job[p] \in Entries /\ DirOf(p) \in Dirs /\ pc[p] = "stated"
  BY HandDir DEF Open
<1>a. PICK i \in Inodes :
        /\ IF tmp[DirOf(p)] = None THEN Fresh(i) ELSE i = tmp[DirOf(p)]
        /\ data' = [data EXCEPT ![i] = Blank]
        /\ fd' = [fd EXCEPT ![p] = i]
        /\ tmp' = [tmp EXCEPT ![DirOf(p)] = i]
  BY DEF Open
<1>b. \A e \in Entries : name[e] # i
  BY <1>0, <1>a DEF IInv, Distinct, Fresh, Free
<1>c. \A d \in Dirs : d # DirOf(p) => tmp[d] # i
  BY <1>0, <1>a DEF IInv, Distinct, Fresh, Free
<1>d. \A q \in Procs : q # p /\ pc[q] # "idle" => DirOf(q) # DirOf(p) /\ DirOf(q) \in Dirs
  BY <1>0, Apart, HandDir DEF IInv
<1>1. TypeOK'
  <2>1. data' \in [Inodes -> [1..N -> Entries \cup {None}]]
    BY <1>a DEF IInv, TypeOK, Blank
  <2>2. tmp' \in [Dirs -> Inodes \cup {None}] /\ fd' \in [Procs -> Inodes \cup {None}]
    BY <1>a DEF IInv, TypeOK
  <2>3. /\ off' \in [Procs -> 0..N-1]
        /\ pc' \in [Procs -> {"idle", "stated", "writing", "received", "failed"}]
        /\ UNCHANGED <<name, job, todo, orphan>>
    BY DEF IInv, TypeOK, Open
  <2> QED
    BY <2>1, <2>2, <2>3 DEF IInv, TypeOK
<1>2. Distinct'
  BY <1>0, <1>a, <1>b, <1>c DEF IInv, TypeOK, Distinct, Open
<1>3. Work'
  <2> SUFFICES ASSUME NEW q \in Procs PROVE (InHand(q) /\ Written(q) /\ Received(q))'
    BY DEF Work
  <2>1. InHand(q)'
    BY <1>0, <1>a DEF IInv, TypeOK, Work, InHand, DirOf, Open, Material
  <2>2. CASE q = p
    BY <1>0, <1>a, <2>1, <2>2 DEF IInv, TypeOK, Written, Received, DirOf, Open, Blank
  <2>3. CASE q # p
    <3>1. pc[q] # "idle" => tmp'[DirOf(q)] = tmp[DirOf(q)] /\ tmp[DirOf(q)] # i
      BY <1>0, <1>a, <1>c, <1>d, <2>3 DEF IInv, TypeOK
    <3>2. pc'[q] = pc[q] /\ job'[q] = job[q] /\ off'[q] = off[q] /\ fd'[q] = fd[q] /\ DirOf(q)' = DirOf(q)
      BY <1>a, <2>3 DEF IInv, TypeOK, Open, DirOf
    <3>3. \A j \in Inodes : j # i => data'[j] = data[j]
      BY <1>a DEF IInv, TypeOK
    <3>4. Written(q)'
      <4> SUFFICES ASSUME pc[q] = "writing" PROVE Written(q)'
        BY <3>2 DEF Written
      <4>1. fd[q] \in Inodes /\ fd[q] = tmp[DirOf(q)] /\ fd[q] # i
        BY <3>1 DEF IInv, TypeOK, Work, Written
      <4> QED
        BY <3>1, <3>2, <3>3, <4>1 DEF IInv, Work, Written
    <3>5. Received(q)'
      <4> SUFFICES ASSUME pc[q] = "received" PROVE Received(q)'
        BY <3>2 DEF Received
      <4>1. tmp[DirOf(q)] \in Inodes /\ tmp[DirOf(q)] # i
        BY <1>d, <2>3, <3>1 DEF IInv, TypeOK, Work, Received
      <4> QED
        BY <3>1, <3>2, <3>3, <4>1 DEF IInv, Work, Received, HasText
    <3> QED
      BY <2>1, <3>4, <3>5
  <2> QED
    BY <2>2, <2>3
<1>4. FinalComplete'
  BY <1>a, <1>b DEF IInv, TypeOK, FinalComplete, HasText, Open
<1> QED
  BY <1>1, <1>2, <1>3, <1>4 DEF IInv

LEMMA RefuseIInv ==
    ASSUME IInv, NEW p \in Procs, Refuse(p) PROVE IInv'
<1>1. TypeOK'
  BY DEF IInv, TypeOK, Refuse
<1>2. Distinct'
  BY DEF IInv, Distinct, Refuse
<1>3. Work'
  BY DEF IInv, TypeOK, Work, InHand, Written, Received, HasText, DirOf, Refuse, Material
<1>4. FinalComplete'
  BY DEF IInv, FinalComplete, HasText, Refuse
<1> QED
  BY <1>1, <1>2, <1>3, <1>4 DEF IInv

\* What a step of p leaves as it is for a process q elsewhere: its variables
\* and the inode it works on.
LEMMA OtherWork ==
    ASSUME IInv, NEW q \in Procs,
           UNCHANGED <<pc[q], job[q], fd[q], off[q], todo[q], name[job[q]]>>,
           pc[q] # "idle" => tmp'[DirOf(q)] = tmp[DirOf(q)],
           pc[q] # "idle" /\ tmp[DirOf(q)] # None =>
                data'[tmp[DirOf(q)]] = data[tmp[DirOf(q)]]
    PROVE  (InHand(q) /\ Written(q) /\ Received(q))'
<1>1. InHand(q)'
  BY DEF IInv, Work, InHand, DirOf, Material
<1>2. Written(q)'
  <2> SUFFICES ASSUME pc[q] = "writing" PROVE Written(q)'
    BY DEF Written
  <2>1. fd[q] = tmp[DirOf(q)] /\ tmp[DirOf(q)] # None /\ DirOf(q)' = DirOf(q)
    BY DEF IInv, Work, Written, DirOf
  <2>2. data'[fd[q]] = data[fd[q]] /\ tmp'[DirOf(q)] = tmp[DirOf(q)]
    BY <2>1
  <2> QED
    BY <2>1, <2>2 DEF IInv, Work, Written
<1>3. Received(q)'
  <2> SUFFICES ASSUME pc'[q] = "received" PROVE Received(q)'
    BY DEF Received
  <2>1. pc[q] = "received" /\ DirOf(q)' = DirOf(q) /\ job'[q] = job[q]
    BY DEF DirOf
  <2>2. tmp[DirOf(q)] # None /\ HasText(tmp[DirOf(q)], job[q])
    BY <2>1 DEF IInv, Work, Received
  <2>3. tmp'[DirOf(q)] = tmp[DirOf(q)] /\ data'[tmp[DirOf(q)]] = data[tmp[DirOf(q)]]
    BY <2>1, <2>2
  <2> QED
    BY <2>1, <2>2, <2>3 DEF Received, HasText
<1> QED
  BY <1>1, <1>2, <1>3

\* The inode p writes: nobody else's, and without a final name.
LEMMA WritersInode ==
    ASSUME Isolated, IInv, NEW p \in Procs, pc[p] = "writing"
    PROVE  /\ fd[p] \in Inodes
           /\ \A e \in Entries : name[e] # fd[p]
           /\ \A q \in Procs : q # p /\ pc[q] # "idle" => tmp[DirOf(q)] # fd[p]
<1>1. fd[p] # None /\ fd[p] = tmp[DirOf(p)] /\ DirOf(p) \in Dirs
  BY HandDir DEF IInv, Work, Written
<1>2. fd[p] \in Inodes
  BY <1>1 DEF IInv, TypeOK
<1>3. \A e \in Entries : name[e] # fd[p]
  BY <1>1 DEF IInv, Distinct
<1>4. \A q \in Procs : q # p /\ pc[q] # "idle" => tmp[DirOf(q)] # fd[p]
  BY <1>1, Apart, HandDir DEF IInv, Distinct
<1> QED
  BY <1>2, <1>3, <1>4

\* A step of p that writes through its descriptor and touches nothing else of
\* the file system.
WritesOwn(p) ==
    /\ pc[p] = "writing"
    /\ data' \in [Inodes -> [1..N -> Entries \cup {None}]]
    /\ \A i \in Inodes : i # fd[p] => data'[i] = data[i]
    /\ UNCHANGED <<name, tmp, job, todo, orphan>>
    /\ \A q \in Procs : q # p => UNCHANGED <<pc[q], fd[q], off[q]>>

LEMMA WritesOwnIInv ==
    ASSUME Isolated, IInv, NEW p \in Procs, WritesOwn(p)
    PROVE  /\ Distinct'
           /\ FinalComplete'
           /\ \A q \in Procs : q # p => (InHand(q) /\ Written(q) /\ Received(q))'
<1>0. /\ fd[p] \in Inodes
      /\ \A e \in Entries : name[e] # fd[p]
      /\ \A q \in Procs : q # p /\ pc[q] # "idle" => tmp[DirOf(q)] # fd[p]
  BY WritersInode DEF WritesOwn
<1>1. Distinct'
  BY DEF IInv, Distinct, WritesOwn
<1>2. FinalComplete'
  BY <1>0 DEF IInv, TypeOK, FinalComplete, HasText, WritesOwn
<1>3. ASSUME NEW q \in Procs, q # p PROVE (InHand(q) /\ Written(q) /\ Received(q))'
  <2>1. UNCHANGED <<pc[q], job[q], fd[q], off[q], todo[q], name[job[q]]>>
    BY <1>3 DEF WritesOwn
  <2>2. pc[q] # "idle" => tmp'[DirOf(q)] = tmp[DirOf(q)]
    BY DEF WritesOwn
  <2>3. ASSUME pc[q] # "idle", tmp[DirOf(q)] # None
        PROVE  data'[tmp[DirOf(q)]] = data[tmp[DirOf(q)]]
    <3>1. tmp[DirOf(q)] \in Inodes /\ tmp[DirOf(q)] # fd[p]
      BY <1>0, <1>3, <2>3, HandDir DEF IInv, TypeOK
    <3> QED
      BY <3>1 DEF WritesOwn
  <2> QED
    BY <2>1, <2>2, <2>3, OtherWork
<1> QED
  BY <1>1, <1>2, <1>3

LEMMA WriteIInv ==
    ASSUME Isolated, IInv, NEW p \in Procs, Write(p) PROVE IInv'
<1> USE ConstantsAssumption
<1>0. job[p] \in Entries /\ DirOf(p) \in Dirs
  BY HandDir DEF Write
<1>a. fd[p] \in Inodes /\ off[p] \in 0..N-1 /\ off[p] + 1 \in 1..N-1
  BY WritersInode DEF Write, IInv, TypeOK
<1>b. /\ data'[fd[p]] = [data[fd[p]] EXCEPT ![off[p] + 1] = job[p]]
      /\ \A i \in Inodes : i # fd[p] => data'[i] = data[i]
      /\ data' \in [Inodes -> [1..N -> Entries \cup {None}]]
  BY <1>0, <1>a DEF Write, IInv, TypeOK
<1>c. WritesOwn(p)
  BY <1>b DEF Write, WritesOwn, IInv, TypeOK
<1>1. TypeOK'
  BY <1>a, <1>b DEF IInv, TypeOK, Write
<1>2. (InHand(p) /\ Received(p))'
  BY DEF IInv, TypeOK, Work, InHand, Received, Write, DirOf, Material
<1>3. Written(p)'
  <2>1. /\ off'[p] = off[p] + 1 /\ fd[p] # None /\ fd[p] = tmp[DirOf(p)]
        /\ \A b \in 1..N : data[fd[p]][b] = IF b <= off[p] THEN job[p] ELSE None
        /\ UNCHANGED <<tmp, job, fd>>
    BY DEF Write, IInv, TypeOK, Work, Written
  <2>2. data[fd[p]] \in [1..N -> Entries \cup {None}]
    BY <1>a DEF IInv, TypeOK
  <2>3. \A b \in 1..N : data'[fd[p]][b] = IF b <= off[p] + 1 THEN job[p] ELSE None
    BY <1>a, <1>b, <2>1, <2>2
  <2> QED
    BY <2>1, <2>3 DEF Written, DirOf
<1> QED
  BY <1>1, <1>2, <1>3, <1>c, WritesOwnIInv DEF IInv, Work

LEMMA CloseIInv ==
    ASSUME Isolated, IInv, NEW p \in Procs, Close(p) PROVE IInv'
<1> USE ConstantsAssumption
<1>0. job[p] \in Entries /\ DirOf(p) \in Dirs
  BY HandDir DEF Close
<1>a. fd[p] \in Inodes /\ off[p] = N - 1 /\ N \in 1..N
  BY WritersInode DEF Close
<1>b. PICK last \in {job[p], None} : data' = [data EXCEPT ![fd[p]][N] = last]
  BY DEF Close
<1>c. /\ data'[fd[p]] = [data[fd[p]] EXCEPT ![N] = last]
      /\ \A i \in Inodes : i # fd[p] => data'[i] = data[i]
      /\ data' \in [Inodes -> [1..N -> Entries \cup {None}]]
  BY <1>0, <1>a, <1>b DEF IInv, TypeOK
<1>d. WritesOwn(p)
  BY <1>c DEF Close, WritesOwn, IInv, TypeOK
<1>1. TypeOK'
  BY <1>c DEF IInv, TypeOK, Close
<1>2. (InHand(p) /\ Written(p))'
  BY DEF IInv, TypeOK, Work, InHand, Written, Close, DirOf, Material
<1>3. Received(p)'
  <2>1. /\ fd[p] # None /\ fd[p] = tmp[DirOf(p)]
        /\ \A b \in 1..N : data[fd[p]][b] = IF b <= off[p] THEN job[p] ELSE None
        /\ UNCHANGED <<tmp, job>>
    BY DEF Close, IInv, TypeOK, Work, Written
  <2>2. data[fd[p]] \in [1..N -> Entries \cup {None}]
    BY <1>a DEF IInv, TypeOK
  <2>3. (\A b \in 1..N-1 : data'[fd[p]][b] = job[p]) /\ data'[fd[p]][N] = last
    BY <1>a, <1>c, <2>1, <2>2
  <2> QED
    BY <1>b, <2>1, <2>3 DEF Received, HasText, DirOf
<1> QED
  BY <1>1, <1>2, <1>3, <1>d, WritesOwnIInv DEF IInv, Work

LEMMA BreakIInv ==
    ASSUME Isolated, IInv, NEW p \in Procs, Break(p) PROVE IInv'
<1> USE ConstantsAssumption
<1>0. job[p] \in Entries /\ DirOf(p) \in Dirs
  BY HandDir DEF Break
<1>a. fd[p] \in Inodes /\ off[p] + 1 \in 1..N
  BY WritersInode DEF Break, IInv, TypeOK
<1>b. PICK last \in {job[p], data[fd[p]][off[p] + 1]} :
        data' = [data EXCEPT ![fd[p]][off[p] + 1] = last]
  BY DEF Break
<1>c. /\ \A i \in Inodes : i # fd[p] => data'[i] = data[i]
      /\ data' \in [Inodes -> [1..N -> Entries \cup {None}]]
  BY <1>0, <1>a, <1>b DEF IInv, TypeOK
<1>d. WritesOwn(p)
  BY <1>c DEF Break, WritesOwn, IInv, TypeOK
<1>1. TypeOK'
  BY <1>c DEF IInv, TypeOK, Break
<1>2. (InHand(p) /\ Written(p) /\ Received(p))'
  BY DEF IInv, TypeOK, Work, InHand, Written, Received, Break, DirOf, Material
<1> QED
  BY <1>1, <1>2, <1>d, WritesOwnIInv DEF IInv, Work

LEMMA RenameIInv ==
    ASSUME Isolated, IInv, NEW p \in Procs, Rename(p) PROVE IInv'
<1> USE ConstantsAssumption
<1> DEFINE d == DirOf(p)
<1>0. /\ job[p] \in Entries /\ d \in Dirs /\ pc[p] = "received"
      /\ name[job[p]] = None
      /\ tmp[d] \in Inodes /\ tmp[d] # None /\ HasText(tmp[d], job[p])
  BY HandDir DEF Rename, IInv, TypeOK, Work, InHand, Received
<1>a. /\ name' = [name EXCEPT ![job[p]] = tmp[d]]
      /\ tmp' = [tmp EXCEPT ![d] = None]
      /\ UNCHANGED <<data, fd>>
  BY <1>0 DEF Rename
<1>b. /\ pc' = [pc EXCEPT ![p] = "idle"]
      /\ job' = [job EXCEPT ![p] = None]
      /\ off' = [off EXCEPT ![p] = 0]
      /\ todo' = [todo EXCEPT ![p] = @ \ {job[p]}]
      /\ orphan' \subseteq orphan
  BY DEF Rename, Advance
<1>1. TypeOK'
  BY <1>0, <1>a, <1>b DEF IInv, TypeOK
<1>2. Distinct'
  BY <1>0, <1>a DEF IInv, TypeOK, Distinct
<1>3. Work'
  <2> SUFFICES ASSUME NEW q \in Procs PROVE (InHand(q) /\ Written(q) /\ Received(q))'
    BY DEF Work
  <2>1. CASE q = p
    BY <1>0, <1>a, <1>b, <2>1
       DEF IInv, TypeOK, Work, InHand, Written, Received, Material
  <2>2. CASE q # p
    <3>1. /\ UNCHANGED <<pc[q], job[q], fd[q], off[q], todo[q]>>
          /\ UNCHANGED data
      BY <1>a, <1>b, <2>2 DEF IInv, TypeOK
    <3>2. pc[q] # "idle" => DirOf(q) # d /\ DirOf(q) \in Dirs /\ job[q] # job[p]
      BY <1>0, <2>2, Apart, HandDir DEF IInv, DirOf
    <3>3. pc[q] # "idle" => tmp'[DirOf(q)] = tmp[DirOf(q)] /\ name'[job[q]] = name[job[q]]
      BY <1>0, <1>a, <3>2, HandDir DEF IInv, TypeOK
    <3>4. CASE pc[q] = "idle"
      BY <3>1, <3>4 DEF IInv, Work, InHand, Written, Received, Material
    <3>5. CASE pc[q] # "idle"
      BY <3>1, <3>3, <3>5, OtherWork
    <3> QED
      BY <3>4, <3>5
  <2> QED
    BY <2>1, <2>2
<1>4. FinalComplete'
  BY <1>0, <1>a DEF IInv, TypeOK, FinalComplete, HasText
<1> QED
  BY <1>1, <1>2, <1>3, <1>4 DEF IInv

LEMMA RemoveIInv ==
    ASSUME Isolated, IInv, NEW p \in Procs, Remove(p) PROVE IInv'
<1> USE ConstantsAssumption
<1> DEFINE d == DirOf(p)
<1>0. job[p] \in Entries /\ d \in Dirs /\ pc[p] = "failed"
  BY HandDir DEF Remove
<1>a. tmp' = [tmp EXCEPT ![d] = None] /\ UNCHANGED <<name, data, fd>>
  BY DEF Remove
<1>b. /\ pc' = [pc EXCEPT ![p] = "idle"]
      /\ job' = [job EXCEPT ![p] = None]
      /\ off' = [off EXCEPT ![p] = 0]
      /\ todo' = [todo EXCEPT ![p] = @ \ {job[p]}]
      /\ orphan' \subseteq orphan
  BY DEF Remove, Advance
<1>1. TypeOK'
  BY <1>0, <1>a, <1>b DEF IInv, TypeOK
<1>2. Distinct'
  BY <1>0, <1>a DEF IInv, TypeOK, Distinct
<1>3. Work'
  <2> SUFFICES ASSUME NEW q \in Procs PROVE (InHand(q) /\ Written(q) /\ Received(q))'
    BY DEF Work
  <2>1. CASE q = p
    BY <1>0, <1>a, <1>b, <2>1
       DEF IInv, TypeOK, Work, InHand, Written, Received, Material
  <2>2. CASE q # p
    <3>1. UNCHANGED <<pc[q], job[q], fd[q], off[q], todo[q], name, data>>
      BY <1>a, <1>b, <2>2 DEF IInv, TypeOK
    <3>2. pc[q] # "idle" => tmp'[DirOf(q)] = tmp[DirOf(q)]
      BY <1>0, <1>a, <2>2, Apart, HandDir DEF IInv, TypeOK
    <3>3. CASE pc[q] = "idle"
      BY <3>1, <3>3 DEF IInv, Work, InHand, Written, Received, Material
    <3>4. CASE pc[q] # "idle"
      BY <3>1, <3>2, <3>4, OtherWork
    <3> QED
      BY <3>3, <3>4
  <2> QED
    BY <2>1, <2>2
<1>4. FinalComplete'
  BY <1>a DEF IInv, FinalComplete, HasText
<1> QED
  BY <1>1, <1>2, <1>3, <1>4 DEF IInv

LEMMA KillIInv ==
    ASSUME IInv, NEW p \in Procs, Kill(p) PROVE IInv'
<1>1. TypeOK'
  <2>1. orphan' \subseteq Dirs
    BY HandDir DEF IInv, TypeOK, Kill
  <2> QED
    BY <2>1, ConstantsAssumption DEF IInv, TypeOK, Kill
<1>2. Distinct'
  BY DEF IInv, Distinct, Kill
<1>3. Work'
  <2> SUFFICES ASSUME NEW q \in Procs PROVE (InHand(q) /\ Written(q) /\ Received(q))'
    BY DEF Work
  <2>1. CASE q = p
    BY <2>1 DEF IInv, TypeOK, Kill, InHand, Written, Received, Material
  <2>2. CASE q # p
    <3>1. UNCHANGED <<pc[q], job[q], fd[q], off[q], todo[q], name, tmp, data>>
      BY <2>2 DEF IInv, TypeOK, Kill
    <3> QED
      BY <3>1, OtherWork
  <2> QED
    BY <2>1, <2>2
<1>4. FinalComplete'
  BY DEF IInv, FinalComplete, HasText, Kill
<1> QED
  BY <1>1, <1>2, <1>3, <1>4 DEF IInv

LEMMA StutterIInv == IInv /\ UNCHANGED vars => IInv'
BY DEF vars, IInv, TypeOK, Distinct, Work, InHand, Written, Received,
       FinalComplete, HasText, DirOf, Material

\* Every step of the specification preserves the invariant.
LEMMA NextIInv == ASSUME Isolated, IInv, [Next]_vars PROVE IInv'
<1>1. CASE UNCHANGED vars
  BY <1>1, StutterIInv
<1>2. CASE Next
  BY <1>2, StartIInv, ConsiderIInv, PassIInv, OpenIInv, RefuseIInv, WriteIInv,
     CloseIInv, BreakIInv, RenameIInv, RemoveIInv, KillIInv
     DEF Next, Step, Fails
<1> QED
  BY <1>1, <1>2

-----------------------------------------------------------------------------

\* The inductive invariant holds of every isolated behaviour.
THEOREM Invariant == ASSUME Isolated PROVE Spec => []IInv
BY InitIInv, NextIInv, PTL DEF Spec

\* Type correctness (TypeOK), for isolated processes.
THEOREM TypeCorrect == ASSUME Isolated PROVE Spec => []TypeOK
BY Invariant, PTL DEF IInv

\* A file under its final name has its own text, but for at most the buffer an
\* unseen failure of fclose() lost (FinalComplete), whatever the processes,
\* the failures and the kills.
THEOREM FinalsComplete == ASSUME Isolated PROVE Spec => []FinalComplete
BY Invariant, PTL DEF IInv

-----------------------------------------------------------------------------

\* What one step does to the files under final names: nothing to those that
\* are there, and at most one appears.
LEMMA FinalStep ==
    ASSUME Isolated, IInv, [Next]_vars
    PROVE  /\ \A e \in Entries : name[e] # None =>
                 name'[e] = name[e] /\ data'[name[e]] = data[name[e]]
           /\ \/ UNCHANGED name
              \/ \E j \in Entries :
                   /\ name[j] = None /\ name'[j] # None
                   /\ \A e \in Entries : e # j => name'[e] = name[e]
<1>1. CASE UNCHANGED <<name, data>>
  BY <1>1
<1>2. ASSUME NEW p \in Procs, WritesOwn(p) PROVE UNCHANGED name /\
        \A e \in Entries : name[e] # None => data'[name[e]] = data[name[e]]
  BY <1>2, WritersInode DEF WritesOwn, IInv, TypeOK
<1>3. ASSUME NEW p \in Procs, Open(p) PROVE UNCHANGED name /\
        \A e \in Entries : name[e] # None => data'[name[e]] = data[name[e]]
  <2>1. PICK i \in Inodes :
          /\ IF tmp[DirOf(p)] = None THEN Fresh(i) ELSE i = tmp[DirOf(p)]
          /\ data' = [data EXCEPT ![i] = Blank]
    BY <1>3 DEF Open
  <2>2. DirOf(p) \in Dirs
    BY <1>3, HandDir DEF Open
  <2>3. \A e \in Entries : name[e] # i
    BY <2>1, <2>2, ConstantsAssumption DEF IInv, Distinct, Fresh, Free
  <2> QED
    BY <1>3, <2>1, <2>3 DEF Open, IInv, TypeOK
<1>4. ASSUME NEW p \in Procs, Rename(p)
      PROVE  /\ UNCHANGED data
             /\ name[job[p]] = None /\ job[p] \in Entries
             /\ name' = [name EXCEPT ![job[p]] = tmp[DirOf(p)]]
             /\ tmp[DirOf(p)] # None
  BY <1>4, HandDir DEF Rename, IInv, Work, InHand, Received
<1>5. ASSUME NEW p \in Procs, Write(p) \/ Close(p) \/ Break(p)
      PROVE  /\ UNCHANGED name
             /\ \A i \in Inodes : i # fd[p] => data'[i] = data[i]
             /\ pc[p] = "writing"
  BY <1>5 DEF Write, Close, Break, IInv, TypeOK
<1>6. ASSUME NEW p \in Procs, Write(p) \/ Close(p) \/ Break(p)
      PROVE UNCHANGED name /\
        \A e \in Entries : name[e] # None => data'[name[e]] = data[name[e]]
  BY <1>5, <1>6, WritersInode DEF IInv, TypeOK
<1>7. CASE Next
  <2>1. PICK p \in Procs : Start(p) \/ Step(p) \/ Kill(p)
    BY <1>7 DEF Next
  <2>2. CASE Write(p) \/ Close(p) \/ Break(p)
    BY <1>6, <2>2
  <2>3. CASE Open(p)
    BY <1>3, <2>3
  <2>4. CASE Rename(p)
    <3>1. UNCHANGED data /\ name[job[p]] = None /\ job[p] \in Entries
      BY <1>4, <2>4
    <3>2. name' = [name EXCEPT ![job[p]] = tmp[DirOf(p)]] /\ tmp[DirOf(p)] # None
      BY <1>4, <2>4
    <3>3. name'[job[p]] # None /\ \A e \in Entries : e # job[p] => name'[e] = name[e]
      BY <3>1, <3>2 DEF IInv, TypeOK
    <3> QED
      BY <3>1, <3>3
  <2>5. CASE UNCHANGED <<name, data>>
    BY <1>1, <2>5
  <2> QED
    BY <2>1, <2>2, <2>3, <2>4, <2>5
       DEF Step, Fails, Start, Consider, Found, Skip, Refuse, Remove, Kill
<1>8. CASE UNCHANGED vars
  BY <1>1, <1>8 DEF vars
<1> QED
  BY <1>7, <1>8

\* What is once in the repository is never replaced or written to
\* (NeverReplaced), across runs, failures and kills.
THEOREM FinalsNeverReplaced == ASSUME Isolated PROVE Spec => NeverReplaced
<1>1. ASSUME IInv, [Next]_vars
      PROVE  \A e \in Entries : name[e] # None =>
               name'[e] = name[e] /\ data'[name[e]] = data[name[e]]
  BY <1>1, FinalStep
<1> QED
  BY <1>1, Invariant, PTL DEF Spec, NeverReplaced

\* Download implements Repository: to a reader of the final names, files
\* appear one at a time, whole or short, and never change.
THEOREM DownloadImplementsRepository ==
    ASSUME Isolated PROVE Spec => ImplementsRepository
<1>1. Init => Promise!Init
  BY DEF Init, Promise!Init, Seen
<1>2. ASSUME IInv, [Next]_vars
      PROVE  [Promise!Next]_([e \in Entries |-> Seen(e)])
  <2>1. \A e \in Entries : name[e] # None =>
          name'[e] = name[e] /\ data'[name[e]] = data[name[e]]
    BY <1>2, FinalStep
  <2>2. \A e \in Entries : name[e] # None => Seen(e)' = Seen(e)
    BY <2>1 DEF Seen
  <2>3. CASE UNCHANGED name
    <3>1. \A e \in Entries : Seen(e)' = Seen(e)
      BY <2>1, <2>3 DEF Seen
    <3> QED
      BY <3>1
  <2>4. CASE \E j \in Entries :
               /\ name[j] = None /\ name'[j] # None
               /\ \A e \in Entries : e # j => name'[e] = name[e]
    <3>1. PICK j \in Entries :
            /\ name[j] = None /\ name'[j] # None
            /\ \A e \in Entries : e # j => name'[e] = name[e]
      BY <2>4
    <3>2. Seen(j) = "absent" /\ Seen(j)' \in {"whole", "short"}
      BY <3>1 DEF Seen
    <3>3. \A e \in Entries : e # j => Seen(e)' = Seen(e)
      BY <2>1, <3>1 DEF Seen
    <3>4. [e \in Entries |-> Seen(e)]' =
            [[e \in Entries |-> Seen(e)] EXCEPT ![j] = Seen(j)']
      BY <3>3
    <3>5. Promise!Appear(j)
      BY <3>2, <3>4 DEF Promise!Appear
    <3> QED
      BY <3>5 DEF Promise!Next
  <2> QED
    BY <1>2, <2>3, <2>4, FinalStep
<1> QED
  BY <1>1, <1>2, Invariant, PTL DEF Spec, ImplementsRepository, Promise!Spec

-----------------------------------------------------------------------------
(* The temporaries, also of processes that share a directory: nothing here *)
(* needs Isolated, because whoever renames or removes a temporary leaves   *)
(* none, and whoever makes one is at work in its directory.                *)

\* What is in hand is a file of the courses, and the temporaries accounted for.
Accounted ==
    /\ tmp \in [Dirs -> Inodes \cup {None}]
    /\ pc \in [Procs -> {"idle", "stated", "writing", "received", "failed"}]
    /\ job \in [Procs -> Entries \cup {None}]
    /\ todo \in [Procs -> SUBSET Entries]
    /\ \A p \in Procs : pc[p] # "idle" => job[p] \in Entries
    /\ TemporaryAccounted

LEMMA InitAccounted == Init => Accounted
BY DEF Init, Accounted, TemporaryAccounted

\* A process that ends its work leaves no temporary.
LEMMA AdvanceAccounted ==
    ASSUME Accounted, NEW p \in Procs, pc[p] # "idle",
           tmp' = [tmp EXCEPT ![DirOf(p)] = None], Advance(p)
    PROVE  Accounted'
<1>1. DirOf(p) \in Dirs
  BY ConstantsAssumption DEF Accounted, DirOf
<1>2. /\ tmp' \in [Dirs -> Inodes \cup {None}]
      /\ pc' \in [Procs -> {"idle", "stated", "writing", "received", "failed"}]
      /\ job' \in [Procs -> Entries \cup {None}]
      /\ todo' \in [Procs -> SUBSET Entries]
  BY <1>1 DEF Accounted, Advance
<1>3. \A q \in Procs : q # p => pc'[q] = pc[q] /\ job'[q] = job[q]
  BY DEF Accounted, Advance
<1>4. pc'[p] = "idle"
  BY DEF Accounted, Advance
<1>5. ASSUME NEW d \in Dirs, tmp'[d] # None
      PROVE  d \in orphan' \/ \E q \in Procs : pc'[q] # "idle" /\ job'[q][1] = d
  <2>1. d # DirOf(p) /\ tmp[d] # None
    BY <1>1, <1>5 DEF Accounted
  <2>2. CASE d \in orphan
    BY <2>1, <2>2 DEF Advance
  <2>3. CASE \E q \in Procs : pc[q] # "idle" /\ DirOf(q) = d
    BY <1>3, <2>1, <2>3 DEF DirOf
  <2> QED
    BY <2>1, <2>2, <2>3 DEF Accounted, TemporaryAccounted
<1> QED
  BY <1>2, <1>3, <1>4, <1>5 DEF Accounted, TemporaryAccounted, DirOf

LEMMA NextAccounted ==
    ASSUME Accounted, [Next]_vars PROVE Accounted'
<1>1. CASE UNCHANGED vars
  BY <1>1 DEF vars, Accounted, TemporaryAccounted, DirOf
<1>2. ASSUME NEW p \in Procs, Start(p) PROVE Accounted'
  BY <1>2 DEF Start, Material, Accounted, TemporaryAccounted, DirOf
<1>3. ASSUME NEW p \in Procs, NEW e \in Entries, Consider(p, e) PROVE Accounted'
  BY <1>3 DEF Consider, Accounted, TemporaryAccounted, DirOf
<1>4. ASSUME NEW p \in Procs, NEW e \in Entries, Found(p, e) \/ Skip(p, e)
      PROVE  Accounted'
  BY <1>4 DEF Found, Skip, Accounted, TemporaryAccounted, DirOf
<1>5. ASSUME NEW p \in Procs, Open(p) PROVE Accounted'
  <2>1. PICK i \in Inodes : tmp' = [tmp EXCEPT ![DirOf(p)] = i]
    BY <1>5 DEF Open
  <2>2. /\ pc[p] = "stated" /\ pc' = [pc EXCEPT ![p] = "writing"]
        /\ UNCHANGED <<job, todo, orphan>>
    BY <1>5 DEF Open
  <2>3. ASSUME NEW d \in Dirs, tmp'[d] # None
        PROVE  d \in orphan' \/ \E q \in Procs : pc'[q] # "idle" /\ job'[q][1] = d
    <3>1. CASE d = DirOf(p)
      BY <2>2, <3>1 DEF Accounted, DirOf
    <3>2. CASE d # DirOf(p)
      BY <2>1, <2>2, <2>3, <3>2 DEF Accounted, TemporaryAccounted, DirOf
    <3> QED
      BY <3>1, <3>2
  <2> QED
    BY <2>1, <2>2, <2>3 DEF Accounted, TemporaryAccounted, DirOf
<1>6. ASSUME NEW p \in Procs,
             Refuse(p) \/ Write(p) \/ Close(p) \/ Break(p)
      PROVE  Accounted'
  <2>1. /\ pc[p] # "idle" /\ UNCHANGED <<tmp, job, todo, orphan>>
        /\ \/ pc' = pc
           \/ pc' = [pc EXCEPT ![p] = "received"]
           \/ pc' = [pc EXCEPT ![p] = "failed"]
    BY <1>6 DEF Refuse, Write, Close, Break
  <2> QED
    BY <2>1 DEF Accounted, TemporaryAccounted, DirOf
<1>7. ASSUME NEW p \in Procs, Rename(p) \/ Remove(p) PROVE Accounted'
  <2>1. pc[p] # "idle" /\ Advance(p)
    BY <1>7 DEF Rename, Remove
  <2>2. DirOf(p) \in Dirs
    BY <2>1, ConstantsAssumption DEF Accounted, DirOf
  <2>3. tmp' = [tmp EXCEPT ![DirOf(p)] = None]
    BY <1>7, <2>2 DEF Rename, Remove, Accounted
  <2> QED
    BY <2>1, <2>3, AdvanceAccounted
<1>8. ASSUME NEW p \in Procs, Kill(p) PROVE Accounted'
  <2>1. /\ pc' = [pc EXCEPT ![p] = "idle"]
        /\ job' = [job EXCEPT ![p] = None]
        /\ todo' = [todo EXCEPT ![p] = {}]
        /\ tmp' = tmp
    BY <1>8 DEF Kill
  <2>2. orphan \subseteq orphan'
    BY <1>8 DEF Kill
  <2>3. pc[p] # "idle" /\ tmp[DirOf(p)] # None => DirOf(p) \in orphan'
    BY <1>8 DEF Kill
  <2>4. \A q \in Procs : q # p => pc'[q] = pc[q] /\ job'[q] = job[q]
    BY <2>1 DEF Accounted
  <2>5. ASSUME NEW d \in Dirs, tmp'[d] # None
        PROVE  d \in orphan' \/ \E q \in Procs : pc'[q] # "idle" /\ job'[q][1] = d
    <3>1. CASE d \in orphan
      BY <2>2, <3>1
    <3>2. CASE \E q \in Procs : pc[q] # "idle" /\ DirOf(q) = d
      BY <2>1, <2>3, <2>4, <2>5, <3>2 DEF DirOf
    <3> QED
      BY <2>1, <2>5, <3>1, <3>2 DEF Accounted, TemporaryAccounted
  <2> QED
    BY <2>1, <2>4, <2>5 DEF Accounted, TemporaryAccounted, DirOf
<1> QED
  BY <1>1, <1>2, <1>3, <1>4, <1>5, <1>6, <1>7, <1>8 DEF Next, Step, Fails

\* Whatever processes do and wherever they die, a .download.tmp is the work of
\* one that is there or was left by one that died: a download that fails
\* cleans up (remove() in foreach_getfile, iol.c).
THEOREM TemporariesAccounted == Spec => []TemporaryAccounted
<1>1. Accounted => TemporaryAccounted
  BY DEF Accounted
<1> QED
  BY <1>1, InitAccounted, NextAccounted, PTL DEF Spec
=============================================================================
