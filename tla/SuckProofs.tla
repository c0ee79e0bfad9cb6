----------------------------- MODULE SuckProofs -----------------------------
(***************************************************************************)
(* How the program leaves what it was lent, the user's terminal and the    *)
(* session on the server; and that it says it has the files only if it     *)
(* does: what it reads in the links of a page, the types of its variables, *)
(* and the invariant of a session that goes from course to course.         *)
(***************************************************************************)
EXTENDS Suck, SelectionProofs, SequenceTheorems, TLAPS

Prompting == {"ignore", "hide", "read", "show", "restore"}
Ways == {"validate", "set", "resync", "logout", "destroy", "exit"} \cup Prompting

\* The echo is off only while the signals are ignored, and these only in
\* getpass_r, between the two calls that ignore and restore them.
TtyInv ==
    /\ at \in Ways
    /\ at \in {"hide", "read", "show", "restore"} => deaf
    /\ at \notin {"hide", "read", "show", "restore"} => ~deaf
    /\ at \notin {"read", "show"} => echo

\* Only a program that is between its login and its end may be logged in, or one
\* that was interrupted there.
LoggedInv ==
    /\ at \in Ways
    /\ at \in {"validate", "set"} \cup Prompting => ~logged
    /\ at = "exit" /\ status # "interrupted" => ~logged

-----------------------------------------------------------------------------
(* The terminal.                                                           *)

LEMMA InitTty ==
    ASSUME SuckInit
    PROVE  TtyInv
BY DEF SuckInit, TtyInv, Ways

\* Whatever validate_opt makes of the options, it leaves the prompt.
LEMMA JudgeAt ==
    ASSUME NEW password, Judge(password)
    PROVE  at' \in {"set", "exit"}
BY DEF Judge

LEMMA TtyStep ==
    ASSUME TtyInv, [SuckNext]_suckVars
    PROVE  TtyInv'
<1>1. CASE Validate
  <2>1. at = "validate" /\ UNCHANGED tty /\ at' \in {"ignore", "set", "exit"}
    BY <1>1, JudgeAt DEF Validate
  <2> QED
    BY <2>1 DEF TtyInv, Ways, Prompting, tty
<1>2. CASE IgnoreSignals
  BY <1>2 DEF IgnoreSignals, Prompt, TtyInv, Ways, Prompting
<1>3. CASE HideTyping
  BY <1>3 DEF HideTyping, Prompt, TtyInv, Ways, Prompting
<1>4. CASE ReadPassword
  BY <1>4 DEF ReadPassword, Prompt, TtyInv, Ways, Prompting, tty
<1>5. CASE ShowTyping
  BY <1>5 DEF ShowTyping, Prompt, TtyInv, Ways, Prompting
<1>6. CASE RestoreSignals
  BY <1>6, JudgeAt DEF RestoreSignals, TtyInv, Ways, Prompting
<1>7. ASSUME UNCHANGED tty,
             at \in {"set", "resync", "logout", "destroy"},
             at' \in {"set", "resync", "logout", "destroy", "exit"}
      PROVE  TtyInv'
  BY <1>7 DEF TtyInv, Ways, tty
<1>8. CASE Configure
  BY <1>7, <1>8 DEF Configure
<1>9. CASE \E o1, o2 \in Outcomes : SignIn(o1, o2)
  BY <1>7, <1>9 DEF SignIn
<1>10. CASE \E o \in Outcomes, crawled, made, forum \in BOOLEAN : ResyncNext(o, crawled, made, forum)
  BY <1>7, <1>10 DEF ResyncNext
<1>11. CASE \E o \in Outcomes : AskNews(o) \/ LogOff(o) \/ Destroy(o)
  BY <1>7, <1>11 DEF AskNews, LogOff, Destroy
<1>12. CASE Interrupt
  BY <1>12 DEF Interrupt, TtyInv, Ways, tty
<1>13. CASE UNCHANGED suckVars
  BY <1>13 DEF suckVars, TtyInv, tty
<1> QED
  BY <1>1, <1>2, <1>3, <1>4, <1>5, <1>6, <1>8, <1>9, <1>10, <1>11, <1>12, <1>13
     DEF SuckNext, Advance, GetPass

\* Whenever the user interrupts the program, the terminal shows what is typed.
\* (getpass_r, getpass.c:127-194)
THEOREM TerminalIsRestored == SuckSpec => []TerminalRestored
<1>1. SuckInit => TtyInv
  BY InitTty
<1>2. TtyInv /\ [SuckNext]_suckVars => TtyInv'
  BY TtyStep
<1>3. TtyInv => TerminalRestored
  BY DEF TtyInv, TerminalRestored
<1> QED
  BY <1>1, <1>2, <1>3, PTL DEF SuckSpec

-----------------------------------------------------------------------------
(* The session.                                                            *)

LEMMA InitLogged ==
    ASSUME SuckInit
    PROVE  LoggedInv
BY DEF SuckInit, Init, LoggedInv, Ways

\* iol_logout forgets the session whatever becomes of its request.
LEMMA LogoutForgets ==
    ASSUME NEW o, Logout(o)
    PROVE  ~logged'
BY DEF Logout, client

LEMMA LoggedStep ==
    ASSUME LoggedInv, [SuckNext]_suckVars
    PROVE  LoggedInv'
<1>1. ASSUME UNCHANGED logged,
             at \in {"validate", "set"} \cup Prompting,
             at' \in {"validate", "set", "destroy", "exit"} \cup Prompting
      PROVE  LoggedInv'
  BY <1>1 DEF LoggedInv, Ways
<1>2. UNCHANGED vars => UNCHANGED logged
  BY DEF vars
<1>3. CASE Validate
  <2>1. at = "validate" /\ UNCHANGED vars /\ at' \in {"ignore", "set", "exit"}
    BY <1>3, JudgeAt DEF Validate
  <2> QED
    BY <1>1, <1>2, <2>1 DEF Prompting
<1>4. CASE IgnoreSignals \/ HideTyping \/ ReadPassword \/ ShowTyping
  BY <1>1, <1>2, <1>4
     DEF IgnoreSignals, HideTyping, ReadPassword, ShowTyping, Prompt, Prompting
<1>5. CASE RestoreSignals
  BY <1>1, <1>2, <1>5, JudgeAt DEF RestoreSignals, Prompting
<1>6. CASE Configure
  <2>1. UNCHANGED logged
    BY <1>2, <1>6 DEF Configure, Set
  <2>2. at = "set" /\ at' \in {"set", "destroy"}
    BY <1>6 DEF Configure
  <2> QED
    BY <1>1, <2>1, <2>2
<1>7. ASSUME at' \in {"resync", "logout", "destroy"}
      PROVE  LoggedInv'
  BY <1>7 DEF LoggedInv, Ways, Prompting
<1>8. CASE \E o1, o2 \in Outcomes : SignIn(o1, o2)
  BY <1>7, <1>8 DEF SignIn
<1>9. CASE \E o \in Outcomes, crawled, made, forum \in BOOLEAN : ResyncNext(o, crawled, made, forum)
  BY <1>7, <1>9 DEF ResyncNext
<1>10. CASE \E o \in Outcomes : AskNews(o) \/ LogOff(o)
  BY <1>7, <1>10 DEF AskNews, LogOff
<1>11. CASE \E o \in Outcomes : Destroy(o)
  <2>1. ~logged' /\ at' = "exit"
    BY <1>2, <1>11, LogoutForgets DEF Destroy
  <2> QED
    BY <2>1 DEF LoggedInv, Ways, Prompting
<1>12. CASE Interrupt
  BY <1>12 DEF Interrupt, LoggedInv, Ways, Prompting
<1>13. CASE UNCHANGED suckVars
  BY <1>13 DEF suckVars, vars, LoggedInv
<1> QED
  BY <1>3, <1>4, <1>5, <1>6, <1>8, <1>9, <1>10, <1>11, <1>12, <1>13
     DEF SuckNext, Advance, GetPass

\* A program that ends by itself has asked the server to close every session it
\* knows of, whatever courses, settings and failures it met.  (suck, iol_destroy)
THEOREM AlwaysLogsOff == SuckSpec => []EndsLoggedOff
<1>1. SuckInit => LoggedInv
  BY InitLogged
<1>2. LoggedInv /\ [SuckNext]_suckVars => LoggedInv'
  BY LoggedStep
<1>3. LoggedInv => EndsLoggedOff
  BY DEF LoggedInv, EndsLoggedOff
<1> QED
  BY <1>1, <1>2, <1>3, PTL DEF SuckSpec

-----------------------------------------------------------------------------
(* What the client reads in the links of a page.                           *)

LEMMA FirstIsLeast ==
    ASSUME NEW T \in SUBSET Nat, T # {}
    PROVE  Min(T) \in T /\ \A y \in T : Min(T) <= y
BY Least DEF Min

LEMMA LastIsGreatest ==
    ASSUME NEW n \in Nat, NEW T \in SUBSET (0..n), T # {}
    PROVE  Max(T) \in T /\ \A y \in T : Max(T) >= y
BY Greatest DEF Max

\* What comes before a mark is without it.
LEMMA BeforeLacks ==
    ASSUME NEW X, NEW s \in Seq(X), NEW mark
    PROVE  Before(s, mark) \in Seq(X) /\ ~Contains(Before(s, mark), mark)
<1>1. CASE ~Contains(s, mark)
  BY <1>1 DEF Before
<1>2. CASE Contains(s, mark)
  <2> DEFINE I == {i \in 1..Len(s) : s[i] = mark}
             pos == Min(I)
  <2>1. I \in SUBSET Nat /\ I # {}
    BY <1>2 DEF Contains
  <2>2. Before(s, mark) = SubSeq(s, 1, pos - 1)
    BY <1>2, <2>1 DEF Before, SelectInSeq
  <2>3. pos \in 1..Len(s) /\ \A i \in I : pos <= i
    <3> HIDE DEF I
    <3>1. pos \in I /\ \A i \in I : pos <= i
      BY <2>1, FirstIsLeast
    <3> QED
      BY <3>1 DEF I
  <2> HIDE DEF pos
  <2>4. SubSeq(s, 1, pos - 1) \in Seq(X) /\ Len(SubSeq(s, 1, pos - 1)) = pos - 1
        /\ \A i \in 1..pos - 1 : SubSeq(s, 1, pos - 1)[i] = s[i]
    BY <2>3
  <2>5. \A i \in 1..pos - 1 : s[i] # mark
    BY <2>3
  <2> QED
    BY <2>2, <2>4, <2>5 DEF Contains
<1> QED
  BY <1>1, <1>2

\* The code ends pos the semicolon.
LEMMA CodeIsText ==
    ASSUME NEW X, NEW link \in Seq(X)
    PROVE  ~Contains(CodeOf(link), ";")
<1> DEFINE I == {i \in 1..Len(link) : link[i] = "snivel="}
           pos == SelectInSeq(link, LAMBDA x : x = "snivel=")
           rest == SubSeq(link, pos + 1, Len(link))
<1>1. pos \in 0..Len(link)
  <2>1. pos = IF I # {} THEN Min(I) ELSE 0
    BY DEF SelectInSeq
  <2>2. I \in SUBSET Nat /\ I \subseteq 0..Len(link)
    OBVIOUS
  <2> HIDE DEF I
  <2> QED
    BY <2>1, <2>2, FirstIsLeast
<1>2. CodeOf(link) = Before(rest, ";")
  BY DEF CodeOf
<1> HIDE DEF pos
<1>3. rest \in Seq(X)
  BY <1>1
<1> QED
  BY <1>2, <1>3, BeforeLacks

\* A script ends in a semicolon, a link does not.
Ends == {<<>>, <<";">>}

LEMMA ContextShape ==
    ASSUME NEW c \in Contexts
    PROVE  /\ c[1] \in {"3", "4"} /\ c[2] \in Seq(ToSet(c[2]))
           /\ ";" \notin ToSet(c[2]) /\ "nivel=" \notin ToSet(c[2]) /\ "snivel=" \notin ToSet(c[2])
           /\ c = <<c[1], c[2]>>
<1>1. c[1] \in {"3", "4"} /\ c[2] \in Seq(ToSet(c[2]))
  BY ConstantsAssumption
<1>2. ToSet(c[2]) \cap {";", "nivel=", "snivel="} = {}
  BY ConstantsAssumption
<1>3. c = <<c[1], c[2]>>
  BY ConstantsAssumption
<1> QED
  BY <1>1, <1>2, <1>3

\* The parts of a link to a context.
LEMMA FourParts ==
    ASSUME NEW X, NEW a \in X, NEW b \in X, NEW d \in X, NEW e \in X
    PROVE  /\ <<a, b, d, e>> \in Seq(X) /\ Len(<<a, b, d, e>>) = 4
           /\ <<a, b, d, e>>[1] = a /\ <<a, b, d, e>>[2] = b
           /\ <<a, b, d, e>>[3] = d /\ <<a, b, d, e>>[4] = e
OBVIOUS

LEMMA OneMark ==
    ASSUME NEW X, NEW x \in X
    PROVE  <<x>> \in Seq(X) /\ Len(<<x>>) = 1 /\ <<x>>[1] = x
OBVIOUS

LEMMA LinkShape ==
    ASSUME NEW X, NEW level \in X, NEW code \in Seq(X),
           "nivel=" \in X, "&" \in X, "snivel=" \in X, NEW end \in Seq(X)
    PROVE  LET link == (<<"nivel=", level, "&", "snivel=">> \o code) \o end IN
           /\ link \in Seq(X) /\ Len(link) = 4 + Len(code) + Len(end)
           /\ link[1] = "nivel=" /\ link[2] = level /\ link[3] = "&" /\ link[4] = "snivel="
           /\ \A i \in 1..Len(code) : link[4 + i] = code[i]
           /\ \A i \in 1..Len(end) : link[4 + Len(code) + i] = end[i]
<1> DEFINE head == <<"nivel=", level, "&", "snivel=">>
           body == head \o code
           link == body \o end
<1> DEFINE m == Len(head)
<1>1. /\ head \in Seq(X) /\ m \in Nat /\ m = 4
      /\ head[1] = "nivel=" /\ head[2] = level /\ head[3] = "&" /\ head[4] = "snivel="
  BY FourParts
<1>2. head \in Seq(X) /\ m \in Nat /\ m = Len(head)
  BY <1>1
<1> HIDE DEF head, m
<1>3. /\ body \in Seq(X) /\ Len(body) = m + Len(code)
      /\ \A i \in 1..m : body[i] = head[i]
      /\ \A i \in 1..Len(code) : body[m + i] = code[i]
  BY <1>2
<1> HIDE DEF body
<1>4. /\ link \in Seq(X) /\ Len(link) = m + Len(code) + Len(end)
      /\ \A i \in 1..m + Len(code) : link[i] = body[i]
      /\ \A i \in 1..Len(end) : link[m + Len(code) + i] = end[i]
  <2> DEFINE k == Len(body)
  <2>1. body \in Seq(X) /\ k = Len(body) /\ k \in Nat /\ k = m + Len(code)
    BY <1>3
  <2> HIDE DEF k
  <2>2. /\ link \in Seq(X) /\ Len(link) = k + Len(end)
        /\ \A i \in 1..k : link[i] = body[i]
        /\ \A i \in 1..Len(end) : link[k + i] = end[i]
    <3>1. body \in Seq(X) /\ k \in Nat /\ Len(body) = k /\ end \in Seq(X) /\ Len(end) \in Nat
      BY <2>1
    <3>2. /\ link \in Seq(X) /\ Len(link) = k + Len(end)
          /\ \A i \in 1..k + Len(end) : link[i] = IF i <= k THEN body[i] ELSE end[i - k]
      BY ONLY <3>1, ConcatProperties
    <3> HIDE DEF link
    <3> QED
      BY ONLY <3>1, <3>2
  <2> HIDE DEF link
  <2> QED
    BY <2>1, <2>2
<1> HIDE DEF link
<1>5. \A i \in 1..m : link[i] = head[i]
  BY <1>2, <1>3, <1>4
<1>6. \A i \in 1..Len(code) : link[m + i] = code[i]
  <2>1. \A i \in 1..Len(code) : m + i \in 1..m + Len(code)
    BY <1>2
  <2> QED
    BY <1>3, <1>4, <2>1
<1>7. 1 \in 1..m /\ 2 \in 1..m /\ 3 \in 1..m /\ 4 \in 1..m
  BY <1>1
<1>8. link[1] = "nivel=" /\ link[2] = level /\ link[3] = "&" /\ link[4] = "snivel="
  BY <1>1, <1>5, <1>7
<1>9. link \in Seq(X) /\ Len(link) = 4 + Len(code) + Len(end)
  BY <1>1, <1>4
<1>10. \A i \in 1..Len(code) : link[4 + i] = code[i]
  BY <1>1, <1>6
<1>11. \A i \in 1..Len(end) : link[4 + Len(code) + i] = end[i]
  BY <1>1, <1>4
<1> QED
  BY <1>8, <1>9, <1>10, <1>11 DEF link, body, head

\* The two forms of a link to a context.
LEMMA LinksShape ==
    ASSUME NEW c \in Contexts, NEW link \in LinksTo(c)
    PROVE  \E end \in Ends : link = (<<"nivel=", c[1], "&", "snivel=">> \o c[2]) \o end
<1> DEFINE T == ToSet(c[2]) \cup {"nivel=", "3", "4", "&", "snivel=", ";"}
           plain == <<"nivel=", c[1], "&", "snivel=">> \o c[2]
<1>1. plain \in Seq(T)
  <2>1. c[2] \in Seq(T) /\ c[1] \in T
    <3>1. c[2] \in Seq(ToSet(c[2])) /\ ToSet(c[2]) \subseteq T
      BY ContextShape
    <3>2. c[1] = "3" \/ c[1] = "4"
      BY ContextShape
    <3>3. c[1] \in T
      BY <3>2
    <3> HIDE DEF T
    <3> QED
      BY <3>1, <3>3
  <2>2. <<"nivel=", c[1], "&", "snivel=">> \in Seq(T)
    <3>1. "nivel=" \in T /\ "&" \in T /\ "snivel=" \in T
      OBVIOUS
    <3> HIDE DEF T
    <3> QED
      BY <2>1, <3>1, FourParts
  <2> HIDE DEF T
  <2> QED
    BY <2>1, <2>2
<1>2. LinkTo(c) = plain /\ ";" \in T
  BY DEF LinkTo
<1> HIDE DEF plain, T
<1>3. CASE link = plain
  <2>1. link = plain \o <<>>
    BY <1>1, <1>3
  <2> QED
    BY <2>1 DEF Ends, plain
<1>4. CASE link = Append(plain, ";")
  <2>1. \A X, s, x : s \in Seq(X) /\ x \in X => Append(s, x) = s \o <<x>>
    OBVIOUS
  <2>2. link = plain \o <<";">>
    BY <1>1, <1>2, <1>4, <2>1
  <2> QED
    BY <2>2 DEF Ends, plain
<1> QED
  BY <1>2, <1>3, <1>4 DEF LinksTo

\* The parts of a link, named so that a step sees only those it needs.
Begins(link, level) ==
    link[1] = "nivel=" /\ link[2] = level /\ link[3] = "&" /\ link[4] = "snivel="
GoesOn(link, code) == \A i \in 1..Len(code) : link[4 + i] = code[i]
EndsIn(link, n, k) == k = n \/ (k = n + 1 /\ link[4 + k] = ";")
Plain(code) == \A i \in 1..Len(code) : code[i] # ";" /\ code[i] # "nivel=" /\ code[i] # "snivel="

\* The code of such a link is the one it was made for.
LEMMA ReadCode ==
    ASSUME NEW X, NEW code \in Seq(X), NEW link \in Seq(X), NEW level,
           NEW n \in Nat, n = Len(code), NEW k \in Nat, Len(link) = 4 + k,
           Begins(link, level), GoesOn(link, code), EndsIn(link, n, k), Plain(code),
           level # "snivel="
    PROVE  CodeOf(link) = code
<1>1. SelectInSeq(link, LAMBDA x : x = "snivel=") = 4
  <2> DEFINE I == {i \in 1..Len(link) : link[i] = "snivel="}
  <2>1. 4 \in I /\ I \in SUBSET Nat
    BY DEF Begins
  <2>2. \A i \in I : i >= 4
    <3>1. 1 \notin I /\ 2 \notin I /\ 3 \notin I
      BY DEF Begins
    <3> QED
      BY <3>1
  <2>3. SelectInSeq(link, LAMBDA x : x = "snivel=") = Min(I)
    BY <2>1 DEF SelectInSeq
  <2> HIDE DEF I
  <2> QED
    BY <2>1, <2>2, <2>3, FirstIsLeast
<1> DEFINE rest == SubSeq(link, 5, Len(link))
<1>2. CodeOf(link) = Before(rest, ";")
  BY <1>1 DEF CodeOf
<1>3. rest \in Seq(X) /\ Len(rest) = k
  OBVIOUS
<1>4. \A i \in 1..k : rest[i] = link[4 + i]
  OBVIOUS
<1>5. k = n \/ k = n + 1
  BY DEF EndsIn
<1>6. \A i \in 1..n : rest[i] = code[i]
  BY <1>4, <1>5 DEF GoesOn
<1> HIDE DEF rest
<1>7. CASE k = n
  <2>1. rest = code
    BY <1>3, <1>6, <1>7, SeqEqual
  <2>2. ~Contains(rest, ";")
    BY <2>1 DEF Contains, Plain
  <2> QED
    BY <1>2, <2>1, <2>2 DEF Before
<1>8. CASE k = n + 1
  <2> DEFINE I == {i \in 1..Len(rest) : rest[i] = ";"}
  <2>1. k \in I
    <3>1. link[4 + k] = ";"
      <4>1. k # n
        BY <1>8
      <4> QED
        BY <4>1 DEF EndsIn
    <3>2. k \in 1..k
      BY <1>8
    <3> QED
      BY <1>3, <1>4, <3>1, <3>2
  <2>2. \A i \in I : i = k
    <3>1. \A i \in 1..n : rest[i] # ";"
      BY <1>6 DEF Plain
    <3>2. \A i \in 1..k : i \in 1..n \/ i = k
      BY <1>8
    <3> QED
      BY <1>3, <3>1, <3>2
  <2>3. Min(I) = k
    <3>1. I \in SUBSET Nat
      <4>1. \A i \in I : i \in 1..k
        BY <1>3
      <4> HIDE DEF I
      <4> QED
        BY <4>1
    <3> HIDE DEF I
    <3> QED
      BY <2>1, <2>2, <3>1, FirstIsLeast
  <2>4. Contains(rest, ";")
    BY <2>1 DEF Contains
  <2>5. SelectInSeq(rest, LAMBDA x : x = ";") = k
    BY <2>1, <2>3 DEF SelectInSeq
  <2>6. Before(rest, ";") = SubSeq(rest, 1, n)
    <3>1. k - 1 = n
      BY <1>8
    <3> QED
      BY <2>4, <2>5, <3>1 DEF Before
  <2>7. SubSeq(rest, 1, n) \in Seq(X) /\ Len(SubSeq(rest, 1, n)) = n
        /\ \A i \in 1..n : SubSeq(rest, 1, n)[i] = code[i]
    BY <1>3, <1>6, <1>8
  <2>8. SubSeq(rest, 1, n) = code
    BY <2>7, SeqEqual
  <2> QED
    BY <1>2, <2>6, <2>8
<1> QED
  BY <1>5, <1>7, <1>8

\* It is an entry, of the type its level has, unless the code is mistaken for one.
LEMMA ReadLevel ==
    ASSUME NEW X, NEW code \in Seq(X), NEW link \in Seq(X), NEW level,
           NEW n \in Nat, n = Len(code), NEW k \in Nat, Len(link) = 4 + k,
           Begins(link, level), GoesOn(link, code), EndsIn(link, n, k), Plain(code),
           level = "3" \/ level = "4"
    PROVE  /\ IsEntry(link) /\ HasLevel(link, level)
           /\ level = "3" /\ (n = 0 \/ code[1] # "4") => ~HasLevel(link, "4")
<1>0. k = n \/ k = n + 1
  BY DEF EndsIn
<1>1. HasLevel(link, level)
  BY DEF HasLevel, Begins
<1>2. IsEntry(link)
  <2>1. Contains(link, "snivel=")
    BY DEF Contains, Begins
  <2> QED
    BY <1>1, <2>1 DEF IsEntry
<1>3. ASSUME level = "3", n = 0 \/ code[1] # "4"
      PROVE  ~HasLevel(link, "4")
  <2> SUFFICES ASSUME NEW i \in 1..Len(link) - 1, link[i] = "nivel=" \/ link[i] = "snivel=",
                      link[i + 1] = "4"
               PROVE  FALSE
    BY DEF HasLevel
  <2>1. i # 1 /\ i # 2 /\ i # 3
    BY <1>3 DEF Begins
  <2>2. CASE i = 4
    <3>1. CASE n = 0
      <4>1. k # n
        BY <2>2, <3>1
      <4>2. link[4 + k] = ";"
        BY <4>1 DEF EndsIn
      <4>3. link[5] = ";"
        <5>1. 4 + k = 5
          BY <1>0, <3>1, <4>1
        <5> QED
          BY <4>2, <5>1
      <4>4. link[5] = "4"
        <5>1. i + 1 = 5
          BY <2>2
        <5> QED
          BY <5>1
      <4> QED
        BY <4>3, <4>4
    <3>2. CASE n # 0
      <4>1. link[5] = code[1]
        <5>1. 1 \in 1..Len(code) /\ 4 + 1 = 5
          BY <3>2
        <5> QED
          BY <5>1 DEF GoesOn
      <4> QED
        BY <1>3, <2>2, <3>2, <4>1
    <3> QED
      BY <3>1, <3>2
  <2>3. CASE i > 4
    <3>1. i - 4 \in 1..n /\ 4 + (i - 4) = i
      <4>1. i <= n + 4
        BY <1>0
      <4> QED
        BY <2>3, <4>1
    <3>2. link[i] = code[i - 4]
      BY <3>1 DEF GoesOn
    <3> QED
      BY <3>1, <3>2 DEF Plain
  <2> QED
    BY <2>1, <2>2, <2>3
<1> QED
  BY <1>1, <1>2, <1>3

\* A link to a context is read for what it is, unless its code is mistaken for
\* a level.
LEMMA LinkToReads ==
    ASSUME NEW c \in Contexts, NEW link \in LinksTo(c)
    PROVE  /\ IsEntry(link) /\ CodeOf(link) = c[2]
           /\ Told(c) => TypeOf(link) = IF c[1] = "4" THEN "course" ELSE "department"
<1> DEFINE T == ToSet(c[2]) \cup {"nivel=", "3", "4", "&", "snivel=", ";"}
           level == c[1]
           code == c[2]
           n == Len(code)
<1>1. PICK end \in Ends : link = (<<"nivel=", level, "&", "snivel=">> \o code) \o end
  BY LinksShape
<1>2. code \in Seq(ToSet(code)) /\ ToSet(code) \subseteq T
  BY ContextShape
<1>3. level = "3" \/ level = "4"
  BY ContextShape
<1>4. level \in T /\ "nivel=" \in T /\ "&" \in T /\ "snivel=" \in T
  BY <1>3
<1> DEFINE p == Len(end)
           k == n + p
<1>5. end \in Seq(T) /\ p \in Nat /\ (p = 0 \/ (p = 1 /\ end[1] = ";"))
  <2>1. ";" \in T
    OBVIOUS
  <2> HIDE DEF T
  <2>2. CASE end = <<>>
    BY <2>2
  <2>3. CASE end = <<";">>
    BY <2>1, <2>3, OneMark
  <2> QED
    BY <2>2, <2>3 DEF Ends
<1> HIDE DEF T
<1>6. code \in Seq(T) /\ n \in Nat /\ n = Len(code)
  BY <1>2
<1>61. p \in Nat /\ p = Len(end)
  BY <1>5
<1> HIDE DEF n, level, p
<1>7. Plain(code)
  <2>1. \A i \in 1..Len(code) : code[i] \in ToSet(code)
    BY <1>6 DEF ToSet
  <2>2. ";" \notin ToSet(code) /\ "nivel=" \notin ToSet(code) /\ "snivel=" \notin ToSet(code)
    BY ContextShape
  <2> QED
    BY <2>1, <2>2 DEF Plain
<1> HIDE DEF code
<1>8. /\ link \in Seq(T) /\ Len(link) = 4 + n + p
      /\ link[1] = "nivel=" /\ link[2] = level /\ link[3] = "&" /\ link[4] = "snivel="
      /\ \A i \in 1..Len(code) : link[4 + i] = code[i]
      /\ \A i \in 1..p : link[4 + n + i] = end[i]
  <2> DEFINE whole == (<<"nivel=", level, "&", "snivel=">> \o code) \o end
  <2>1. /\ whole \in Seq(T) /\ Len(whole) = 4 + Len(code) + Len(end)
        /\ whole[1] = "nivel=" /\ whole[2] = level /\ whole[3] = "&" /\ whole[4] = "snivel="
        /\ \A i \in 1..Len(code) : whole[4 + i] = code[i]
        /\ \A i \in 1..Len(end) : whole[4 + Len(code) + i] = end[i]
    <3>1. end \in Seq(T)
      BY <1>5
    <3>2. code \in Seq(T)
      BY <1>6
    <3> QED
      BY <1>4, <3>1, <3>2, LinkShape
  <2>2. link = whole
    BY <1>1
  <2> HIDE DEF whole
  <2> QED
    BY <1>6, <1>61, <2>1, <2>2
<1>9. Begins(link, level) /\ GoesOn(link, code)
  BY <1>8 DEF Begins, GoesOn
<1>10. k \in Nat /\ Len(link) = 4 + k
  <2>1. n \in Nat /\ p \in Nat
    BY <1>6, <1>61
  <2>2. Len(link) = 4 + n + p
    BY <1>8
  <2> QED
    BY <2>1, <2>2
<1>11. EndsIn(link, n, k)
  <2>1. CASE p = 0
    BY <1>6, <2>1 DEF EndsIn
  <2>2. CASE p = 1 /\ end[1] = ";"
    <3>0. p = 1 /\ n \in Nat
      BY <1>6, <2>2
    <3>1. 1 \in 1..p
      BY <3>0
    <3>2. link[4 + n + 1] = ";"
      BY <1>8, <2>2, <3>1
    <3>3. k = n + 1 /\ 4 + n + 1 = 4 + k
      BY <3>0
    <3> HIDE DEF k
    <3> QED
      BY <3>2, <3>3 DEF EndsIn
  <2> QED
    BY <1>5, <2>1, <2>2
<1> HIDE DEF k
<1>12. level # "snivel="
  BY <1>3
<1>13. CodeOf(link) = code
  BY <1>6, <1>8, <1>9, <1>10, <1>11, <1>7, <1>12, ReadCode
<1>14. /\ IsEntry(link) /\ HasLevel(link, level)
       /\ level = "3" /\ (n = 0 \/ code[1] # "4") => ~HasLevel(link, "4")
  BY <1>6, <1>8, <1>9, <1>10, <1>11, <1>7, <1>3, ReadLevel
<1>15. ASSUME Told(c)
       PROVE  TypeOf(link) = IF level = "4" THEN "course" ELSE "department"
  <2>1. CASE level = "4"
    BY <1>14, <2>1 DEF TypeOf
  <2>2. CASE level = "3"
    <3>1. n = 0 \/ code[1] # "4"
      BY <1>15, <2>2, <1>6 DEF Told, code, level
    <3> QED
      BY <1>14, <2>2, <3>1 DEF TypeOf
  <2> QED
    BY <1>3, <2>1, <2>2
<1> QED
  BY <1>13, <1>14, <1>15 DEF level, code
-----------------------------------------------------------------------------
(* The entries of a page.                                                  *)

\* The rows a list of courses may have.
Row(link) == [code |-> CodeOf(link), type |-> TypeOf(link)]
AllLinks == UNION {ToSet(page) : page \in Pages}
Rows == {Row(link) : link \in AllLinks}

\* The entry of a code in a list, and the context it asks for.
EntryIn(rows, code) == SelectLastInSeq(rows, LAMBDA e : e.code = code)
WantedIn(rows, code) ==
    <<IF rows[EntryIn(rows, code)].type = "course" THEN "4" ELSE "3", code>>

\* A page's entries are the links among its links that stand for one.
LEMMA PageRows ==
    ASSUME NEW page \in Pages
    PROVE  LET rows == Loaded(page) IN
           /\ rows \in Seq(Rows)
           /\ \A i \in DOMAIN rows : \E link \in ToSet(page) : IsEntry(link) /\ rows[i] = Row(link)
           /\ \A link \in ToSet(page) : IsEntry(link) => \E i \in DOMAIN rows : rows[i] = Row(link)
<1> DEFINE T == ToSet(page)
           E == {link \in T : IsEntry(link)}
           links == SelectIn(page, E)
           rows == [i \in DOMAIN links |-> Row(links[i])]
<1>1. page \in Seq(T)
  BY ConstantsAssumption
<1>2. Loaded(page) = rows
  BY DEF Loaded, Row
<1>3. E \subseteq T
  OBVIOUS
<1>4. \A link : link \in E <=> link \in T /\ IsEntry(link)
  OBVIOUS
<1> HIDE DEF T, E
<1>5. links \in Seq(T \cap E) /\ ToSet(links) = ToSet(page) \cap E
  BY <1>1, SelectInSelects
<1> HIDE DEF links
<1>6. links \in Seq(E) /\ ToSet(links) = E
  BY <1>3, <1>5 DEF T
<1>7. DOMAIN rows = 1..Len(links) /\ Len(links) \in Nat
  BY <1>6
<1>8. \A i \in DOMAIN rows : rows[i] = Row(links[i]) /\ links[i] \in E
  BY <1>6
<1>9. \A link \in E : Row(link) \in Rows
  BY <1>4 DEF Rows, AllLinks, T
<1>10. \A link \in E : \E i \in DOMAIN rows : rows[i] = Row(link)
  <2> SUFFICES ASSUME NEW link \in E PROVE \E i \in DOMAIN rows : rows[i] = Row(link)
    OBVIOUS
  <2>1. PICK i \in 1..Len(links) : links[i] = link
    BY <1>6 DEF ToSet
  <2> QED
    BY <1>7, <2>1
<1>11. rows \in Seq(Rows)
  BY <1>7, <1>8, <1>9
<1> HIDE DEF rows
<1> QED
  BY <1>2, <1>4, <1>8, <1>10, <1>11 DEF T

LEMMA RowShape ==
    ASSUME NEW entry \in Rows
    PROVE  ~Contains(entry.code, ";") /\ entry.type \in {"course", "department"}
<1>1. PICK link \in AllLinks : entry = Row(link)
  BY DEF Rows
<1>0. PICK page \in Pages : link \in ToSet(page)
  BY DEF AllLinks
<1>2. link \in Seq(ToSet(link))
  BY <1>0, ConstantsAssumption
<1>3. ~Contains(CodeOf(link), ";")
  BY <1>2, CodeIsText
<1>4. entry.code = CodeOf(link) /\ entry.type = TypeOf(link)
  BY <1>1 DEF Row
<1> QED
  BY <1>3, <1>4 DEF TypeOf

\* A page without links has no entries.
LEMMA EmptyPage == Loaded(<<>>) = <<>> /\ Linked(<<>>) = {}
<1> DEFINE E == {link \in ToSet(<<>>) : IsEntry(link)}
           links == SelectIn(<<>>, E)
<1>1. ToSet(<<>>) = {}
  BY DEF ToSet
<1>2. links \in Seq({} \cap E)
  <2> HIDE DEF E
  <2>1. <<>> \in Seq({})
    OBVIOUS
  <2> QED
    BY <2>1, SelectInSelects
<1> HIDE DEF E
<1>3. links = <<>>
  <2> HIDE DEF links
  <2>1. links \in Seq({})
    BY <1>2
  <2> QED
    BY <2>1
<1>4. Loaded(<<>>) = <<>>
  BY <1>3 DEF Loaded, E
<1> QED
  BY <1>1, <1>4 DEF Linked

\* Every context a page links to has an entry in its list.
LEMMA LinkedHasEntry ==
    ASSUME NEW page \in Pages, NEW c \in Linked(page)
    PROVE  \E i \in DOMAIN Loaded(page) : Loaded(page)[i].code = c[2]
<1>1. PICK link \in ToSet(page) : c \in Contexts /\ link \in LinksTo(c)
  BY DEF Linked
<1>2. IsEntry(link) /\ CodeOf(link) = c[2]
  BY <1>1, LinkToReads
<1>3. PICK i \in DOMAIN Loaded(page) : Loaded(page)[i] = Row(link)
  BY <1>2, PageRows
<1>4. Loaded(page)[i].code = c[2]
  BY <1>2, <1>3 DEF Row
<1> QED
  BY <1>4

\* The last entry of a list with a code.
LEMMA EntryOf ==
    ASSUME NEW X, NEW rows \in Seq(X), NEW code, \E i \in DOMAIN rows : rows[i].code = code
    PROVE  EntryIn(rows, code) \in 1..Len(rows) /\ rows[EntryIn(rows, code)].code = code
<1> DEFINE I == {i \in 1..Len(rows) : rows[i].code = code}
<1>1. I # {} /\ I \subseteq 1..Len(rows) /\ \A i \in I : rows[i].code = code
  OBVIOUS
<1>2. Len(rows) \in Nat /\ EntryIn(rows, code) = Max(I)
  BY <1>1 DEF EntryIn, SelectLastInSeq
<1> HIDE DEF I
<1>3. Max(I) \in I
  <2>1. I \in SUBSET (0..Len(rows))
    BY <1>1
  <2> QED
    BY <1>1, <1>2, <2>1, LastIsGreatest
<1> QED
  BY <1>1, <1>2, <1>3

\* The context that is asked for is the one whose code it is, if its link tells.
LEMMA AsksForIt ==
    ASSUME NEW page \in Pages, NEW c \in Contexts, Told(c),
           \E i \in DOMAIN Loaded(page) : Loaded(page)[i].code = c[2]
    PROVE  WantedIn(Loaded(page), c[2]) = c
<1> DEFINE rows == Loaded(page)
           e == EntryIn(rows, c[2])
<1>1. rows \in Seq(Rows)
  BY PageRows
<1>2. e \in DOMAIN rows /\ rows[e].code = c[2]
  <2> HIDE DEF rows
  <2> QED
    BY <1>1, EntryOf DEF rows
<1> HIDE DEF e
<1>3. PICK link \in ToSet(page) : IsEntry(link) /\ rows[e] = Row(link)
  BY <1>2, PageRows
<1>4. CodeOf(link) = c[2] /\ rows[e].type = TypeOf(link)
  BY <1>2, <1>3 DEF Row
<1>5. link \in LinksTo(c)
  BY <1>3, <1>4, ConstantsAssumption
<1>6. rows[e].type = IF c[1] = "4" THEN "course" ELSE "department"
  BY <1>4, <1>5, LinkToReads
<1>7. (c[1] = "3" \/ c[1] = "4") /\ c = <<c[1], c[2]>>
  BY ContextShape
<1>8. (IF rows[e].type = "course" THEN "4" ELSE "3") = c[1]
  BY <1>6, <1>7
<1> QED
  BY <1>7, <1>8 DEF WantedIn, e

-----------------------------------------------------------------------------
(* The types.                                                              *)

\* The lists of the courses, and of what is known of each, go together.
Kinds == {Section[l] : l \in DOMAIN Section}
Lists ==
    /\ courses \in Seq(Rows)
    /\ flags \in Seq(SUBSET Kinds) /\ Len(flags) = Len(courses)

\* TypeOK, but for the words of the last call.
Kept ==
    /\ session \in BOOLEAN /\ logged \in BOOLEAN
    /\ context \in Contexts \cup {None}
    /\ Lists
    /\ current \in 0..Len(courses)
    /\ taken \subseteq SettingNames
    /\ logins \in 0..MaxLogins
    /\ offered \subseteq Contexts /\ synced \subseteq Contexts \cup {None}

Calls == {"new", "set", "login", "logout", "resync", "news"}

LEMMA KeptIsTyped ==
    ASSUME Kept, last.call \in Calls
    PROVE  TypeOK
<1>1. \A i \in DOMAIN courses : courses[i] \in Rows
  BY DEF Kept, Lists
<1>2. \A i \in DOMAIN courses : ~Contains(courses[i].code, ";")
                              /\ courses[i].type \in {"course", "department"}
  BY <1>1, RowShape
<1>3. DOMAIN flags = DOMAIN courses
  BY DEF Kept, Lists
<1>4. \A i \in DOMAIN flags : flags[i] \subseteq {Section[l] : l \in DOMAIN Section}
  <2>1. \A i \in DOMAIN flags : flags[i] \in SUBSET Kinds
    BY DEF Kept, Lists
  <2> QED
    BY <2>1 DEF Kinds
<1> QED
  BY <1>2, <1>3, <1>4 DEF Kept, TypeOK, Calls

LEMMA SetTyped ==
    ASSUME Kept, NEW name, NEW good, Set(name, good)
    PROVE  Kept' /\ last'.call \in Calls
<1>1. last'.call = "set" /\ taken' \subseteq SettingNames
  BY DEF Set, Result, Kept
<1>2. UNCHANGED <<session, context, logged, courses, flags, current, logins, offered, synced>>
  BY DEF Set, server, history
<1> QED
  BY <1>1, <1>2 DEF Kept, Lists, Calls

LEMMA LogoutTyped ==
    ASSUME Kept, NEW o, Logout(o)
    PROVE  Kept' /\ last'.call \in Calls
<1>1. last'.call = "logout"
  BY DEF Logout, Result
<1>2. UNCHANGED <<courses, flags, current, taken, logins, offered, synced>>
  BY DEF Logout, client, history
<1>3. session' \in BOOLEAN /\ logged' \in BOOLEAN /\ context' \in Contexts \cup {None}
  BY DEF Logout, client, server, Kept
<1> QED
  BY <1>1, <1>2, <1>3 DEF Kept, Lists, Calls

LEMMA NewsTyped ==
    ASSUME Kept, NEW o, News(o)
    PROVE  Kept' /\ last'.call \in Calls
<1>1. last'.call = "news"
  BY DEF News, Result
<1>2. UNCHANGED <<session, context, logged, courses, flags, current, taken, logins, offered,
                  synced>>
  BY DEF News, server, client, history
<1> QED
  BY <1>1, <1>2 DEF Kept, Lists, Calls

\* What a page adds to the lists.
LEMMA PageAdds ==
    ASSUME Lists, NEW page, page \in Pages \/ page = <<>>
    PROVE  /\ courses \o Loaded(page) \in Seq(Rows)
           /\ flags \o Flags(page) \in Seq(SUBSET Kinds)
           /\ Len(flags \o Flags(page)) = Len(courses \o Loaded(page))
           /\ Len(courses \o Loaded(page)) = Len(courses) + Len(Loaded(page))
           /\ Len(Loaded(page)) \in Nat
<1> DEFINE rows == Loaded(page)
           none == Flags(page)
<1>1. rows \in Seq(Rows)
  <2>1. CASE page \in Pages
    BY <2>1, PageRows
  <2>2. CASE page = <<>>
    <3>1. <<>> \in Seq(Rows)
      OBVIOUS
    <3> QED
      BY <2>2, <3>1, EmptyPage
  <2> QED
    BY <2>1, <2>2
<1> HIDE DEF rows
<1>2. none = [i \in DOMAIN rows |-> {}]
  BY DEF Flags, rows
<1> HIDE DEF none
<1>3. none \in Seq(SUBSET Kinds) /\ Len(none) = Len(rows)
  <2>1. DOMAIN rows = 1..Len(rows) /\ Len(rows) \in Nat
    BY <1>1
  <2>2. {} \in SUBSET Kinds
    OBVIOUS
  <2> HIDE DEF Kinds
  <2> QED
    BY <1>2, <2>1, <2>2
<1>4. courses \o rows \in Seq(Rows) /\ Len(courses \o rows) = Len(courses) + Len(rows)
      /\ Len(rows) \in Nat
  BY <1>1 DEF Lists
<1>5. flags \o none \in Seq(SUBSET Kinds) /\ Len(flags \o none) = Len(flags) + Len(none)
  BY <1>3 DEF Lists
<1>6. Len(flags) = Len(courses)
  BY DEF Lists
<1> QED
  BY <1>3, <1>4, <1>5, <1>6 DEF rows, none

LEMMA LoginTyped ==
    ASSUME Kept, NEW tuple, NEW o1, NEW o2, Login(tuple, o1, o2)
    PROVE  Kept' /\ last'.call \in Calls /\ Len(courses') >= Len(courses)
<1>1. last'.call = "login"
  BY DEF Login, Result
<1>2. logins' \in 0..MaxLogins
  <2>1. logins' = logins + 1 /\ logins < MaxLogins
    BY DEF Login
  <2>2. MaxLogins \in Nat
    BY ConstantsAssumption
  <2>3. logins \in 0..MaxLogins
    BY DEF Kept
  <2> QED
    BY <2>1, <2>2, <2>3
<1>0. Len(courses) \in Nat
  BY DEF Kept, Lists
<1>3. CASE UNCHANGED <<server, client, history>>
  BY <1>1, <1>2, <1>3 DEF Kept, Lists, Calls, server, client, history
<1>4. CASE /\ o2 # "ok"
           /\ IF Reaches(o2) /\ tuple = "good"
                THEN session' = TRUE /\ context' = None
                ELSE UNCHANGED server
           /\ synced' = {} /\ offered' = {}
           /\ UNCHANGED client
  <2>1. session' \in BOOLEAN /\ context' \in Contexts \cup {None}
    BY <1>4 DEF Kept, server
  <2>2. UNCHANGED <<logged, courses, flags, current, taken>>
    BY <1>4 DEF client
  <2>3. synced' \subseteq Contexts \cup {None} /\ offered' \subseteq Contexts
    BY <1>4
  <2> QED
    BY <1>0, <1>1, <1>2, <2>1, <2>2, <2>3 DEF Kept, Lists, Calls
<1>5. ASSUME NEW page \in IF tuple = "good" THEN Pages ELSE {<<>>},
             offered' = Linked(page), courses' = courses \o Loaded(page),
             flags' = flags \o Flags(page), logged' = (courses' # <<>>),
             IF Reaches(o2) /\ tuple = "good"
               THEN session' = TRUE /\ context' = None
               ELSE UNCHANGED server,
             synced' = {}, UNCHANGED <<current, taken>>
      PROVE  Kept' /\ Len(courses') >= Len(courses)
  <2>1. page \in Pages \/ page = <<>>
    BY <1>5
  <2>2. Lists
    BY DEF Kept
  <2>3. Lists' /\ Len(courses') = Len(courses) + Len(Loaded(page)) /\ Len(Loaded(page)) \in Nat
    BY <1>5, <2>1, <2>2, PageAdds DEF Lists
  <2>4. session' \in BOOLEAN /\ context' \in Contexts \cup {None}
    BY <1>5 DEF Kept, server
  <2>5. logged' \in BOOLEAN
    BY <1>5
  <2>6. offered' \subseteq Contexts
    BY <1>5 DEF Linked
  <2>7. Len(courses) \in Nat
    BY <2>2 DEF Lists
  <2>8. current' \in 0..Len(courses')
    BY <1>5, <2>3, <2>7 DEF Kept
  <2>9. taken' \subseteq SettingNames /\ synced' \subseteq Contexts \cup {None}
    BY <1>5 DEF Kept
  <2> QED
    BY <1>2, <2>3, <2>4, <2>5, <2>6, <2>7, <2>8, <2>9 DEF Kept
<1> QED
  BY <1>1, <1>3, <1>4, <1>5 DEF Login, Kept, Lists, client, Calls

LEMMA ResyncTyped ==
    ASSUME Kept, NEW code, NEW asked, NEW o, NEW crawled, NEW made, NEW forum,
           Resync(code, asked, o, crawled, made, forum)
    PROVE  Kept' /\ last'.call \in Calls
<1>1. last'.call = "resync"
  BY DEF Resync, Returns
<1>2. UNCHANGED <<session, logged, courses, taken, logins, offered>>
  BY DEF Resync
<1>3. context' \in Contexts \cup {None} /\ current' \in 0..Len(courses)
      /\ flags' \in Seq(SUBSET Kinds) /\ Len(flags') = Len(courses)
  <2>1. CASE UNCHANGED <<context, current, flags>>
    BY <2>1 DEF Kept, Lists
  <2>2. CASE Known(code) /\ AskContext(code, o)
    <3> DEFINE e == Entry(code)
               c == Wanted(code)
    <3>1. e \in 1..Len(courses)
      <4>1. courses \in Seq(Rows) /\ e = EntryIn(courses, code)
        BY DEF Kept, Lists, Entry, EntryIn
      <4>2. \E i \in DOMAIN courses : courses[i].code = code
        BY <2>2 DEF Known
      <4> QED
        BY <4>1, <4>2, EntryOf
    <3> HIDE DEF e, c
    <3>2. /\ current' = e
          /\ context' = IF Reaches(o) /\ Given(c) THEN c ELSE context
          /\ flags' = IF o = "ok"
                       THEN [flags EXCEPT ![e] = IF Given(c) THEN Capabilities(Sections[c]) ELSE {}]
                       ELSE flags
      BY <2>2 DEF AskContext, e, c
    <3>3. (IF Given(c) THEN Capabilities(Sections[c]) ELSE {}) \in SUBSET Kinds
      BY DEF Capabilities, Kinds
    <3>4. flags \in Seq(SUBSET Kinds) /\ Len(flags) = Len(courses) /\ Len(courses) \in Nat
      BY DEF Kept, Lists
    <3>5. context \in Contexts \cup {None}
      BY DEF Kept
    <3> HIDE DEF Kinds
    <3>6. flags' \in Seq(SUBSET Kinds) /\ Len(flags') = Len(courses)
      <4> DEFINE k == IF Given(c) THEN Capabilities(Sections[c]) ELSE {}
      <4> HIDE DEF k
      <4>1. k \in SUBSET Kinds
        BY <3>3 DEF k
      <4>2. flags' = IF o = "ok" THEN [flags EXCEPT ![e] = k] ELSE flags
        BY <3>2 DEF k
      <4> QED
        BY <3>1, <3>4, <4>1, <4>2
    <3>7. context' \in Contexts \cup {None}
      BY <3>2, <3>5 DEF Given
    <3> QED
      BY <3>1, <3>2, <3>4, <3>6, <3>7
  <2> QED
    BY <2>1, <2>2 DEF Resync, SetContext
<1>4. synced' \subseteq Contexts \cup {None}
  <2>1. synced' = synced \/ synced' = synced \cup {context'}
    BY DEF Resync
  <2> QED
    BY <1>3, <2>1 DEF Kept
<1> QED
  BY <1>1, <1>2, <1>3, <1>4 DEF Kept, Lists, Calls

\* The options, whatever password is typed.
OptionSet == [username : BOOLEAN, password : {"good", "bad", "none"}, forum : BOOLEAN,
              value : [SettingNames -> {"good", "bad", "none"}]]

Typed ==
    /\ Kept /\ last.call \in Calls
    /\ opt \in OptionSet
    /\ echo \in BOOLEAN /\ deaf \in BOOLEAN
    /\ at \in Ways
    /\ row \in 1..Len(Table) + 1
    /\ visit \in 0..Len(courses)
    /\ status \in {"none", "success", "failure", "interrupted"}

LEMMA InitTyped ==
    ASSUME SuckInit
    PROVE  Typed
<1>1. Kept /\ last.call \in Calls
  <2>1. courses \in Seq(Rows) /\ flags \in Seq(SUBSET Kinds) /\ Len(flags) = Len(courses)
    <3>1. courses = <<>> /\ flags = <<>>
      BY DEF SuckInit, Init
    <3> QED
      BY <3>1
  <2>2. session = FALSE /\ logged = FALSE /\ context = None /\ current = 0 /\ taken = {}
        /\ logins = 0 /\ offered = {} /\ synced = {} /\ last.call = "new" /\ courses = <<>>
    BY DEF SuckInit, Init
  <2>3. 0 \in 0..MaxLogins
    <3>1. MaxLogins \in Nat
      BY ConstantsAssumption
    <3> QED
      BY <3>1
  <2>4. last.call \in Calls
    BY <2>2 DEF Calls
  <2>5. Lists
    BY <2>1 DEF Lists
  <2>6. current \in 0..Len(courses)
    <3>1. current = 0 /\ Len(courses) \in Nat
      BY <2>1, <2>2
    <3> QED
      BY <3>1
  <2>7. logins \in 0..MaxLogins
    BY <2>2, <2>3
  <2> QED
    BY <2>2, <2>4, <2>5, <2>6, <2>7 DEF Kept
<1>2. opt \in OptionSet
  BY OptionsAssumption DEF SuckInit, OptionSet
<1>3. row = 1 /\ visit = 0 /\ status = "none" /\ at = "validate" /\ echo = TRUE /\ deaf = FALSE
  BY DEF SuckInit
<1>4. Len(Table) = 13 /\ 0 \in 0..Len(courses)
  <2>1. Len(courses) \in Nat
    BY <1>1 DEF Kept, Lists
  <2>2. Len(Table) = 13
    BY DEF Table
  <2> QED
    BY <2>1, <2>2
<1>5. row \in 1..Len(Table) + 1
  BY <1>3, <1>4
<1>6. visit \in 0..Len(courses)
  BY <1>3, <1>4
<1>7. at \in Ways /\ status \in {"none", "success", "failure", "interrupted"}
  BY <1>3 DEF Ways
<1> QED
  BY <1>1, <1>2, <1>3, <1>5, <1>6, <1>7 DEF Typed

\* What a step of the program may do that calls nothing of the library.
LEMMA IdleTyped ==
    ASSUME Typed, UNCHANGED <<vars, row, visit>>, opt' \in OptionSet,
           echo' \in BOOLEAN, deaf' \in BOOLEAN, at' \in Ways,
           status' \in {"none", "success", "failure", "interrupted"}
    PROVE  Typed'
<1>1. Kept' /\ last'.call \in Calls /\ courses' = courses
  BY DEF Typed, Kept, Lists, vars
<1> QED
  BY <1>1 DEF Typed

LEMMA JudgeStatus ==
    ASSUME Typed, NEW password, Judge(password)
    PROVE  status' \in {"none", "success", "failure", "interrupted"}
BY DEF Judge, Typed

LEMMA TypedStep ==
    ASSUME Typed, [SuckNext]_suckVars
    PROVE  Typed'
<1>1. CASE Validate \/ RestoreSignals \/ Interrupt
  <2>1. UNCHANGED <<vars, row, visit>> /\ opt' = opt /\ echo' = echo
    BY <1>1 DEF Validate, RestoreSignals, Interrupt, tty
  <2>2. at' \in Ways
    BY <1>1, JudgeAt DEF Validate, RestoreSignals, Interrupt, Ways, Prompting
  <2>3. status' \in {"none", "success", "failure", "interrupted"}
    BY <1>1, JudgeStatus DEF Validate, RestoreSignals, Interrupt, Typed
  <2>4. opt \in OptionSet /\ echo \in BOOLEAN /\ deaf' \in BOOLEAN
    BY <1>1 DEF Validate, RestoreSignals, Interrupt, tty, Typed
  <2> QED
    BY <2>1, <2>2, <2>3, <2>4, IdleTyped
<1>2. CASE IgnoreSignals \/ HideTyping \/ ReadPassword \/ ShowTyping
  <2>1. UNCHANGED <<vars, row, visit, status>> /\ at' \in Ways
    BY <1>2 DEF IgnoreSignals, HideTyping, ReadPassword, ShowTyping, Prompt, Ways, Prompting
  <2>2. opt' \in OptionSet
    <3>1. opt \in OptionSet
      BY DEF Typed
    <3>2. CASE ReadPassword
      <4>1. PICK typed \in {"good", "bad", "none"} : opt' = [opt EXCEPT !.password = typed]
        BY <3>2 DEF ReadPassword
      <4> QED
        BY <3>1, <4>1 DEF OptionSet
    <3> QED
      BY <1>2, <3>1, <3>2 DEF IgnoreSignals, HideTyping, ShowTyping
  <2>3. echo' \in BOOLEAN /\ deaf' \in BOOLEAN
    BY <1>2 DEF IgnoreSignals, HideTyping, ReadPassword, ShowTyping, tty, Typed
  <2>4. status \in {"none", "success", "failure", "interrupted"}
    BY DEF Typed
  <2> QED
    BY <2>1, <2>2, <2>3, <2>4, IdleTyped
<1>3. ASSUME Kept', last'.call \in Calls, opt' = opt, UNCHANGED tty, at' \in Ways,
             row' \in 1..Len(Table) + 1, visit' \in 0..Len(courses'),
             status' \in {"none", "success", "failure", "interrupted"}
      PROVE  Typed'
  BY <1>3 DEF Typed, tty
<1>4. Kept /\ last.call \in Calls /\ row \in 1..Len(Table) + 1 /\ visit \in 0..Len(courses)
      /\ at \in Ways /\ status \in {"none", "success", "failure", "interrupted"}
  BY DEF Typed
<1>5. UNCHANGED vars => Kept' /\ last'.call \in Calls /\ courses' = courses
  BY <1>4 DEF Kept, Lists, vars
<1>6. CASE Configure
  <2>1. Kept' /\ last'.call \in Calls /\ courses' = courses
    <3>1. CASE UNCHANGED vars
      BY <1>5, <3>1
    <3>2. ASSUME NEW name, NEW good, Set(name, good)
          PROVE  Kept' /\ last'.call \in Calls /\ courses' = courses
      BY <1>4, <3>2, SetTyped DEF Set
    <3> QED
      BY <1>6, <3>1, <3>2 DEF Configure
  <2>2. row' \in 1..Len(Table) + 1
    <3>1. row' = row + 1 /\ row <= Len(Table) /\ Len(Table) = 13
      BY <1>6 DEF Configure, Table
    <3> QED
      BY <1>4, <3>1
  <2>3. opt' = opt /\ UNCHANGED tty /\ visit' = visit /\ at' \in Ways
        /\ status' \in {"none", "success", "failure", "interrupted"}
    BY <1>4, <1>6 DEF Configure, Ways
  <2> QED
    BY <1>3, <1>4, <2>1, <2>2, <2>3
<1>7. CASE \E o1, o2 \in Outcomes : SignIn(o1, o2)
  <2>1. PICK o1 \in Outcomes, o2 \in Outcomes : SignIn(o1, o2)
    BY <1>7
  <2>2. Kept' /\ last'.call \in Calls /\ Len(courses') >= Len(courses)
    BY <1>4, <2>1, LoginTyped DEF SignIn
  <2>3. Len(courses) \in Nat /\ Len(courses') \in Nat
    BY <1>4, <2>2 DEF Kept, Lists
  <2>4. visit' = Len(courses') \/ visit' = visit
    BY <2>1 DEF SignIn
  <2>5. visit' \in 0..Len(courses')
    BY <1>4, <2>2, <2>3, <2>4
  <2>6. opt' = opt /\ UNCHANGED tty /\ row' = row /\ at' \in Ways
        /\ status' \in {"none", "success", "failure", "interrupted"}
    BY <1>4, <2>1 DEF SignIn, Ways
  <2> QED
    BY <1>3, <1>4, <2>2, <2>5, <2>6
<1>8. CASE \E o \in Outcomes, crawled, made, forum \in BOOLEAN : ResyncNext(o, crawled, made, forum)
  <2>1. PICK o \in Outcomes, crawled \in BOOLEAN, made \in BOOLEAN, forum \in BOOLEAN :
               ResyncNext(o, crawled, made, forum)
    BY <1>8
  <2>2. Resync(courses[visit].code, Flagged, o, crawled, made, forum)
    BY <2>1 DEF ResyncNext
  <2>3. Kept' /\ last'.call \in Calls
    BY <1>4, <2>2, ResyncTyped
  <2>4. courses' = courses /\ Len(courses) \in Nat
    BY <1>4, <2>2 DEF Resync, Kept, Lists
  <2>5. visit > 0 /\ visit' = visit - 1
    BY <2>1 DEF ResyncNext
  <2>6. visit' \in 0..Len(courses')
    BY <1>4, <2>4, <2>5
  <2>7. opt' = opt /\ UNCHANGED tty /\ row' = row /\ at' \in Ways
        /\ status' \in {"none", "success", "failure", "interrupted"}
    BY <1>4, <2>1 DEF ResyncNext, Ways
  <2> QED
    BY <1>3, <1>4, <2>3, <2>6, <2>7
<1>9. CASE \E o \in Outcomes : AskNews(o) \/ LogOff(o) \/ Destroy(o)
  <2>1. PICK o \in Outcomes : AskNews(o) \/ LogOff(o) \/ Destroy(o)
    BY <1>9
  <2>2. News(o) \/ Logout(o) \/ UNCHANGED vars
    BY <2>1 DEF AskNews, LogOff, Destroy
  <2>3. Kept' /\ last'.call \in Calls
    BY <1>4, <1>5, <2>2, NewsTyped, LogoutTyped
  <2>4. courses' = courses
    BY <1>5, <2>2 DEF News, Logout, client
  <2>5. opt' = opt /\ UNCHANGED tty /\ row' = row /\ visit' = visit /\ at' \in Ways
        /\ status' \in {"none", "success", "failure", "interrupted"}
    BY <1>4, <2>1 DEF AskNews, LogOff, Destroy, Ways
  <2> QED
    BY <1>3, <1>4, <2>3, <2>4, <2>5
<1>10. CASE UNCHANGED suckVars
  <2>1. UNCHANGED <<vars, row, visit, status, opt, echo, deaf, at>>
    BY <1>10 DEF suckVars, tty
  <2> QED
    BY <2>1, IdleTyped DEF Typed
<1> QED
  BY <1>1, <1>2, <1>6, <1>7, <1>8, <1>9, <1>10 DEF SuckNext, Advance, GetPass

\* The variables keep their types, whatever the pages, the options and the
\* failures are: the lists of courses and of their flags stay in step, the current
\* course is one of them, and no code goes on past a semicolon.  (suck, iol.c)
THEOREM SuckTypeCorrect == SuckSpec => []SuckTypeOK
<1>1. SuckInit => Typed
  BY InitTyped
<1>2. Typed /\ [SuckNext]_suckVars => Typed'
  BY TypedStep
<1>3. Typed => SuckTypeOK
  <2> SUFFICES ASSUME Typed PROVE SuckTypeOK
    OBVIOUS
  <2>1. TypeOK
    BY KeptIsTyped DEF Typed
  <2>2. opt.password \in {"good", "bad", "none"}
    <3>1. opt \in OptionSet
      BY DEF Typed
    <3> QED
      BY <3>1 DEF OptionSet
  <2> QED
    BY <2>1, <2>2 DEF Typed, SuckTypeOK, Ways, Prompting
<1> QED
  BY <1>1, <1>2, <1>3, PTL DEF SuckSpec

-----------------------------------------------------------------------------
(* The settings and the courses.                                           *)

\* What iol_resync needs of its state: a current course the server shows, whose
\* sections the client knows.  (A code may be one the server has no context for.)
Current(rows, kinds, cur, ctx) ==
    cur # 0 =>
      /\ cur \in DOMAIN rows
      /\ LET c == WantedIn(rows, rows[cur].code) IN
         c \in Contexts => ctx = c /\ kinds[cur] = Capabilities(Sections[c])

\* Every course listed after the first n that is of interest was crawled.
Crawled(rows, n, wanted, done) ==
    \A i \in n + 1..Len(rows), c \in wanted : rows[i].code = c[2] => c \in done

BeforeLogin ==
    at \in {"validate", "set"} \cup Prompting =>
        courses = <<>> /\ current = 0 /\ ~logged /\ status = "none"

\* The settings that were given are taken row by row, all of them before the login.
Settled ==
    /\ at \in {"validate"} \cup Prompting => row = 1
    /\ at = "resync" \/ status = "success" => row = Len(Table) + 1
    /\ at \in {"set", "resync"} \/ status = "success" =>
         \A j \in 1..row - 1 : opt.value[Table[j]] # "none" => Table[j] \in taken

\* While iol_resync_all is at work, it has the courses of one page, the session
\* is open, and the courses behind it are crawled.
Working ==
    at = "resync" =>
        /\ status = "none" /\ logged /\ session
        /\ \E page \in Pages : courses = Loaded(page) /\ offered = Linked(page)
        /\ Current(courses, flags, current, context)
        /\ Crawled(courses, visit, offered \cap WithMaterial, synced)

Done ==
    status = "success" =>
        /\ at \in {"logout", "destroy", "exit"}
        /\ offered \cap WithMaterial \subseteq synced

Sync == BeforeLogin /\ Settled /\ Working /\ Done /\ ResyncedIfOK

\* iol_set stores what it accepts, and forgets nothing.
LEMMA SetStores ==
    ASSUME NEW name, NEW good, Set(name, good)
    PROVE  taken \subseteq taken' /\ (last'.ret = "E_OK" => name \in taken')
<1>1. CASE name \notin SettingNames \/ (name \in MayBeRefused /\ ~good)
  <2>1. taken' = taken /\ last'.ret = "E_INVAL"
    BY <1>1 DEF Set, Result
  <2> QED
    BY <2>1
<1>2. CASE ~(name \notin SettingNames \/ (name \in MayBeRefused /\ ~good))
  <2>1. taken' = taken \cup {name}
    BY <1>2 DEF Set
  <2> QED
    BY <2>1
<1> QED
  BY <1>1, <1>2

\* A code that is asked for has the sections of its context once it was answered.
LEMMA AskedIsCurrent ==
    ASSUME Kept, session, Current(courses, flags, current, context),
           NEW code, NEW o, Known(code), SetContext(code, o), ContextSet(code, o)
    PROVE  /\ Current(courses, flags', current', context')
           /\ current' # 0 /\ courses[current'].code = code
<1>1. courses \in Seq(Rows) /\ flags \in Seq(SUBSET Kinds) /\ Len(flags) = Len(courses)
  BY DEF Kept, Lists
<1>2. CASE current # 0 /\ courses[current].code = code
  BY <1>2 DEF SetContext
<1>3. CASE ~(current # 0 /\ courses[current].code = code)
  <2> DEFINE e == EntryIn(courses, code)
             c == WantedIn(courses, code)
  <2>1. o = "ok" /\ AskContext(code, o)
    BY <1>3 DEF SetContext, ContextSet
  <2>2. e = Entry(code) /\ c = Wanted(code)
    BY DEF EntryIn, Entry, WantedIn, Wanted
  <2>3. e \in 1..Len(courses) /\ courses[e].code = code
    <3>1. \E i \in DOMAIN courses : courses[i].code = code
      BY DEF Known
    <3> QED
      BY <1>1, <3>1, EntryOf
  <2>4. e \in DOMAIN courses /\ e \in DOMAIN flags /\ e # 0
    BY <1>1, <2>3
  <2> HIDE DEF e, c
  <2>5. /\ current' = e
        /\ context' = IF Given(c) THEN c ELSE context
        /\ flags' = [flags EXCEPT ![e] = IF Given(c) THEN Capabilities(Sections[c]) ELSE {}]
    BY <2>1, <2>2 DEF AskContext, Reaches
  <2>6. ASSUME c \in Contexts
        PROVE  context' = c /\ flags'[e] = Capabilities(Sections[c])
    <3>1. Given(c)
      BY <2>6 DEF Given
    <3> QED
      BY <2>4, <2>5, <3>1
  <2>7. WantedIn(courses, courses[e].code) = c
    BY <2>3 DEF c
  <2> QED
    BY <2>3, <2>4, <2>5, <2>6, <2>7 DEF Current
<1> QED
  BY <1>2, <1>3

\* A call for the files of a course that returns E_OK has crawled them, if it has
\* any and its link tells its level.
LEMMA ResyncWorks ==
    ASSUME Kept, session, logged, Current(courses, flags, current, context),
           NEW page \in Pages, courses = Loaded(page), offered = Linked(page),
           NEW code, NEW asked, NEW o, NEW crawled, NEW made, NEW forum, Known(code),
           Resync(code, asked, o, crawled, made, forum), last'.ret = "E_OK", "FILE" \in asked
    PROVE  /\ Current(courses, flags', current', context')
           /\ synced \subseteq synced'
           /\ \A c \in offered \cap WithMaterial : c[2] = code => c \in synced'
<1> DEFINE ready == "repository" \in taken /\ CourseNameIsValid(code)
           todo  == asked \cap flags'[current']
<1>1. ready
  BY DEF Resync, Returns
<1>2. SetContext(code, o)
  BY <1>1 DEF Resync
<1>3. ContextSet(code, o)
  BY <1>1 DEF Resync, Returns
<1>4. /\ last' = [call |-> "resync", arg |-> code, asked |-> asked,
                 ret |-> Parts(todo, crawled, made, forum)]
      /\ synced' = IF "FILE" \in todo /\ made /\ crawled /\ session
                   THEN synced \cup {context'} ELSE synced
  BY <1>1, <1>3 DEF Resync, Returns
<1>5. /\ Current(courses, flags', current', context')
      /\ current' # 0 /\ courses[current'].code = code
  BY <1>2, <1>3, AskedIsCurrent
<1>6. synced \subseteq synced'
  BY <1>4
<1>7. Parts(todo, crawled, made, forum) = "E_OK"
  BY <1>4
<1>8. "FILE" \in todo => made /\ crawled
  <2> HIDE DEF todo
  <2> QED
    BY <1>7 DEF Parts
<1>9. ASSUME NEW c \in offered \cap WithMaterial, c[2] = code
      PROVE  c \in synced'
  <2>1. c \in Contexts /\ Told(c) /\ "newmaterialdid.asp" \in ToSet(Sections[c])
    BY <1>9 DEF WithMaterial
  <2>2. WantedIn(courses, code) = c
    <3>1. \E i \in DOMAIN Loaded(page) : Loaded(page)[i].code = c[2]
      BY <1>9 DEF Known
    <3> QED
      BY <1>9, <2>1, <3>1, AsksForIt
  <2>3. context' = c /\ flags'[current'] = Capabilities(Sections[c])
    BY <1>5, <2>1, <2>2 DEF Current
  <2>4. "FILE" \in Capabilities(Sections[c])
    <3>1. "newmaterialdid.asp" \in DOMAIN Section /\ Section["newmaterialdid.asp"] = "FILE"
      BY DEF Section
    <3> QED
      BY <2>1, <3>1 DEF Capabilities
  <2>5. "FILE" \in todo
    BY <2>3, <2>4
  <2> QED
    BY <1>4, <1>8, <2>3, <2>5
<1> QED
  BY <1>5, <1>6, <1>9

LEMMA InitSync ==
    ASSUME SuckInit
    PROVE  Sync
<1>1. /\ at = "validate" /\ row = 1 /\ status = "none" /\ courses = <<>> /\ current = 0
      /\ ~logged /\ last.call = "new"
  BY DEF SuckInit, Init
<1>2. BeforeLogin /\ Working /\ Done /\ ResyncedIfOK
  BY <1>1 DEF BeforeLogin, Working, Done, ResyncedIfOK
<1>3. Settled
  BY <1>1 DEF Settled
<1> QED
  BY <1>2, <1>3 DEF Sync

\* Up to the first setting nothing is called.
LEMMA PromptSync ==
    ASSUME Sync, Typed, Validate \/ GetPass
    PROVE  Sync'
<1>1. /\ UNCHANGED <<vars, row>>
      /\ at \in {"validate"} \cup Prompting
  BY DEF Validate, GetPass, IgnoreSignals, HideTyping, ReadPassword, ShowTyping, Prompt,
         RestoreSignals, Prompting
<1>2. UNCHANGED <<session, context, logged, courses, flags, current, taken, last, offered, synced>>
  BY <1>1 DEF vars
<1>3. \/ at' \in {"set"} \cup Prompting /\ status' = status
      \/ at' = "exit" /\ status' = "failure"
  BY DEF Validate, GetPass, IgnoreSignals, HideTyping, ReadPassword, ShowTyping, Prompt,
         RestoreSignals, Judge, Prompting
<1>4. courses = <<>> /\ current = 0 /\ ~logged /\ status = "none" /\ row = 1
  BY <1>1 DEF Sync, BeforeLogin, Settled
<1>5. BeforeLogin'
  BY <1>2, <1>3, <1>4 DEF BeforeLogin, Prompting
<1>6. Working' /\ Done'
  BY <1>3, <1>4 DEF Working, Done, Prompting
<1>7. ResyncedIfOK'
  BY <1>2 DEF Sync, ResyncedIfOK
<1>8. Settled'
  <2>1. row' = 1
    BY <1>1, <1>4
  <2>2. at' # "resync" /\ status' # "success"
    BY <1>3, <1>4 DEF Prompting
  <2> QED
    BY <2>1, <2>2 DEF Settled
<1> QED
  BY <1>5, <1>6, <1>7, <1>8 DEF Sync

\* A row of the settings is behind the program once it is taken.
LEMMA ConfigureSync ==
    ASSUME Sync, Typed, Configure
    PROVE  Sync'
<1>1. at = "set" /\ row <= Len(Table) /\ row' = row + 1 /\ opt' = opt
      /\ IF last'.ret = "E_OK" THEN UNCHANGED <<at, status>>
                               ELSE at' = "destroy" /\ status' = "failure"
  BY DEF Configure
<1>2. courses = <<>> /\ current = 0 /\ ~logged /\ status = "none"
      /\ \A j \in 1..row - 1 : opt.value[Table[j]] # "none" => Table[j] \in taken
  BY <1>1 DEF Sync, BeforeLogin, Settled
<1>3. UNCHANGED vars \/ Set(Table[row], opt.value[Table[row]] # "bad")
  BY DEF Configure
<1>4. UNCHANGED <<session, logged, courses, current, offered, synced>>
  BY <1>3 DEF Set, server, history, vars
<1>5. BeforeLogin'
  BY <1>1, <1>2, <1>4 DEF BeforeLogin, Prompting
<1>6. Working' /\ Done'
  BY <1>1, <1>2 DEF Working, Done
<1>7. ResyncedIfOK'
  <2>1. CASE UNCHANGED vars
    BY <2>1 DEF Sync, ResyncedIfOK, vars
  <2>2. CASE Set(Table[row], opt.value[Table[row]] # "bad")
    <3>1. last'.call = "set"
      BY <2>2 DEF Set, Result
    <3> QED
      BY <3>1 DEF ResyncedIfOK
  <2> QED
    BY <1>3, <2>1, <2>2
<1>8. Settled'
  <2>1. row \in Nat /\ row >= 1
    <3>1. Len(Table) = 13 /\ row \in 1..Len(Table) + 1
      BY DEF Typed, Table
    <3> QED
      BY <3>1
  <2>2. status' # "success" /\ at' \in {"set", "destroy"}
    BY <1>1, <1>2
  <2>3. ASSUME at' = "set", NEW j \in 1..row' - 1, opt'.value[Table[j]] # "none"
        PROVE  Table[j] \in taken'
    <3>1. last'.ret = "E_OK"
      BY <1>1, <2>3
    <3>2. taken \subseteq taken'
      BY <1>3, SetStores DEF vars
    <3>3. CASE j = row
      <4>1. Set(Table[row], opt.value[Table[row]] # "bad")
        BY <1>1, <2>3, <3>3 DEF Configure
      <4> QED
        BY <3>1, <3>3, <4>1, SetStores
    <3>4. CASE j # row
      <4>1. j \in 1..row - 1
        BY <1>1, <2>1, <2>3, <3>4
      <4> QED
        BY <1>1, <1>2, <2>3, <3>2, <4>1
    <3> QED
      BY <3>3, <3>4
  <2> QED
    BY <2>2, <2>3 DEF Settled, Prompting
<1> QED
  BY <1>5, <1>6, <1>7, <1>8 DEF Sync

\* A login that succeeds opens a session, and brings the courses of one page.
LEMMA LoginSync ==
    ASSUME Sync, Typed, NEW o1, NEW o2, SignIn(o1, o2)
    PROVE  Sync'
<1>1. /\ at = "set" /\ row > Len(Table) /\ row' = row /\ opt' = opt
      /\ Login(opt.password, o1, o2)
      /\ IF last'.ret = "E_OK"
           THEN at' = "resync" /\ visit' = Len(courses') /\ UNCHANGED status
           ELSE at' = "destroy" /\ status' = "failure" /\ UNCHANGED visit
  BY DEF SignIn
<1>2. courses = <<>> /\ current = 0 /\ ~logged /\ status = "none"
      /\ \A j \in 1..row - 1 : opt.value[Table[j]] # "none" => Table[j] \in taken
  BY <1>1 DEF Sync, BeforeLogin, Settled
<1>3. BeforeLogin' /\ Done'
  BY <1>1, <1>2 DEF BeforeLogin, Done, Prompting
<1>4. last'.call = "login"
  BY <1>1 DEF Login, Result
<1>5. ResyncedIfOK'
  BY <1>4 DEF ResyncedIfOK
<1>6. Settled'
  <2>1. taken' = taken
    BY <1>1 DEF Login, client
  <2>2. row = Len(Table) + 1
    <3>1. Len(Table) = 13 /\ row \in 1..Len(Table) + 1
      BY DEF Typed, Table
    <3> QED
      BY <1>1, <3>1
  <2>3. at' \in {"resync", "destroy"}
    BY <1>1
  <2> QED
    BY <1>1, <1>2, <2>1, <2>2, <2>3 DEF Settled, Prompting
<1>7. ASSUME at' = "resync"
      PROVE  /\ status' = "none" /\ logged' /\ session' /\ current' = 0
             /\ \E page \in Pages : courses' = Loaded(page) /\ offered' = Linked(page)
  <2>1. last'.ret = "E_OK" /\ status' = "none"
    BY <1>1, <1>2, <1>7
  <2>2. o2 = "ok" /\ UNCHANGED <<current, taken>>
    BY <1>1, <2>1 DEF Login, Result
  <2>9. ~logged /\ opt.password # "empty" /\ o1 = "ok"
    BY <1>1, <2>1 DEF Login, Result
  <2>3. PICK page \in IF opt.password = "good" THEN Pages ELSE {<<>>} :
               /\ offered' = Linked(page)
               /\ courses' = courses \o Loaded(page)
               /\ logged' = (courses' # <<>>)
               /\ Result("login", <<opt.password>>,
                         IF courses' = <<>> THEN "E_LOGINTUPLE" ELSE "E_OK")
    BY <1>1, <2>2, <2>9 DEF Login
  <2>4. courses' # <<>> /\ logged'
    <3>1. last'.ret = IF courses' = <<>> THEN "E_LOGINTUPLE" ELSE "E_OK"
      BY <2>3 DEF Result
    <3> QED
      BY <2>1, <2>3, <3>1
  <2>5. courses' = Loaded(page)
    <3>1. Loaded(page) \in Seq(Rows)
      <4>1. CASE page \in Pages
        BY <4>1, PageRows
      <4>2. CASE page = <<>>
        <5>1. <<>> \in Seq(Rows)
          OBVIOUS
        <5> QED
          BY <4>2, <5>1, EmptyPage
      <4> QED
        BY <2>3, <4>1, <4>2
    <3>2. \A r \in Seq(Rows) : <<>> \o r = r
      OBVIOUS
    <3> QED
      BY <1>2, <2>3, <3>1, <3>2
  <2>6. page # <<>>
    BY <2>4, <2>5, EmptyPage
  <2>7. opt.password = "good" /\ page \in Pages
    BY <2>3, <2>6
  <2>8. session'
    BY <1>1, <2>1, <2>2, <2>7 DEF Login, Result, Reaches
  <2> QED
    BY <1>2, <2>1, <2>2, <2>3, <2>4, <2>5, <2>7, <2>8
<1>8. Working'
  <2> SUFFICES ASSUME at' = "resync" PROVE Working'
    BY DEF Working
  <2>1. visit' = Len(courses')
    BY <1>1
  <2>2. Crawled(courses', visit', offered' \cap WithMaterial, synced')
    <3>1. PICK page \in Pages : courses' = Loaded(page)
      BY <1>7
    <3>2. courses' \in Seq(Rows)
      BY <3>1, PageRows
    <3>3. Len(courses') \in Nat
      BY <3>2
    <3>4. visit' + 1..Len(courses') = {}
      BY <2>1, <3>3
    <3> QED
      BY <3>4 DEF Crawled
  <2> QED
    BY <1>7, <2>2 DEF Working, Current
<1> QED
  BY <1>3, <1>5, <1>6, <1>8 DEF Sync

\* A course that is done is crawled, or there is nothing to get from it.
LEMMA ResyncSync ==
    ASSUME Sync, Typed, NEW o, NEW crawled, NEW made, NEW forum,
           ResyncNext(o, crawled, made, forum)
    PROVE  Sync'
<1> DEFINE code == courses[visit].code
<1>1. /\ at = "resync" /\ visit > 0 /\ visit' = visit - 1 /\ opt' = opt /\ row' = row
      /\ Resync(code, Flagged, o, crawled, made, forum)
      /\ IF last'.ret = "E_OK" THEN UNCHANGED <<at, status>>
                               ELSE at' = "logout" /\ status' = "failure"
  BY DEF ResyncNext
<1>2. /\ status = "none" /\ logged /\ session
      /\ Current(courses, flags, current, context)
      /\ Crawled(courses, visit, offered \cap WithMaterial, synced)
  BY <1>1 DEF Sync, Working
<1>3. PICK page \in Pages : courses = Loaded(page) /\ offered = Linked(page)
  BY <1>1 DEF Sync, Working
<1>4. Kept /\ courses \in Seq(Rows) /\ visit \in 1..Len(courses) /\ Len(courses) \in Nat
  <2>1. Kept /\ courses \in Seq(Rows) /\ visit \in 0..Len(courses)
    BY DEF Typed, Kept, Lists
  <2> QED
    BY <1>1, <2>1
<1>5. Known(code)
  BY <1>4 DEF Known
<1>6. UNCHANGED <<session, logged, courses, taken, offered>>
  BY <1>1 DEF Resync
<1>7. "FILE" \in Flagged
  BY DEF Flagged
<1> HIDE DEF code
<1>8. last'.ret = "E_OK" =>
        /\ Current(courses, flags', current', context')
        /\ synced \subseteq synced'
        /\ \A c \in offered \cap WithMaterial : c[2] = code => c \in synced'
  BY <1>1, <1>2, <1>3, <1>4, <1>5, <1>7, ResyncWorks
<1>9. BeforeLogin' /\ Done'
  BY <1>1, <1>2 DEF BeforeLogin, Done, Prompting
<1>10. ResyncedIfOK'
  <2>1. last'.arg = code
    BY <1>1 DEF Resync, Returns
  <2>2. WithMaterial' = WithMaterial
    BY DEF WithMaterial
  <2> QED
    BY <1>6, <1>8, <2>1 DEF ResyncedIfOK
<1>11. Settled'
  <2>1. row = Len(Table) + 1
        /\ \A j \in 1..row - 1 : opt.value[Table[j]] # "none" => Table[j] \in taken
    BY <1>1 DEF Sync, Settled
  <2>2. at' \in {"resync", "logout"}
    BY <1>1
  <2> QED
    BY <1>1, <1>6, <2>1, <2>2 DEF Settled, Prompting
<1>12. Working'
  <2> SUFFICES ASSUME at' = "resync" PROVE Working'
    BY DEF Working
  <2>1. last'.ret = "E_OK" /\ status' = "none"
    BY <1>1, <1>2
  <2>2. Current(courses', flags', current', context')
    BY <1>6, <1>8, <2>1
  <2>3. Crawled(courses', visit', offered' \cap WithMaterial, synced')
    <3> SUFFICES ASSUME NEW i \in visit' + 1..Len(courses),
                        NEW c \in offered \cap WithMaterial, courses[i].code = c[2]
                 PROVE  c \in synced'
      BY <1>6 DEF Crawled
    <3>1. i \in visit..Len(courses)
      BY <1>1, <1>4
    <3>2. CASE i = visit
      <4>1. c[2] = code
        BY <3>2 DEF code
      <4> QED
        BY <1>8, <2>1, <4>1
    <3>3. CASE i # visit
      <4>1. i \in visit + 1..Len(courses)
        BY <1>4, <3>1, <3>3
      <4> QED
        BY <1>2, <1>8, <2>1, <4>1 DEF Crawled
    <3> QED
      BY <3>2, <3>3
  <2> QED
    BY <1>2, <1>3, <1>6, <2>1, <2>2, <2>3 DEF Working
<1> QED
  BY <1>9, <1>10, <1>11, <1>12 DEF Sync

\* The program reports success when every course is behind it.
LEMMA NewsSync ==
    ASSUME Sync, Typed, NEW o, AskNews(o)
    PROVE  Sync'
<1>1. /\ at = "resync" /\ visit = 0 /\ at' = "logout" /\ opt' = opt /\ row' = row /\ News(o)
  BY DEF AskNews
<1>2. UNCHANGED <<courses, taken, offered, synced>> /\ last'.call = "news"
  BY <1>1 DEF News, Result, client, history
<1>3. PICK page \in Pages : courses = Loaded(page) /\ offered = Linked(page)
  BY <1>1 DEF Sync, Working
<1>4. Crawled(courses, 0, offered \cap WithMaterial, synced)
  BY <1>1 DEF Sync, Working
<1>5. offered \cap WithMaterial \subseteq synced
  <2> SUFFICES ASSUME NEW c \in offered \cap WithMaterial PROVE c \in synced
    OBVIOUS
  <2>1. PICK i \in DOMAIN courses : courses[i].code = c[2]
    BY <1>3, LinkedHasEntry
  <2>2. i \in 0 + 1..Len(courses)
    BY DEF Typed, Kept, Lists
  <2> QED
    BY <1>4, <2>1, <2>2 DEF Crawled
<1>6. BeforeLogin' /\ Working' /\ Done' /\ ResyncedIfOK'
  <2>1. BeforeLogin' /\ Working'
    BY <1>1 DEF BeforeLogin, Working, Prompting
  <2>2. ResyncedIfOK'
    BY <1>2 DEF ResyncedIfOK
  <2>3. Done'
    BY <1>1, <1>2, <1>5 DEF Done
  <2> QED
    BY <2>1, <2>2, <2>3
<1>7. Settled'
  <2>1. row = Len(Table) + 1
        /\ \A j \in 1..row - 1 : opt.value[Table[j]] # "none" => Table[j] \in taken
    BY <1>1 DEF Sync, Settled
  <2> QED
    BY <1>1, <1>2, <2>1 DEF Settled, Prompting
<1> QED
  BY <1>6, <1>7 DEF Sync

\* What comes after is nothing to it.
LEMMA EndSync ==
    ASSUME Sync, Typed, (\E o \in Outcomes : LogOff(o) \/ Destroy(o)) \/ Interrupt \/ UNCHANGED suckVars
    PROVE  Sync'
<1>1. CASE UNCHANGED suckVars
  BY <1>1 DEF suckVars, vars, Sync, BeforeLogin, Settled, Working, Done, ResyncedIfOK
<1>2. CASE Interrupt
  <2>1. UNCHANGED vars /\ at' = "exit" /\ status' = "interrupted"
    BY <1>2 DEF Interrupt
  <2>2. BeforeLogin' /\ Settled' /\ Working' /\ Done'
    BY <2>1 DEF BeforeLogin, Settled, Working, Done, Prompting
  <2>3. ResyncedIfOK'
    BY <2>1 DEF vars, Sync, ResyncedIfOK
  <2> QED
    BY <2>2, <2>3 DEF Sync
<1>3. ASSUME NEW o, LogOff(o) \/ Destroy(o)
      PROVE  Sync'
  <2>1. /\ at \in {"logout", "destroy"} /\ at' \in {"destroy", "exit"}
        /\ opt' = opt /\ row' = row /\ status' = status
        /\ Logout(o) \/ UNCHANGED vars
    BY <1>3 DEF LogOff, Destroy
  <2>2. UNCHANGED <<courses, taken, offered, synced>>
    BY <2>1 DEF Logout, client, history, vars
  <2>3. ResyncedIfOK'
    <3>1. CASE UNCHANGED vars
      BY <3>1 DEF vars, Sync, ResyncedIfOK
    <3>2. CASE Logout(o)
      <4>1. last'.call = "logout"
        BY <3>2 DEF Logout, Result
      <4> QED
        BY <4>1 DEF ResyncedIfOK
    <3> QED
      BY <2>1, <3>1, <3>2
  <2>4. BeforeLogin' /\ Working'
    BY <2>1 DEF BeforeLogin, Working, Prompting
  <2>5. Done'
    BY <2>1, <2>2 DEF Sync, Done
  <2>6. Settled'
    BY <2>1, <2>2 DEF Sync, Settled, Prompting
  <2> QED
    BY <2>3, <2>4, <2>5, <2>6 DEF Sync
<1> QED
  BY <1>1, <1>2, <1>3

LEMMA SyncStep ==
    ASSUME Sync, Typed, [SuckNext]_suckVars
    PROVE  Sync'
BY PromptSync, ConfigureSync, LoginSync, ResyncSync, NewsSync, EndSync DEF SuckNext, Advance

LEMMA SyncAlways == SuckSpec => [](Sync /\ Typed)
<1>1. SuckInit => Sync /\ Typed
  BY InitSync, InitTyped
<1>2. (Sync /\ Typed) /\ [SuckNext]_suckVars => (Sync /\ Typed)'
  BY SyncStep, TypedStep
<1> QED
  BY <1>1, <1>2, PTL DEF SuckSpec

\* As the program calls it, iol_resync returns E_OK for the files of a course only
\* if it crawled them in the session it opened: main.c never logs in twice, and
\* ends at the first failure.  (A caller that does may be told otherwise.)
THEOREM ResyncTellsTheTruth == SuckSpec => []ResyncedIfOK
<1>1. Sync /\ Typed => ResyncedIfOK
  BY DEF Sync
<1> QED
  BY <1>1, SyncAlways, PTL

\* Every setting is a row of the table.
LEMMA TableIsComplete ==
    ASSUME NEW s \in SettingNames
    PROVE  \E j \in 1..Len(Table) : Table[j] = s
BY DEF SettingNames, MayBeRefused, Stored, Table

\* The program ends with success only if it has taken every setting it was given
\* and has crawled all that it was offered in its session.  (suck, foreach_resync)
THEOREM SuccessIsEarned == SuckSpec => []SuccessMeansSynced
<1>1. Sync /\ Typed => SuccessMeansSynced
  <2> SUFFICES ASSUME Sync, Typed, at = "exit", status = "success"
               PROVE  /\ {s \in SettingNames : opt.value[s] # "none"} \subseteq taken
                      /\ offered \cap WithMaterial \subseteq synced
    BY DEF SuccessMeansSynced
  <2>1. offered \cap WithMaterial \subseteq synced
    BY DEF Sync, Done
  <2>2. ASSUME NEW s \in SettingNames, opt.value[s] # "none"
        PROVE  s \in taken
    <3>1. row = Len(Table) + 1
          /\ \A j \in 1..row - 1 : opt.value[Table[j]] # "none" => Table[j] \in taken
      BY DEF Sync, Settled
    <3>2. PICK j \in 1..Len(Table) : Table[j] = s
      BY TableIsComplete
    <3>3. j \in 1..row - 1
      <4>1. Len(Table) = 13
        BY DEF Table
      <4> QED
        BY <3>1, <4>1
    <3> QED
      BY <2>2, <3>1, <3>2, <3>3
  <2> QED
    BY <2>1, <2>2
<1> QED
  BY <1>1, SyncAlways, PTL
=============================================================================
