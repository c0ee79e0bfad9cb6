--------------------------- MODULE SelectionProofs --------------------------
(***************************************************************************)
(* What SelectIn gives, for every sequence and set: by induction, which    *)
(* the library states for operators and this module for sets, that the     *)
(* provers can instantiate.                                                *)
(***************************************************************************)
EXTENDS Selection, Integers, SequencesExt, NaturalsInduction, WellFoundedInduction, TLAPS

\* A set of naturals has a least one.
LEMMA Least ==
    ASSUME NEW T \in SUBSET Nat, T # {}
    PROVE  \E x \in T : \A y \in T : x <= y
<1>1. \E x \in T : \A y \in T : ~ (<<y, x>> \in OpToRel(<, Nat))
  BY NatLessThanWellFounded, WFMin
<1>2. PICK x \in T : \A y \in T : ~ (<<y, x>> \in OpToRel(<, Nat))
  BY <1>1
<1>3. \A y \in T : ~ (y < x)
  BY <1>2 DEF OpToRel
<1> QED
  BY <1>3

\* A bounded one has a greatest.
LEMMA Greatest ==
    ASSUME NEW n \in Nat, NEW T \in SUBSET (0..n), T # {}
    PROVE  \E x \in T : \A y \in T : x >= y
<1> DEFINE U == {n - x : x \in T}
<1>1. U \in SUBSET Nat /\ U # {}
  <2>1. PICK x \in T : TRUE
    OBVIOUS
  <2>2. n - x \in U
    BY <2>1
  <2> QED
    BY <2>2
<1>2. PICK u \in U : \A v \in U : u <= v
  BY <1>1, Least
<1>3. PICK x \in T : u = n - x
  BY <1>2
<1>4. \A y \in T : n - y \in U
  OBVIOUS
<1>5. \A y \in T : n - x <= n - y
  BY <1>2, <1>3, <1>4
<1> QED
  BY <1>3, <1>5

\* A set that holds 0, and with each number the next one, holds them all.
LEMMA InductionSet ==
    ASSUME NEW T \in SUBSET Nat, 0 \in T, \A n \in T : n + 1 \in T
    PROVE  T = Nat
<1> SUFFICES ASSUME Nat \ T # {}
             PROVE  FALSE
  OBVIOUS
<1>1. PICK x \in Nat \ T : \A y \in Nat \ T : x <= y
  BY Least
<1>2. x - 1 \in Nat
  BY <1>1
<1>3. x - 1 \in T
  BY <1>1, <1>2
<1> QED
  BY <1>1, <1>2, <1>3

LEMMA ToSetAppend ==
    ASSUME NEW X, NEW t \in Seq(X), NEW e \in X
    PROVE  ToSet(Append(t, e)) = ToSet(t) \cup {e}
<1> DEFINE u == Append(t, e)
<1>1. /\ DOMAIN u = 1..Len(t) + 1 /\ DOMAIN t = 1..Len(t) /\ Len(t) \in Nat
      /\ \A i \in 1..Len(t) : u[i] = t[i]
      /\ u[Len(t) + 1] = e
  OBVIOUS
<1> HIDE DEF u
<1>2. ASSUME NEW i \in 1..Len(t) + 1
      PROVE  u[i] \in ToSet(t) \cup {e}
  <2>1. CASE i = Len(t) + 1
    BY <1>1, <2>1
  <2>2. CASE i \in 1..Len(t)
    BY <1>1, <2>2 DEF ToSet
  <2> QED
    BY <1>1, <2>1, <2>2
<1>3. ASSUME NEW i \in 1..Len(t)
      PROVE  t[i] \in ToSet(u)
  BY <1>1 DEF ToSet
<1>4. e \in ToSet(u)
  BY <1>1 DEF ToSet
<1>5. ToSet(u) \subseteq ToSet(t) \cup {e}
  BY <1>1, <1>2 DEF ToSet
<1>6. ToSet(t) \subseteq ToSet(u)
  BY <1>1, <1>3 DEF ToSet
<1> QED
  BY <1>4, <1>5, <1>6 DEF u

THEOREM SelectInSelects ==
    ASSUME NEW X, NEW s \in Seq(X), NEW S
    PROVE  /\ SelectIn(s, S) \in Seq(X \cap S)
           /\ ToSet(SelectIn(s, S)) = ToSet(s) \cap S
<1> DEFINE N == Len(s)
           Out == Seq(X \cap S)
           Next(f, n) == IF n = 0 THEN <<>>
                         ELSE IF s[n] \in S THEN Append(f[n - 1], s[n])
                         ELSE f[n - 1]
           Defined(f, m) == f \in [0..m -> Out] /\ \A n \in 0..m : f[n] = Next(f, n)
           upTo == CHOOSE f : f = [n \in 0..N |-> Next(f, n)]
<1>1. SelectIn(s, S) = upTo[N]
  BY DEF SelectIn
<1>2. N \in Nat /\ \A n \in 1..N : s[n] \in X
  OBVIOUS
<1> HIDE DEF N
<1>3. \E f : Defined(f, N)
  <2> DEFINE Upto(m) == m <= N => \E f : Defined(f, m)
             T == {m \in Nat : Upto(m)}
  <2>1. Upto(0)
    <3>1. <<>> \in Out
      OBVIOUS
    <3>2. Defined([n \in 0..0 |-> <<>>], 0)
      BY <3>1
    <3> QED
      BY <3>2
  <2>2. ASSUME NEW m \in Nat, Upto(m), m + 1 <= N
        PROVE  \E g : Defined(g, m + 1)
    <3> HIDE DEF Defined
    <3>1. PICK f : Defined(f, m)
      BY <1>2, <2>2
    <3> USE DEF Defined
    <3> DEFINE last == Next(f, m + 1)
               g == [n \in 0..m + 1 |-> IF n = m + 1 THEN last ELSE f[n]]
    <3>2. f[m] \in Out
      BY <3>1
    <3>10. s[m + 1] \in X
      BY <1>2, <2>2
    <3>3. last \in Out
      <4>1. CASE s[m + 1] \in S
        <5>1. last = Append(f[m], s[m + 1])
          BY <4>1
        <5> QED
          BY <3>2, <3>10, <4>1, <5>1
      <4>2. CASE s[m + 1] \notin S
        BY <3>2, <4>2
      <4> QED
        BY <4>1, <4>2
    <3> HIDE DEF last, Out
    <3>4. g \in [0..m + 1 -> Out]
      BY <3>1, <3>3
    <3>5. \A n \in 0..m : g[n] = f[n]
      OBVIOUS
    <3>6. Next(g, m + 1) = last
      BY <3>5 DEF last
    <3>7. \A n \in 0..m : Next(g, n) = f[n]
      <4> TAKE n \in 0..m
      <4>1. f[n] = Next(f, n)
        BY <3>1
      <4>2. n # 0 => g[n - 1] = f[n - 1]
        BY <3>5
      <4> QED
        BY <4>1, <4>2
    <3>8. g[m + 1] = last
      OBVIOUS
    <3> HIDE DEF g
    <3>9. \A n \in 0..m + 1 : g[n] = Next(g, n)
      <4> TAKE n \in 0..m + 1
      <4>1. CASE n = m + 1
        BY <3>6, <3>8, <4>1
      <4>2. CASE n # m + 1
        <5>1. n \in 0..m
          BY <4>2
        <5> QED
          BY <3>5, <3>7, <5>1
      <4> QED
        BY <4>1, <4>2
    <3> QED
      BY <3>4, <3>9
  <2>3. \A m \in T : m + 1 \in T
    <3> HIDE DEF Defined
    <3> QED
      BY <2>2
  <2>4. T = Nat
    <3>1. T \in SUBSET Nat /\ 0 \in T
      BY <2>1
    <3> HIDE DEF T
    <3> QED
      BY <2>3, <3>1, InductionSet
  <2>5. Upto(N)
    <3> HIDE DEF Upto
    <3> QED
      BY <1>2, <2>4
  <2> HIDE DEF Defined
  <2> QED
    BY <1>2, <2>5
<1>4. upTo = [n \in 0..N |-> Next(upTo, n)]
  <2> HIDE DEF Defined
  <2>1. PICK f : Defined(f, N)
    BY <1>3
  <2> USE DEF Defined
  <2>2. f = [n \in 0..N |-> Next(f, n)]
    BY <2>1
  <2> QED
    BY <2>2
<1> HIDE DEF upTo
<1> DEFINE Good(m) == upTo[m] \in Out /\ ToSet(upTo[m]) = {s[i] : i \in 1..m} \cap S
<1>5. Good(0)
  <2>1. upTo[0] = <<>>
    BY <1>2, <1>4
  <2>2. ToSet(<<>>) = {}
    BY DEF ToSet
  <2>3. <<>> \in Out
    OBVIOUS
  <2> QED
    BY <2>1, <2>2, <2>3
<1>6. ASSUME NEW m \in Nat, m + 1 <= N, Good(m)
      PROVE  Good(m + 1)
  <2>1. upTo[m] \in Out /\ ToSet(upTo[m]) = {s[i] : i \in 1..m} \cap S
    BY <1>6
  <2>2. s[m + 1] \in X /\ m + 1 \in 0..N /\ m + 1 # 0 /\ m + 1 - 1 = m
    BY <1>2, <1>6
  <2>3. upTo[m + 1] = Next(upTo, m + 1)
    BY <1>4, <2>2
  <2>4. {s[i] : i \in 1..m + 1} = {s[i] : i \in 1..m} \cup {s[m + 1]}
    OBVIOUS
  <2>5. CASE s[m + 1] \in S
    <3>1. upTo[m + 1] = Append(upTo[m], s[m + 1])
      BY <2>2, <2>3, <2>5
    <3>2. s[m + 1] \in X \cap S
      BY <2>2, <2>5
    <3>3. ToSet(upTo[m + 1]) = ToSet(upTo[m]) \cup {s[m + 1]}
      <4> DEFINE t == upTo[m]
                 Y == X \cap S
      <4>1. t \in Seq(Y) /\ s[m + 1] \in Y
        BY <2>1, <3>2
      <4> HIDE DEF t, Y
      <4>2. ToSet(Append(t, s[m + 1])) = ToSet(t) \cup {s[m + 1]}
        BY <4>1, ToSetAppend
      <4> QED
        BY <3>1, <4>2 DEF t
    <3>4. upTo[m + 1] \in Out
      BY <2>1, <3>1, <3>2
    <3> QED
      BY <2>1, <2>4, <2>5, <3>3, <3>4
  <2>6. CASE s[m + 1] \notin S
    <3>1. upTo[m + 1] = upTo[m]
      BY <2>2, <2>3, <2>6
    <3> QED
      BY <2>1, <2>4, <2>6, <3>1
  <2> QED
    BY <2>5, <2>6
<1>7. Good(N)
  <2> HIDE DEF Good
  <2> DEFINE T == {m \in Nat : m <= N => Good(m)}
  <2>1. T \in SUBSET Nat /\ 0 \in T /\ \A m \in T : m + 1 \in T
    BY <1>2, <1>5, <1>6
  <2>2. N \in T
    <3> HIDE DEF T
    <3> QED
      BY <1>2, <2>1, InductionSet
  <2> QED
    BY <1>2, <2>2
<1>8. ToSet(s) = {s[i] : i \in 1..N}
  BY DEF ToSet, N
<1> QED
  BY <1>1, <1>7, <1>8
=============================================================================
