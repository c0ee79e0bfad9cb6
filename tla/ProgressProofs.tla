--------------------------- MODULE ProgressProofs ---------------------------
(***************************************************************************)
(* Proofs about Progress, for dots and rows of any size and for any        *)
(* callbacks: the dots account for the bytes (DotsAccount), the speeds are *)
(* those of all the bytes (SpeedsCover), and the bar shows no more than    *)
(* there is (NeverBeyond) and in the end all of it (LastImageTells).       *)
(*                                                                         *)
(* What is inductive is the account at every moment, also between two dots *)
(* (Account), with the speeds printed so far those of the rows.            *)
(***************************************************************************)
EXTENDS Progress, SelectionProofs

Types ==
    /\ meter \in Meters
    /\ pc \in {"none", "waiting", "create", "update", "dots", "finished"}
    /\ call \in [total : Nat, now : Nat, time : Nat]
    /\ data \in BOOLEAN
    /\ dllast \in Nat /\ total_length \in Nat /\ rated \in Nat
    /\ dot \in [rows : Nat, dots : Nat, accumulated : Nat]
    /\ bar.count \in Nat
    /\ bar \in [count : Nat, last_update : Nat, width : Int, buffer : Int]
    /\ screen_width \in Nat

\* Where a callback and a meter are.
Phase ==
    /\ ~data => dllast = 0 /\ rated = 0
    /\ pc \in {"create", "update"} => dllast <= call.now
    /\ pc = "create" => ~data
    /\ pc \in {"update", "dots"} => data
    /\ pc = "dots" => meter = "dot"

Account ==
    data /\ meter = "dot" =>
        /\ dot.rows * RowBytes + dot.dots * DOT_BYTES + dot.accumulated = dllast
        /\ dot.dots < DOTS_IN_LINE
        /\ pc \in {"waiting", "update"} => dot.accumulated < DOT_BYTES
        /\ pc # "finished" => rated = dot.rows * RowBytes
        /\ pc = "finished" => rated = dllast

BarCount == data /\ meter = "bar" => bar.count = dllast

IInv == Types /\ Phase /\ Account /\ BarCount /\ NeverBeyond /\ LastImageTells

-----------------------------------------------------------------------------
(* The operators.                                                          *)

LEMMA RowBytesType == RowBytes \in Nat
BY ConstantsAssumption DEF RowBytes

\* A share of a part is at most the whole.
LEMMA ShareBound ==
    ASSUME NEW parts \in Nat, NEW total \in Nat \ {0}, NEW n \in 0 .. total
    PROVE  Share(parts, n, total) \in Int /\ Share(parts, n, total) <= parts
<1>1. CASE n = total
  <2>1. n \div total = 1 /\ n % total = 0
    BY <1>1
  <2>2. parts * (n % total) = 0 /\ 0 \div total = 0
    BY <2>1
  <2> QED BY <2>1, <2>2 DEF Share
<1>2. CASE n < total
  <2>1. n \div total = 0 /\ n % total = n
    BY <1>2
  <2>2. parts * n \in Nat /\ parts * n <= parts * total
    BY <1>2
  <2>3. (parts * n) \div total \in Int /\ (parts * n) \div total <= parts
    <3> DEFINE q == (parts * n) \div total
    <3>1. q \in Int /\ q * total <= parts * n
      BY <2>2
    <3>2. q * total <= parts * total
      BY <2>2, <3>1
    <3> QED BY <3>1, <3>2
  <2> QED BY <2>1, <2>3 DEF Share
<1> QED BY <1>1, <1>2

\* An image of no more than the total is not beyond it.
LEMMA ImageSound ==
    ASSUME NEW width, NEW buffer, NEW total \in Nat, NEW size \in Nat,
           total > 0 => size <= total
    PROVE  /\ Image(width, buffer, total, size).percentage <= 100
           /\ Image(width, buffer, total, size).size = size
<1> DEFINE i == Image(width, buffer, total, size)
<1>1. i.percentage = IF total > 0 THEN Share(100, size, total) ELSE 0
  BY DEF Image
<1>2. i.size = size
  BY DEF Image
<1> QED BY <1>1, <1>2, ShareBound

\* What a transfer has received is not beyond the corrected total.
LEMMA CorrectedBound ==
    ASSUME NEW total \in Nat, NEW size \in Nat
    PROVE  /\ Corrected(total, size) \in Nat
           /\ Corrected(total, size) > 0 => size <= Corrected(total, size)
BY DEF Corrected

-----------------------------------------------------------------------------
(* The steps.                                                              *)

LEMMA InitIInv == Init => IInv
<1> SUFFICES ASSUME Init PROVE IInv
  OBVIOUS
<1>1. Types
  <2>1. NoCall \in [total : Nat, now : Nat, time : Nat]
    BY DEF NoCall
  <2>2. NoDots \in [rows : Nat, dots : Nat, accumulated : Nat]
    BY DEF NoDots
  <2>3. /\ NoBar \in [count : Nat, last_update : Nat, width : Int, buffer : Int]
        /\ NoBar.count = 0
    BY DEF NoBar
  <2> QED BY <2>1, <2>2, <2>3 DEF Init, Types, DEFAULT_SCREEN_WIDTH
<1> QED BY <1>1 DEF Init, IInv, Phase, Account, BarCount, NeverBeyond,
                    LastImageTells

LEMMA NewIInv == ASSUME IInv, New PROVE IInv'
<1>1. Types'
  BY DEF New, IInv, Types, NoCall
<1> QED BY <1>1 DEF New, IInv, Phase, Account, BarCount, NeverBeyond,
                    LastImageTells

LEMMA CallbackIInv ==
    ASSUME IInv, NEW total \in Totals[meter], NEW now \in Sizes[meter],
           NEW time \in Times, Callback(total, now, time)
    PROVE  IInv'
<1>1. total \in Nat /\ now \in Nat /\ time \in Nat
  BY ConstantsAssumption DEF IInv, Types
<1>2. Types'
  BY <1>1 DEF Callback, IInv, Types
<1>3. Phase'
  BY DEF Callback, IInv, Phase, Types
<1>4. Account'
  BY DEF Callback, IInv, Account
<1> QED BY <1>2, <1>3, <1>4
        DEF Callback, IInv, BarCount, NeverBeyond, LastImageTells

LEMMA CreateIInv == ASSUME IInv, Create PROVE IInv'
<1>1. /\ pc = "create" /\ pc' = "update" /\ data' = TRUE /\ dllast = 0
      /\ rated = 0 /\ UNCHANGED <<meter, call, dllast, rated>>
      /\ dllast <= call.now
      /\ call.total \in Nat
  BY DEF Create, IInv, Phase, Types
<1>2. screen_width' \in Nat
  BY ConstantsAssumption DEF Create, SetParams, DEFAULT_SCREEN_WIDTH
<1>3. CASE meter = "dot" /\ dot' = NoDots /\ UNCHANGED <<bar, image>>
  <2>1. Types'
    BY <1>1, <1>2, <1>3 DEF Create, IInv, Types, NoDots
  <2>2. Account'
    BY <1>1, <1>3, RowBytesType, ConstantsAssumption DEF Account, NoDots
  <2> QED BY <1>1, <1>3, <2>1, <2>2
          DEF IInv, Phase, BarCount, NeverBeyond, LastImageTells
<1>4. CASE /\ meter = "bar"
           /\ bar' = [count |-> 0, last_update |-> 0,
                      width |-> screen_width - 1, buffer |-> screen_width]
           /\ image' = Image(bar'.width, bar'.buffer, call.total, 0)
           /\ UNCHANGED dot
  <2>1. /\ bar'.count = 0
        /\ bar' \in [count : Nat, last_update : Nat, width : Int, buffer : Int]
    BY <1>4 DEF IInv, Types
  <2>2. Types'
    BY <1>1, <1>2, <1>4, <2>1 DEF Create, IInv, Types
  <2>3. image'.percentage <= 100
    BY <1>1, <1>4, ImageSound
  <2> QED BY <1>1, <1>4, <2>1, <2>2, <2>3
          DEF IInv, Phase, Account, BarCount, NeverBeyond, LastImageTells
<1> QED BY <1>3, <1>4 DEF Create

LEMMA DotUpdateIInv == ASSUME IInv, DotUpdate PROVE IInv'
<1>1. /\ data /\ dllast \in Nat /\ call.now \in Nat /\ call.total \in Nat
      /\ dllast <= call.now
      /\ dot.rows \in Nat /\ dot.dots \in Nat /\ dot.accumulated \in Nat
  BY DEF DotUpdate, IInv, Types, Phase
<1>2. /\ dot'.rows = dot.rows /\ dot'.dots = dot.dots
      /\ dot'.accumulated = dot.accumulated + (call.now - dllast)
      /\ dot' \in [rows : Nat, dots : Nat, accumulated : Nat]
  BY <1>1 DEF DotUpdate, IInv, Types
<1>3. Types'
  BY <1>1, <1>2 DEF DotUpdate, IInv, Types
<1>4. Account'
  <2>1. /\ dot.rows * RowBytes \in Nat /\ dot.dots * DOT_BYTES \in Nat
    BY <1>1, RowBytesType, ConstantsAssumption
  <2> QED BY <1>1, <1>2, <2>1 DEF DotUpdate, IInv, Account
<1> QED BY <1>1, <1>3, <1>4
        DEF DotUpdate, IInv, Phase, BarCount, NeverBeyond, LastImageTells

LEMMA PrintDotIInv == ASSUME IInv, PrintDot PROVE IInv'
<1>1. /\ data /\ meter = "dot" /\ pc = "dots"
      /\ dot.rows \in Nat /\ dot.dots \in Nat /\ dot.accumulated \in Nat
      /\ dot.accumulated - DOT_BYTES \in Nat
      /\ dot \in [rows : Nat, dots : Nat, accumulated : Nat]
      /\ dot.dots < DOTS_IN_LINE
      /\ dot.rows * RowBytes + dot.dots * DOT_BYTES + dot.accumulated = dllast
      /\ rated = dot.rows * RowBytes /\ rated \in Nat
      /\ UNCHANGED <<meter, pc, call, data, dllast, total_length, bar,
                     screen_width, image>>
  BY ConstantsAssumption DEF PrintDot, IInv, Types, Phase, Account
<1>2. CASE /\ dot.dots + 1 < DOTS_IN_LINE
           /\ dot' = [rows |-> dot.rows, dots |-> dot.dots + 1,
                      accumulated |-> dot.accumulated - DOT_BYTES]
           /\ rated' = rated
  <2>1. /\ dot'.rows = dot.rows /\ dot'.dots = dot.dots + 1
        /\ dot'.accumulated = dot.accumulated - DOT_BYTES
        /\ dot' \in [rows : Nat, dots : Nat, accumulated : Nat]
    BY <1>1, <1>2
  <2>2. Types'
    BY <1>1, <1>2, <2>1 DEF IInv, Types
  <2>3. (dot.dots + 1) * DOT_BYTES = dot.dots * DOT_BYTES + DOT_BYTES
    BY <1>1, ConstantsAssumption
  <2>4. dot.dots * DOT_BYTES \in Nat /\ DOT_BYTES \in Nat /\ DOTS_IN_LINE \in Nat
    BY <1>1, ConstantsAssumption
  <2>5. Account'
    BY <1>1, <1>2, <2>1, <2>3, <2>4 DEF Account, RowBytes
  <2> QED BY <1>1, <2>2, <2>5
          DEF IInv, Phase, BarCount, NeverBeyond, LastImageTells
<1>3. CASE /\ dot.dots + 1 >= DOTS_IN_LINE
           /\ dot' = [rows |-> dot.rows + 1, dots |-> 0,
                      accumulated |-> dot.accumulated - DOT_BYTES]
           /\ rated' = rated + RowBytes
  <2>1. /\ dot'.rows = dot.rows + 1 /\ dot'.dots = 0
        /\ dot'.accumulated = dot.accumulated - DOT_BYTES
        /\ dot' \in [rows : Nat, dots : Nat, accumulated : Nat]
    BY <1>1, <1>3
  <2>2. Types'
    BY <1>1, <1>3, <2>1, RowBytesType DEF IInv, Types
  <2>3. (dot.rows + 1) * RowBytes = dot.rows * RowBytes + RowBytes
    BY <1>1, RowBytesType
  <2>4. dot.dots + 1 = DOTS_IN_LINE
    BY <1>1, <1>3, ConstantsAssumption
  <2>5. RowBytes = dot.dots * DOT_BYTES + DOT_BYTES
    <3>1. \A b, d \in Nat : b * (d + 1) = d * b + b
      OBVIOUS
    <3>2. DOT_BYTES * (dot.dots + 1) = dot.dots * DOT_BYTES + DOT_BYTES
      BY <1>1, <3>1, ConstantsAssumption
    <3> QED BY <2>4, <3>2 DEF RowBytes
  <2>6. Account'
    <3>1. /\ dot.dots * DOT_BYTES \in Nat /\ DOT_BYTES \in Nat
          /\ dot.rows * RowBytes \in Nat /\ 0 * DOT_BYTES = 0
          /\ 0 < DOTS_IN_LINE
      BY <1>1, RowBytesType, ConstantsAssumption
    <3>2. dot'.rows * RowBytes' + dot'.dots * DOT_BYTES + dot'.accumulated = dllast'
      BY <1>1, <2>1, <2>3, <2>5, <3>1, RowBytesType DEF RowBytes
    <3>3. rated' = dot'.rows * RowBytes'
      BY <1>1, <1>3, <2>1, <2>3 DEF RowBytes
    <3> QED BY <1>1, <2>1, <3>1, <3>2, <3>3 DEF Account
  <2> QED BY <1>1, <2>2, <2>6
          DEF IInv, Phase, BarCount, NeverBeyond, LastImageTells
<1> QED BY <1>2, <1>3 DEF PrintDot

LEMMA DotUpdatedIInv == ASSUME IInv, DotUpdated PROVE IInv'
<1>1. Types'
  BY DEF DotUpdated, IInv, Types
<1> QED BY <1>1 DEF DotUpdated, IInv, Phase, Account, BarCount, NeverBeyond,
                    LastImageTells, RowBytes

LEMMA DotFinishIInv == ASSUME IInv, DotFinish PROVE IInv'
<1>1. /\ rated \in Nat /\ dot.dots * DOT_BYTES \in Nat
      /\ dot.accumulated \in Nat
  BY ConstantsAssumption DEF IInv, Types
<1>2. Types'
  BY <1>1 DEF DotFinish, IInv, Types
<1>3. Account'
  BY <1>1 DEF DotFinish, IInv, Account, RowBytes
<1> QED BY <1>2, <1>3
        DEF DotFinish, IInv, Phase, BarCount, NeverBeyond, LastImageTells

LEMMA BarUpdateIInv == ASSUME IInv, BarUpdate PROVE IInv'
<1> DEFINE count == bar.count + (call.now - dllast)
           total == Corrected(call.total, count)
<1>1. /\ pc = "update" /\ data /\ dllast <= call.now
      /\ dllast \in Nat /\ call.now \in Nat /\ call.total \in Nat
      /\ call.time \in Nat
      /\ bar.count = dllast
      /\ pc' = "waiting" /\ dllast' = call.now /\ total_length' = total
      /\ UNCHANGED <<meter, call, data, dot, screen_width, rated>>
  BY DEF BarUpdate, IInv, Types, Phase, BarCount
<1>2. count = call.now
  BY <1>1
<1>3. total \in Nat /\ (total > 0 => count <= total)
  BY <1>1, <1>2, CorrectedBound
<1>4. /\ bar'.count = count
      /\ bar' \in [count : Nat, last_update : Nat, width : Int, buffer : Int]
  <2>1. bar.last_update \in Nat /\ bar.buffer \in Int /\ screen_width \in Nat
    BY DEF IInv, Types
  <2> DEFINE w == screen_width - 1
             resized == w # bar.width
             b == IF resized THEN w + 1 ELSE bar.buffer
             t == IF call.time - bar.last_update >= 200 \/ resized
                  THEN call.time ELSE bar.last_update
  <2>2. bar' = [count |-> count, width |-> w, buffer |-> b, last_update |-> t]
    BY DEF BarUpdate
  <2>3. w \in Int /\ b \in Int /\ t \in Nat
    BY <1>1, <2>1
  <2>4. count \in Nat
    BY <1>1, <1>2
  <2> HIDE DEF w, b, t, count
  <2> QED BY <2>2, <2>3, <2>4
<1>5. image' = image \/ image'.percentage <= 100
  <2>1. \A w, b : Image(w, b, total, count).percentage <= 100
    BY <1>1, <1>2, <1>3, ImageSound
  <2> QED BY <2>1 DEF BarUpdate
<1>6. Types'
  BY <1>1, <1>2, <1>3, <1>4 DEF IInv, Types
<1> QED BY <1>1, <1>2, <1>4, <1>5, <1>6
        DEF BarUpdate, IInv, Phase, Account, BarCount, NeverBeyond,
            LastImageTells

LEMMA BarFinishIInv == ASSUME IInv, BarFinish PROVE IInv'
<1>1. /\ bar.count \in Nat /\ total_length \in Nat /\ bar.count = dllast
  BY DEF BarFinish, IInv, Types, BarCount
<1>2. /\ total_length' \in Nat
      /\ total_length' > 0 => bar.count <= total_length'
  BY <1>1, CorrectedBound DEF BarFinish
<1>3. image'.percentage <= 100 /\ image'.size = bar.count
  BY <1>1, <1>2, ImageSound DEF BarFinish
<1>4. Types'
  BY <1>2 DEF BarFinish, IInv, Types
<1> QED BY <1>1, <1>3, <1>4
        DEF BarFinish, IInv, Phase, Account, BarCount, NeverBeyond,
            LastImageTells

LEMMA DiscardIInv == ASSUME IInv, Discard PROVE IInv'
<1>1. Types'
  BY DEF Discard, IInv, Types
<1> QED BY <1>1 DEF Discard, IInv, Phase, Account, BarCount, NeverBeyond,
                    LastImageTells

LEMMA NextIInv == IInv /\ [Next]_vars => IInv'
<1> SUFFICES ASSUME IInv, [Next]_vars PROVE IInv'
  OBVIOUS
<1>1. CASE UNCHANGED vars
  BY <1>1 DEF vars, IInv, Types, Phase, Account, BarCount, NeverBeyond,
              LastImageTells, RowBytes
<1>2. CASE Next
  BY <1>2, NewIInv, CallbackIInv, CreateIInv, DotUpdateIInv, PrintDotIInv,
     DotUpdatedIInv, DotFinishIInv, BarUpdateIInv, BarFinishIInv, DiscardIInv
  DEF Next
<1> QED BY <1>1, <1>2

-----------------------------------------------------------------------------
\* The inductive invariant holds.
THEOREM Invariance == Spec => []IInv
BY InitIInv, NextIInv, PTL DEF Spec

\* Rows, dots and rest add up to the bytes received (progress.c:489-521).
THEOREM DotsAreBytes == Spec => []DotsAccount
<1>1. IInv => DotsAccount
  BY DEF IInv, Account, DotsAccount
<1> QED BY <1>1, Invariance, PTL

\* The speeds of the rows are those of all the bytes (progress.c:505-554).
THEOREM SpeedsAreOfAll == Spec => []SpeedsCover
<1>1. IInv => SpeedsCover
  BY DEF IInv, Account, SpeedsCover
<1> QED BY <1>1, Invariance, PTL

\* No image shows more than the whole, whatever is announced and received
\* (progress.c:629-636, 728).
THEOREM NothingBeyond == Spec => []NeverBeyond
<1>1. IInv => NeverBeyond
  BY DEF IInv
<1> QED BY <1>1, Invariance, PTL

\* The image that stays is that of all the bytes (progress.c:646-679).
THEOREM LastImageOfAll == Spec => []LastImageTells
<1>1. IInv => LastImageTells
  BY DEF IInv
<1> QED BY <1>1, Invariance, PTL

-----------------------------------------------------------------------------
(* The digits of a number.  Digits is a recursive function: that there is  *)
(* one that satisfies its definition is shown from those on 0 .. n, of     *)
(* which there is one for each n, by induction over sets (InductionSet).   *)

\* The equation of Digits, for a function whose domain holds n \div 10.
DigitsOf(f, n) == IF n < 10 THEN 1 ELSE 1 + f[n \div 10]

Counts(f, m) == f \in [0 .. m -> Nat] /\ \A n \in 0 .. m : f[n] = DigitsOf(f, n)

LEMMA Tenth ==
    ASSUME NEW n \in Nat, n >= 10
    PROVE  n \div 10 \in Nat /\ n \div 10 < n
OBVIOUS

\* Two that count agree where both are defined.
LEMMA CountsAgree ==
    ASSUME NEW f, NEW g, NEW m \in Nat, NEW k \in Nat, Counts(f, m), Counts(g, k)
    PROVE  \A n \in Nat : n <= m /\ n <= k => f[n] = g[n]
<1> DEFINE T == {n \in Nat : n <= m /\ n <= k /\ f[n] # g[n]}
<1> SUFFICES ASSUME T # {} PROVE FALSE
  OBVIOUS
<1>1. PICK n \in T : \A y \in T : n <= y
  <2>1. T \in SUBSET Nat
    OBVIOUS
  <2> HIDE DEF T
  <2> QED BY <2>1, Least
<1>2. /\ n \in 0 .. m /\ n \in 0 .. k /\ n \in Nat
      /\ f[n] # g[n]
  OBVIOUS
<1>3. f[n] = DigitsOf(f, n) /\ g[n] = DigitsOf(g, n)
  BY <1>2 DEF Counts
<1>4. n >= 10
  BY <1>2, <1>3 DEF DigitsOf
<1>5. n \div 10 \in Nat /\ n \div 10 < n
  BY <1>2, <1>4, Tenth
<1>6. f[n \div 10] = g[n \div 10]
  <2> DEFINE y == n \div 10
  <2>1. y \in Nat /\ y < n /\ y <= m /\ y <= k
    BY <1>2, <1>5
  <2> HIDE DEF y
  <2>2. y \notin T
    BY <1>1, <1>2, <2>1
  <2>3. f[y] = g[y]
    BY <2>1, <2>2
  <2> QED BY <2>3 DEF y
<1> QED BY <1>2, <1>3, <1>6 DEF DigitsOf

\* For every n there is one that counts up to it.
LEMMA CountsExist == \A n \in Nat : \E f : Counts(f, n)
<1> DEFINE T == {n \in Nat : \E f : Counts(f, n)}
<1>1. 0 \in T
  <2>1. Counts([n \in 0 .. 0 |-> 1], 0)
    BY DEF Counts, DigitsOf
  <2> QED BY <2>1
<1>2. ASSUME NEW m \in T PROVE m + 1 \in T
  <2>1. PICK f : Counts(f, m)
    BY <1>2
  <2> DEFINE last == DigitsOf(f, m + 1)
             g == [n \in 0 .. m + 1 |-> IF n = m + 1 THEN last ELSE f[n]]
  <2>2. m \in Nat
    BY <1>2
  <2>3. m + 1 >= 10 => (m + 1) \div 10 \in 0 .. m
    BY <2>2, Tenth
  <2>4. last \in Nat
    BY <2>1, <2>3 DEF Counts, DigitsOf
  <2> HIDE DEF last
  <2>5. g \in [0 .. m + 1 -> Nat]
    BY <2>1, <2>2, <2>4 DEF Counts
  <2>6. \A n \in 0 .. m : g[n] = f[n]
    BY <2>2
  <2>7. g[m + 1] = last
    BY <2>2
  <2> HIDE DEF g
  <2>8. ASSUME NEW n \in 0 .. m + 1 PROVE g[n] = DigitsOf(g, n)
    <3>1. CASE n = m + 1
      <4>1. DigitsOf(g, m + 1) = DigitsOf(f, m + 1)
        BY <2>2, <2>3, <2>6 DEF DigitsOf
      <4> QED BY <2>7, <3>1, <4>1 DEF last
    <3>2. CASE n # m + 1
      <4>1. n \in 0 .. m /\ n \in Nat
        BY <2>2, <3>2
      <4>2. n >= 10 => n \div 10 \in 0 .. m
        BY <2>2, <4>1, Tenth
      <4>3. f[n] = DigitsOf(f, n)
        BY <2>1, <4>1 DEF Counts
      <4> QED BY <2>6, <4>1, <4>2, <4>3 DEF DigitsOf
    <3> QED BY <3>1, <3>2
  <2>9. Counts(g, m + 1)
    BY <2>5, <2>8 DEF Counts
  <2> QED BY <2>2, <2>9
<1>3. T = Nat
  <2>1. T \in SUBSET Nat
    OBVIOUS
  <2> HIDE DEF T
  <2> QED BY <1>1, <1>2, <2>1, InductionSet
<1> QED BY <1>3

\* Digits is what its definition says.
LEMMA DigitsDefined ==
    /\ Digits \in [Nat -> Nat]
    /\ \A n \in Nat : Digits[n] = IF n < 10 THEN 1 ELSE 1 + Digits[n \div 10]
<1> DEFINE upTo(n) == CHOOSE f : Counts(f, n)
           all == [n \in Nat |-> upTo(n)[n]]
<1>1. \A n \in Nat : Counts(upTo(n), n)
  BY CountsExist
<1> HIDE DEF upTo
<1>2. \A n \in Nat : upTo(n)[n] \in Nat
  BY <1>1 DEF Counts
<1>3. all \in [Nat -> Nat]
  BY <1>2
<1>4. ASSUME NEW n \in Nat PROVE all[n] = DigitsOf(all, n)
  <2>1. Counts(upTo(n), n) /\ n \in 0 .. n
    BY <1>1
  <2>2. upTo(n)[n] = DigitsOf(upTo(n), n)
    BY <2>1 DEF Counts
  <2>3. CASE n < 10
    BY <2>2, <2>3 DEF DigitsOf
  <2>4. CASE n >= 10
    <3> DEFINE y == n \div 10
    <3>1. y \in Nat /\ y <= n /\ y <= y
      BY <2>4, Tenth
    <3> HIDE DEF y
    <3>2. Counts(upTo(y), y)
      BY <1>1, <3>1
    <3>3. upTo(n)[y] = upTo(y)[y]
      BY <2>1, <3>1, <3>2, CountsAgree
    <3>4. all[y] = upTo(n)[y]
      BY <3>1, <3>3
    <3>5. DigitsOf(all, n) = 1 + all[y] /\ DigitsOf(upTo(n), n) = 1 + upTo(n)[y]
      BY <2>4 DEF DigitsOf, y
    <3> QED BY <2>2, <3>4, <3>5
  <2> QED BY <2>3, <2>4
<1>5. all = [n \in Nat |-> IF n < 10 THEN 1 ELSE 1 + all[n \div 10]]
  BY <1>4 DEF DigitsOf
<1>6. Digits = [n \in Nat |-> IF n < 10 THEN 1 ELSE 1 + Digits[n \div 10]]
  <2> HIDE DEF all
  <2> QED BY <1>5 DEF Digits
<1>7. ASSUME NEW n \in Nat PROVE Digits[n] = DigitsOf(Digits, n)
  BY <1>6 DEF DigitsOf
<1>8. \A n \in Nat : Digits[n] \in Nat
  <2> DEFINE T == {n \in Nat : Digits[n] \notin Nat}
  <2> SUFFICES ASSUME T # {} PROVE FALSE
    OBVIOUS
  <2>1. PICK n \in T : \A y \in T : n <= y
    <3>1. T \in SUBSET Nat
      OBVIOUS
    <3> HIDE DEF T
    <3> QED BY <3>1, Least
  <2>2. n \in Nat /\ Digits[n] \notin Nat /\ Digits[n] = DigitsOf(Digits, n)
    BY <1>7
  <2>3. n >= 10
    BY <2>2 DEF DigitsOf
  <2> DEFINE y == n \div 10
  <2>4. y \in Nat /\ y < n /\ Digits[n] = 1 + Digits[y]
    BY <2>2, <2>3, Tenth DEF DigitsOf
  <2> HIDE DEF y
  <2>5. Digits[y] \in Nat
    BY <2>1, <2>4
  <2> QED BY <2>2, <2>4, <2>5
<1> QED BY <1>6, <1>7, <1>8 DEF DigitsOf

\* Ten times as large, one digit more.
LEMMA TenTimes ==
    ASSUME NEW b \in Nat, NEW d \in Nat \ {0}, \A n \in Nat : n < b => Digits[n] <= d
    PROVE  \A n \in Nat : n < 10 * b => Digits[n] <= d + 1
<1> TAKE n \in Nat
<1> HAVE n < 10 * b
<1>1. CASE n < 10
  BY <1>1, DigitsDefined
<1>2. CASE n >= 10
  <2> DEFINE y == n \div 10
  <2>1. y \in Nat /\ y < b
    BY <1>2
  <2>2. Digits[n] = 1 + Digits[y]
    BY <1>2, DigitsDefined
  <2>3. Digits[y] \in Nat
    BY <2>1, DigitsDefined
  <2> HIDE DEF y
  <2> QED BY <2>1, <2>2, <2>3
<1> QED BY <1>1, <1>2

\* Below 10^12, twelve digits and three commas.
LEMMA LegibleBelow ==
    ASSUME NEW n \in Nat, n < 1000000000000
    PROVE  Legible(n) <= 15
<1> DEFINE D(b, d) == \A k \in Nat : k < b => Digits[k] <= d
<1>1. \A b \in Nat, d \in Nat \ {0} : D(b, d) => D(10 * b, d + 1)
  BY TenTimes
<1>2. D(10, 1)
  BY DigitsDefined
<1> HIDE DEF D
<1>3. D(100, 2) /\ D(1000, 3) /\ D(10000, 4)
  <2>1. D(100, 2)
    BY <1>1, <1>2
  <2>2. D(1000, 3)
    BY <1>1, <2>1
  <2> QED BY <1>1, <2>1, <2>2
<1>4. D(100000, 5) /\ D(1000000, 6) /\ D(10000000, 7)
  <2>1. D(100000, 5)
    BY <1>1, <1>3
  <2>2. D(1000000, 6)
    BY <1>1, <2>1
  <2> QED BY <1>1, <2>1, <2>2
<1>5. D(100000000, 8) /\ D(1000000000, 9) /\ D(10000000000, 10)
  <2>1. D(100000000, 8)
    BY <1>1, <1>4
  <2>2. D(1000000000, 9)
    BY <1>1, <2>1
  <2> QED BY <1>1, <2>1, <2>2
<1>6. D(1000000000000, 12)
  <2>1. D(100000000000, 11)
    BY <1>1, <1>5
  <2> QED BY <1>1, <2>1
<1>7. Digits[n] \in Nat /\ Digits[n] <= 12
  BY <1>6, DigitsDefined DEF D
<1>8. \A d \in Nat : d <= 12 => d + (d - 1) \div 3 <= 15
  OBVIOUS
<1> QED BY <1>7, <1>8 DEF Legible

LEMMA LegibleType == ASSUME NEW n \in Nat PROVE Legible(n) \in Nat
<1>1. Digits[n] \in Nat \ {0}
  BY DigitsDefined
<1>2. \A d \in Nat \ {0} : d + (d - 1) \div 3 \in Nat
  OBVIOUS
<1> QED BY <1>1, <1>2 DEF Legible

-----------------------------------------------------------------------------
(* The size of the image.                                                  *)

LEMMA MaxOfTwo ==
    ASSUME NEW a \in Int, NEW b \in Int
    PROVE  Max({a, b}) = IF a >= b THEN a ELSE b
<1> DEFINE m == IF a >= b THEN a ELSE b
<1>1. m \in {a, b} /\ \A y \in {a, b} : m >= y
  OBVIOUS
<1>2. \A x \in {a, b} : (\A y \in {a, b} : x >= y) => x = m
  OBVIOUS
<1> QED BY <1>1, <1>2 DEF Max

LEMMA ShareNat ==
    ASSUME NEW parts \in Nat, NEW total \in Nat \ {0}, NEW n \in Nat
    PROVE  Share(parts, n, total) \in Nat
<1> DEFINE q == n \div total
           r == n % total
<1>1. q \in Nat /\ r \in Nat
  OBVIOUS
<1> HIDE DEF q, r
<1>2. parts * q \in Nat /\ parts * r \in Nat
  BY <1>1
<1>3. (parts * r) \div total \in Nat
  <2> DEFINE z == parts * r
  <2>1. z \in Nat
    BY <1>2
  <2> HIDE DEF z
  <2>2. z \div total \in Nat
    BY <2>1
  <2> QED BY <2>2 DEF z
<1> QED BY <1>2, <1>3 DEF Share, q, r

\* An image drawn with a corrected total on a screen that is wide enough.
LEMMA ImageDrawn ==
    ASSUME NEW width \in Nat, width >= 44, NEW buffer, NEW total \in Nat, NEW size \in Nat,
           total > 0 => size <= total
    PROVE  LET i == Image(width, buffer, total, size)
           IN  /\ i.length \in Nat
               /\ i.dlsz \in Nat /\ i.dlsz <= i.progress_size
               /\ i.width = width /\ i.buffer = buffer
               /\ Legible(size) <= 15 => i.length <= width
<1> DEFINE i == Image(width, buffer, total, size)
           legible == Max({Legible(size), 11})
           rest == width - (4 + 2 + (1 + legible) + 11 + 13)
           bar_size == IF rest < 5 THEN 0 ELSE rest
           dlsz == IF total > 0 THEN Share(bar_size, size, total) ELSE 0
           drawn == IF bar_size = 0 THEN 0 ELSE 2 + Max({dlsz, bar_size})
           length == 4 + drawn + (1 + legible) + 11 + IF total > 0 THEN 13 ELSE 0
<1>1. /\ i.length = length /\ i.dlsz = dlsz /\ i.progress_size = bar_size
      /\ i.width = width /\ i.buffer = buffer
  BY DEF Image
<1>2. legible \in Nat /\ (Legible(size) <= 15 => legible <= 15)
  BY LegibleType, MaxOfTwo
<1> HIDE DEF i, legible
<1>3. bar_size \in Nat
  BY <1>2
<1>4. dlsz \in Nat /\ dlsz <= bar_size
  <2> HIDE DEF bar_size
  <2>1. CASE total > 0
    <3>1. total \in Nat \ {0} /\ size \in 0 .. total
      BY <2>1
    <3> QED BY <1>3, <2>1, <3>1, ShareBound, ShareNat
  <2>2. CASE total = 0
    BY <1>3, <2>2
  <2> QED BY <2>1, <2>2
<1> HIDE DEF dlsz
<1>5. Max({dlsz, bar_size}) = bar_size
  BY <1>3, <1>4, MaxOfTwo
<1>6. drawn = IF bar_size = 0 THEN 0 ELSE 2 + bar_size
  BY <1>5
<1> HIDE DEF drawn
<1>7. length \in Nat /\ (Legible(size) <= 15 => length <= width)
  BY <1>2, <1>3, <1>6
<1> HIDE DEF length, bar_size
<1> QED BY <1>1, <1>4, <1>7 DEF i

\* The screen is wide enough for an image, and a bar in use has a buffer of
\* its own width and one.
Drawing ==
    /\ screen_width >= MINIMUM_SCREEN_WIDTH
    /\ bar.width \in Nat /\ bar.buffer \in Nat
    /\ data /\ meter = "bar" => bar.width >= 44 /\ bar.buffer = bar.width + 1
    /\ image # None =>
         /\ image.length \in Nat /\ image.dlsz \in Nat
         /\ image.width + 1 <= image.buffer
         /\ image.dlsz <= image.progress_size

\* ... and what it is asked to draw is shorter than a terabyte.
Fitting ==
    /\ meter = "bar" => call.now < 1000000000000 /\ dllast < 1000000000000
    /\ image # None => image.length <= image.width

FilesBelowTerabyte == \A n \in Sizes["bar"] : n < 1000000000000

\* The image of a step that draws one.
LEMMA DrawnFits ==
    ASSUME NEW width \in Nat, width >= 44, NEW total \in Nat, NEW size \in Nat,
           total > 0 => size <= total, image' = Image(width, width + 1, total, size)
    PROVE  /\ image'.length \in Nat /\ image'.dlsz \in Nat
           /\ image'.width + 1 <= image'.buffer
           /\ image'.dlsz <= image'.progress_size
           /\ size < 1000000000000 => image'.length <= image'.width
BY ImageDrawn, LegibleBelow

LEMMA InitDrawing == Init => Drawing /\ Fitting
BY DEF Init, Drawing, Fitting, NoBar, NoCall, DEFAULT_SCREEN_WIDTH, MINIMUM_SCREEN_WIDTH

LEMMA NextDrawing ==
    ASSUME IInv, IInv', Drawing, [Next]_vars
    PROVE  /\ Drawing'
           /\ FilesBelowTerabyte /\ Fitting => Fitting'
<1> DEFINE Goal == Drawing' /\ (FilesBelowTerabyte /\ Fitting => Fitting')
<1>1. ASSUME UNCHANGED <<meter, bar, screen_width, image>>, data' => data,
             meter = "bar" => UNCHANGED <<call, dllast>> \/ (call'.now = 0 /\ dllast' = 0)
      PROVE  Goal
  BY <1>1 DEF Drawing, Fitting
<1>2. ASSUME UNCHANGED vars PROVE Goal
  BY <1>1, <1>2 DEF vars
<1>3. ASSUME New PROVE Goal
  BY <1>1, <1>3 DEF New, NoCall
<1>4. ASSUME NEW total \in Totals[meter], NEW now \in Sizes[meter], NEW time \in Times,
             Callback(total, now, time)
      PROVE  Goal
  <2>1. /\ UNCHANGED <<meter, data, bar, screen_width, image, dllast>> /\ call'.now = now
    BY <1>4 DEF Callback
  <2>2. FilesBelowTerabyte /\ meter = "bar" => now < 1000000000000
    BY DEF FilesBelowTerabyte
  <2> QED BY <2>1, <2>2 DEF Drawing, Fitting
<1>5. ASSUME Create PROVE Goal
  <2>1. /\ UNCHANGED <<meter, call, dllast>> /\ call.total \in Nat /\ screen_width \in Nat
    BY <1>5 DEF Create, IInv, Types
  <2>2. screen_width' >= MINIMUM_SCREEN_WIDTH
    BY <1>5 DEF Create, SetParams, MINIMUM_SCREEN_WIDTH, DEFAULT_SCREEN_WIDTH
  <2>3. CASE meter = "dot" /\ UNCHANGED <<bar, image>>
    BY <2>1, <2>2, <2>3 DEF Drawing, Fitting
  <2>4. CASE /\ meter = "bar"
             /\ bar' = [count |-> 0, last_update |-> 0,
                        width |-> screen_width - 1, buffer |-> screen_width]
             /\ image' = Image(bar'.width, bar'.buffer, call.total, 0)
    <3> DEFINE w == screen_width - 1
    <3>1. /\ w \in Nat /\ w >= 44 /\ screen_width = w + 1
      BY <2>1 DEF Drawing, MINIMUM_SCREEN_WIDTH
    <3>2. bar'.width = w /\ bar'.buffer = w + 1
      BY <2>4, <3>1
    <3> HIDE DEF w
    <3>3. image' = Image(w, w + 1, call.total, 0)
      BY <2>4, <3>2
    <3>4. /\ image'.length \in Nat /\ image'.dlsz \in Nat
          /\ image'.width + 1 <= image'.buffer
          /\ image'.dlsz <= image'.progress_size
          /\ image'.length <= image'.width
      BY <2>1, <3>1, <3>3, DrawnFits
    <3> QED BY <2>1, <2>2, <3>1, <3>2, <3>4 DEF Drawing, Fitting
  <2> QED BY <1>5, <2>3, <2>4 DEF Create
<1>6. ASSUME DotUpdate PROVE Goal
  BY <1>6 DEF DotUpdate, Drawing, Fitting
<1>7. ASSUME PrintDot \/ DotUpdated \/ DotFinish \/ Discard PROVE Goal
  BY <1>1, <1>7 DEF PrintDot, DotUpdated, DotFinish, Discard
<1>8. ASSUME BarUpdate PROVE Goal
  <2> DEFINE count == bar.count + (call.now - dllast)
             total == Corrected(call.total, count)
             width == screen_width - 1
             buffer == IF width # bar.width THEN width + 1 ELSE bar.buffer
  <2>1. /\ pc = "update" /\ meter = "bar" /\ data /\ dllast' = call.now
        /\ UNCHANGED <<meter, call, data, screen_width>>
        /\ bar'.width = width /\ bar'.buffer = buffer
        /\ image' = image \/ image' = Image(width, buffer, total, count)
    BY <1>8 DEF BarUpdate, IInv, Phase
  <2>2. count = call.now /\ call.now \in Nat /\ call.total \in Nat /\ screen_width \in Nat
    BY <2>1 DEF IInv, Types, BarCount
  <2>3. total \in Nat /\ (total > 0 => count <= total)
    BY <2>2, CorrectedBound
  <2>4. width \in Nat /\ width >= 44
    BY <2>2 DEF Drawing, MINIMUM_SCREEN_WIDTH
  <2>5. buffer = width + 1
    BY <2>1 DEF Drawing
  <2> HIDE DEF count, total, width, buffer
  <2>6. CASE image' = image
    BY <2>1, <2>2, <2>4, <2>5, <2>6 DEF Drawing, Fitting
  <2>7. CASE image' = Image(width, buffer, total, count)
    <3>1. /\ image'.length \in Nat /\ image'.dlsz \in Nat
          /\ image'.width + 1 <= image'.buffer
          /\ image'.dlsz <= image'.progress_size
          /\ count < 1000000000000 => image'.length <= image'.width
      BY <2>2, <2>3, <2>4, <2>5, <2>7, DrawnFits
    <3> QED BY <2>1, <2>2, <2>4, <2>5, <3>1 DEF Drawing, Fitting
  <2> QED BY <2>1, <2>6, <2>7
<1>9. ASSUME BarFinish PROVE Goal
  <2>1. /\ data /\ meter = "bar" /\ UNCHANGED <<meter, call, data, dllast, bar, screen_width>>
        /\ total_length' = Corrected(total_length, bar.count)
        /\ image' = Image(bar.width, bar.buffer, total_length', bar.count)
    BY <1>9 DEF BarFinish
  <2>2. bar.count = dllast /\ dllast \in Nat /\ total_length \in Nat
    BY <2>1 DEF IInv, Types, BarCount
  <2>3. total_length' \in Nat /\ (total_length' > 0 => bar.count <= total_length')
    BY <2>1, <2>2, CorrectedBound
  <2>4. bar.width \in Nat /\ bar.width >= 44 /\ bar.buffer = bar.width + 1
    BY <2>1 DEF Drawing
  <2>5. /\ image'.length \in Nat /\ image'.dlsz \in Nat
        /\ image'.width + 1 <= image'.buffer
        /\ image'.dlsz <= image'.progress_size
        /\ bar.count < 1000000000000 => image'.length <= image'.width
    BY <2>1, <2>2, <2>3, <2>4, DrawnFits
  <2> QED BY <2>1, <2>2, <2>4, <2>5 DEF Drawing, Fitting
<1> HIDE DEF Goal
<1>10. Goal
  BY <1>2, <1>3, <1>4, <1>5, <1>6, <1>7, <1>8, <1>9 DEF Next
<1> QED BY <1>10 DEF Goal

THEOREM AlwaysDrawing == Spec => []Drawing
BY InitDrawing, NextDrawing, Invariance, PTL DEF Spec

\* The types of the variables.
THEOREM TypeCorrect == Spec => []TypeOK
<1>1. IInv /\ Drawing => TypeOK
  <2> SUFFICES ASSUME IInv, Drawing PROVE TypeOK
    OBVIOUS
  <2>1. bar \in [count : Nat, last_update : Nat, width : Nat, buffer : Nat]
    BY DEF IInv, Types, Drawing
  <2> QED BY <2>1 DEF IInv, Types, Drawing, TypeOK
<1> QED BY <1>1, Invariance, AlwaysDrawing, PTL

\* As long as no file has a terabyte, no image is longer than the bar or its
\* buffer, on whatever screens, and no bar leaves its brackets (the asserts at
\* progress.c:746 and 849).
THEOREM ImagesFit ==
    ASSUME FilesBelowTerabyte PROVE Spec => []ImageFits
<1>1. Init => Fitting
  BY InitDrawing
<1>2. IInv /\ IInv' /\ Drawing /\ Fitting /\ [Next]_vars => Fitting'
  BY NextDrawing
<1>3. Spec => []Fitting
  BY <1>1, <1>2, Invariance, AlwaysDrawing, PTL DEF Spec
<1>4. Drawing /\ Fitting => ImageFits
  BY DEF Drawing, Fitting, ImageFits
<1> QED BY <1>3, <1>4, AlwaysDrawing, PTL
=============================================================================
