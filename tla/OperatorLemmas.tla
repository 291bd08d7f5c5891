--------------------------- MODULE OperatorLemmas ---------------------------
(***************************************************************************)
(* What the operators that several modules share do: those on a window      *)
(* object, for every integer size and every number of integers, and those   *)
(* that filter an array.                                                    *)
(***************************************************************************)
EXTENDS AntiReplayWindow, FragmentedHandshake, FiniteSetTheorems,
        WellFoundedInduction, TLAPS

USE DEF BlockIndices, BitIndices

-----------------------------------------------------------------------------
(* Arithmetic of positions in the bitmap: position p is bit p % INT_SIZE of *)
(* integer p \div INT_SIZE.                                                 *)

\* The position splits into an integer and a bit.
LEMMA Split ==
    ASSUME NEW p \in 0 .. width - 1
    PROVE  /\ p \div INT_SIZE \in BlockIndices
           /\ p % INT_SIZE \in BitIndices
           /\ p = INT_SIZE * (p \div INT_SIZE) + (p % INT_SIZE)
  BY WindowAssumption, SMTT(30) DEF width

\* The split is unique.
LEMMA SplitUnique ==
    ASSUME NEW i \in Int, NEW b \in BitIndices, NEW p \in Int,
           p = INT_SIZE * i + b
    PROVE  p \div INT_SIZE = i /\ p % INT_SIZE = b
  BY WindowAssumption, SMTT(30)

\* Shift counts below the size of the integer are not reduced.
LEMMA SmallCount ==
    ASSUME NEW c \in BitIndices
    PROVE  c % INT_SIZE = c
  BY WindowAssumption, SMTT(30)

\* The while loop of markAsReceived leaves an amount of 1 .. INT_SIZE bits.
LEMMA Blockwise ==
    ASSUME NEW amount \in Nat \ {0}
    PROVE  /\ (amount - 1) \div INT_SIZE \in Nat
           /\ amount - INT_SIZE * ((amount - 1) \div INT_SIZE) \in 1 .. INT_SIZE
  BY WindowAssumption, SMTT(30)

-----------------------------------------------------------------------------
(* The operators on window objects.                                         *)

Words == [BlockIndices -> SUBSET BitIndices]

\* Shifting keeps the shape of the integers, whatever the amount.
LEMMA ShiftType ==
    ASSUME NEW words \in Words, NEW amount \in Int
    PROVE  Shift(words, amount) \in Words
  BY DEF Words, Shift, ShiftBits, ShiftBlocks, ShiftLeft, ShiftRight

\* A bit that is not shifted out is still set, `amount' positions lower.
LEMMA ShiftKeeps ==
    ASSUME NEW words \in Words, NEW amount \in Nat \ {0},
           NEW p \in 0 .. width - 1, amount <= p,
           p % INT_SIZE \in words[p \div INT_SIZE]
    PROVE  (p - amount) % INT_SIZE
              \in Shift(words, amount)[(p - amount) \div INT_SIZE]
<1> DEFINE i == p \div INT_SIZE
           b == p % INT_SIZE
           k == (amount - 1) \div INT_SIZE
           a == amount - INT_SIZE * k
           W == ShiftBlocks(words, k)
           q == p - amount
<1>1. /\ i \in BlockIndices
      /\ b \in BitIndices
      /\ p = INT_SIZE * i + b
      /\ b \in words[i]
  BY Split
<1>2. k \in Nat /\ a \in 1 .. INT_SIZE
  BY Blockwise
<1> HIDE DEF i, b, k
<1>3. /\ q \in Int
      /\ q = INT_SIZE * (i - k) + (b - a)
      /\ q >= 0
  BY <1>1, <1>2, WindowAssumption, SMTT(30) DEF width
<1>4. i - k \in BlockIndices
  <2>1. INT_SIZE * (i - k) > 0 - INT_SIZE
    BY <1>1, <1>2, <1>3, WindowAssumption
  <2>2. i - k > 0 - 1
    BY <2>1, <1>1, <1>2, WindowAssumption, SMTT(30)
  <2> QED
    BY <2>2, <1>1, <1>2, WindowAssumption
<1>5. b \in W[i - k]
  <2>1. (i - k) + k = i /\ i < Blocks
    BY <1>1, <1>2, WindowAssumption
  <2>2. W[i - k] = IF (i - k) + k < Blocks THEN words[(i - k) + k] ELSE {}
    BY <1>4 DEF ShiftBlocks
  <2> QED
    BY <2>1, <2>2, <1>1
<1>6. Shift(words, amount) = ShiftBits(W, a)
  BY DEF Shift, k
<1> HIDE DEF a, W, q
<1>7. CASE b >= a
  <2>1. b - a \in BitIndices /\ a % INT_SIZE = a
    BY <1>1, <1>2, <1>7, SmallCount, WindowAssumption
  <2>2. b - a \in ShiftRight(W[i - k], a)
    BY <2>1, <1>1, <1>2, <1>5 DEF ShiftRight
  <2>3. b - a \in ShiftBits(W, a)[i - k]
    BY <2>2, <1>4 DEF ShiftBits
  <2>4. q \div INT_SIZE = i - k /\ q % INT_SIZE = b - a
    BY <2>1, <1>3, <1>4, SplitUnique
  <2> QED
    BY <2>3, <2>4, <1>6 DEF q
<1>8. CASE b < a
  <2> DEFINE c == b - a + INT_SIZE
             j == i - k - 1
  <2>1. c \in BitIndices /\ INT_SIZE - a \in BitIndices
    BY <1>1, <1>2, <1>8, WindowAssumption
  <2>2. q = INT_SIZE * j + c
    BY <1>1, <1>2, <1>3, WindowAssumption, SMTT(30)
  <2>3. j \in BlockIndices /\ j + 1 = i - k /\ j + 1 < Blocks
    <3>1. INT_SIZE * (i - k) > 0
      BY <1>1, <1>2, <1>3, <1>8, WindowAssumption
    <3>2. i - k > 0
      BY <3>1, <1>1, <1>2, WindowAssumption, SMTT(30)
    <3> QED
      BY <3>2, <1>1, <1>2, <1>4, WindowAssumption
  <2>4. c - ((INT_SIZE - a) % INT_SIZE) = b
    BY <2>1, <1>1, <1>2, SmallCount, WindowAssumption
  <2>5. c \in ShiftLeft(W[j + 1], INT_SIZE - a)
    BY <2>1, <2>3, <2>4, <1>5 DEF ShiftLeft
  <2>6. c \in ShiftBits(W, a)[j]
    BY <2>3, <2>5 DEF ShiftBits
  <2>7. q \div INT_SIZE = j /\ q % INT_SIZE = c
    <3>1. j \in Int /\ q \in Int
      BY <2>3, <1>3
    <3> HIDE DEF c, j
    <3> QED BY <3>1, <2>1, <2>2, SplitUnique
  <2> QED
    BY <2>6, <2>7, <1>6 DEF q
<1> QED
  BY <1>1, <1>2, <1>7, <1>8

\* SetBit keeps the shape of the window and its ceiling.
LEMMA SetBitType ==
    ASSUME NEW w \in Window, NEW s \in Int, s <= w.ceiling
    PROVE  SetBit(w, s) \in Window /\ SetBit(w, s).ceiling = w.ceiling
<1> DEFINE p == s - lowerBound(w)
<1>1. w.ceiling \in Int /\ w.window \in Words /\ lowerBound(w) \in Int
      /\ width \in Nat
  BY WindowAssumption, SMTT(30) DEF Window, Words, lowerBound, width
<1>2. CASE p < 0
  BY <1>2 DEF SetBit
<1>3. CASE p >= 0
  <2>1. p \in 0 .. width - 1
    BY <1>1, <1>3 DEF lowerBound
  <2>2. p \div INT_SIZE \in BlockIndices /\ p % INT_SIZE \in BitIndices
    BY <2>1, Split
  <2> DEFINE words == [w.window EXCEPT ![p \div INT_SIZE] = @ \cup {p % INT_SIZE}]
  <2>3. SetBit(w, s) = [window |-> words, ceiling |-> w.ceiling]
    BY <1>1, <1>3 DEF SetBit
  <2>4. words \in Words
    BY <2>2, <1>1 DEF Words
  <2> HIDE DEF words
  <2> QED
    BY <2>3, <2>4, <1>1 DEF Window, Words
<1> QED
  BY <1>1, <1>2, <1>3

\* SetBit sets the bit it is asked to set, and clears none.
LEMMA SetBitSets ==
    ASSUME NEW w \in Window, NEW s \in Int, s <= w.ceiling,
           NEW t \in Int,
           hasReceived(w, t) \/ (t = s /\ t >= lowerBound(w))
    PROVE  hasReceived(SetBit(w, s), t)
<1> DEFINE p == s - lowerBound(w)
           r == t - lowerBound(w)
           v == SetBit(w, s)
<1>1. w.ceiling \in Int /\ w.window \in Words /\ lowerBound(w) \in Int
      /\ width \in Nat
  BY WindowAssumption, SMTT(30) DEF Window, Words, lowerBound, width
<1>2. lowerBound(v) = lowerBound(w)
  BY SetBitType DEF lowerBound
<1>3. r \in 0 .. width - 1
  BY <1>1 DEF hasReceived, lowerBound
<1>4. r \div INT_SIZE \in BlockIndices /\ r % INT_SIZE \in BitIndices
  BY <1>3, Split
<1>5. CASE p < 0
  BY <1>1, <1>5 DEF SetBit
<1>6. CASE p >= 0
  <2>1. p \in 0 .. width - 1
    BY <1>1, <1>6 DEF lowerBound
  <2>2. p \div INT_SIZE \in BlockIndices /\ p % INT_SIZE \in BitIndices
    BY <2>1, Split
  <2>4. v.window = [w.window EXCEPT ![p \div INT_SIZE] = @ \cup {p % INT_SIZE}]
    BY <1>1, <1>6 DEF SetBit
  <2>5. r % INT_SIZE \in w.window[r \div INT_SIZE] \/ t = s
    BY DEF hasReceived
  <2>6. r % INT_SIZE \in v.window[r \div INT_SIZE]
    <3>1. CASE t = s
      BY <3>1, <2>2, <2>4, <1>1 DEF Words
    <3>2. CASE r % INT_SIZE \in w.window[r \div INT_SIZE]
      BY <3>2, <2>2, <2>4, <1>1, <1>4 DEF Words
    <3> QED
      BY <2>5, <3>1, <3>2
  <2> QED
    BY <2>6, <1>2, <1>3 DEF hasReceived
<1> QED
  BY <1>1, <1>5, <1>6

\* Marking keeps the shape of the window and moves the ceiling up to s.
LEMMA MarkType ==
    ASSUME NEW w \in Window, NEW s \in Int
    PROVE  /\ markAsReceived(w, s) \in Window
           /\ markAsReceived(w, s).ceiling
                = IF s > w.ceiling THEN s ELSE w.ceiling
<1>1. CASE s > w.ceiling
  <2> DEFINE u == [window  |-> Shift(w.window, s - w.ceiling), ceiling |-> s]
  <2>1. w.ceiling \in Int /\ w.window \in Words
    BY DEF Window, Words
  <2>2. u \in Window /\ s <= u.ceiling
    BY <2>1, ShiftType DEF Window, Words
  <2>3. markAsReceived(w, s) = SetBit(u, s)
    BY <1>1 DEF markAsReceived
  <2> HIDE DEF u
  <2>4. SetBit(u, s) \in Window /\ SetBit(u, s).ceiling = u.ceiling
    BY <2>2, SetBitType
  <2> QED
    BY <1>1, <2>3, <2>4 DEF u
<1>2. CASE ~ (s > w.ceiling)
  <2>1. w.ceiling \in Int
    BY DEF Window
  <2> QED
    BY <2>1, <1>2, SetBitType DEF markAsReceived
<1> QED
  BY <1>1, <1>2

\* The packet that is marked has its bit set, and every packet that had its
\* bit set keeps it as long as it is in the window.
LEMMA MarkSets ==
    ASSUME NEW w \in Window, NEW s \in Int, NEW t \in Int,
           hasReceived(w, t) \/ t = s,
           t >= lowerBound(markAsReceived(w, s))
    PROVE  hasReceived(markAsReceived(w, s), t)
<1>1. w.ceiling \in Int /\ w.window \in Words /\ width \in Nat /\ width > 0
  BY WindowAssumption, SMTT(30) DEF Window, Words, width
<1>2. CASE s > w.ceiling
  <2> DEFINE n == s - w.ceiling
             u == [window  |-> Shift(w.window, n), ceiling |-> s]
             p == t - lowerBound(w)
  <2>1. n \in Nat \ {0}
    BY <1>1, <1>2
  <2>2. u \in Window /\ s <= u.ceiling
    BY <2>1, <1>1, ShiftType DEF Window, Words
  <2>3. markAsReceived(w, s) = SetBit(u, s)
    BY <1>2 DEF markAsReceived
  <2>4. lowerBound(u) = lowerBound(w) + n /\ lowerBound(w) \in Int
    BY <1>1, <2>1 DEF lowerBound
  <2> HIDE DEF u, n
  <2>5. t >= lowerBound(u)
    BY <2>2, <2>3, SetBitType DEF lowerBound
  <2>6. ASSUME hasReceived(w, t) PROVE hasReceived(u, t)
    <3>1. p \in 0 .. width - 1 /\ p % INT_SIZE \in w.window[p \div INT_SIZE]
      BY <2>6 DEF hasReceived
    <3>2. n <= p /\ t - lowerBound(u) = p - n /\ p - n \in 0 .. width - 1
      BY <3>1, <2>1, <2>4, <2>5, <1>1
    <3> HIDE DEF p
    <3>3. (p - n) % INT_SIZE \in Shift(w.window, n)[(p - n) \div INT_SIZE]
      BY <3>1, <3>2, <2>1, <1>1, ShiftKeeps
    <3> QED
      BY <3>2, <3>3 DEF hasReceived, u
  <2> QED
    BY <2>2, <2>3, <2>5, <2>6, SetBitSets
<1>3. CASE ~ (s > w.ceiling)
  <2>1. markAsReceived(w, s) = SetBit(w, s) /\ s <= w.ceiling
    BY <1>1, <1>3 DEF markAsReceived
  <2>2. lowerBound(markAsReceived(w, s)) = lowerBound(w)
    BY <2>1, SetBitType DEF lowerBound
  <2> QED
    BY <2>1, <2>2, SetBitSets
<1> QED
  BY <1>2, <1>3

-----------------------------------------------------------------------------
(* Least elements.                                                          *)

\* Every set of naturals that is not empty has a least element.
LEMMA Least ==
    ASSUME NEW T \in SUBSET Nat, T # {}
    PROVE  \E x \in T : \A y \in T : x <= y
<1> DEFINE R == {ss \in Nat \X Nat : ss[1] < ss[2]}
<1>1. IsWellFoundedOn(R, Nat)
  BY NatLessThanWellFounded DEF OpToRel
<1>2. PICK x \in T : \A y \in T : ~ (<<y, x>> \in R)
  BY <1>1, WFMin, Zenon
<1>3. \A y \in T : y \in Nat /\ x \in Nat /\ ~ (y < x)
  BY <1>2
<1> QED
  BY <1>3

\* Among fragments there is a first one in their order.
LEMMA FirstFragment ==
    ASSUME NEW s, Len(s) \in Nat, DOMAIN s = 1 .. Len(s),
           \A i \in DOMAIN s : s[i].fragment_offset \in Nat,
           NEW T \in SUBSET DOMAIN s, T # {}
    PROVE  \E i \in T : \A j \in T : ~ Before(s, j, i)
<1> DEFINE O == {s[i].fragment_offset : i \in T}
<1>1. PICK o \in O : \A p \in O : o <= p
  <2>1. O \in SUBSET Nat /\ O # {}
    OBVIOUS
  <2> QED
    BY <2>1, Least, Zenon
<1> DEFINE E == {i \in T : s[i].fragment_offset = o}
<1>2. PICK i \in E : \A j \in E : i <= j
  <2>1. E \in SUBSET Nat /\ E # {}
    BY <1>1
  <2> QED
    BY <2>1, Least, Zenon
<1>3. \A j \in T : ~ Before(s, j, i)
  <2> SUFFICES ASSUME NEW j \in T, Before(s, j, i) PROVE FALSE
    BY <1>2
  <2>1. /\ s[i].fragment_offset = o /\ o <= s[j].fragment_offset
        /\ o \in Nat /\ s[j].fragment_offset \in Nat /\ i \in Nat /\ j \in Nat
    BY <1>1, <1>2
  <2>2. s[j].fragment_offset = o /\ j < i
    BY <2>1 DEF Before
  <2> QED
    BY <2>1, <2>2, <1>2
<1> QED
  BY <1>2, <1>3

-----------------------------------------------------------------------------
(* Array.filter: the k-th of the positions kept is one of them.             *)

LEMMA NthIsThere ==
    ASSUME NEW n \in Nat, NEW I \in SUBSET (1 .. n), NEW k \in 1 .. Cardinality(I)
    PROVE  Nth(I, k) \in I /\ Cardinality(I \cap 1 .. Nth(I, k)) = k
<1> DEFINE upto(i) == I \cap 1 .. i
           count(i) == Cardinality(upto(i))
           T == {i \in 0 .. n : count(i) >= k}
<1>1. IsFiniteSet(I)
  <2>1. IsFiniteSet(1 .. n)
    BY FS_Interval
  <2> QED
    BY <2>1, FS_Subset
<1>2. \A i \in Nat : IsFiniteSet(upto(i)) /\ count(i) \in Nat
  <2>1. \A i \in Nat : upto(i) \subseteq I
    OBVIOUS
  <2> QED
    BY <1>1, <2>1, FS_Subset, FS_CardinalityType
<1>3. n \in T
  <2>1. upto(n) = I
    BY Zenon
  <2>2. count(n) = Cardinality(I) /\ Cardinality(I) \in Nat
    BY <2>1, <1>1, FS_CardinalityType, Zenon
  <2>3. count(n) >= k /\ n \in 0 .. n
    BY <2>2
  <2> QED
    BY <2>3, Zenon
<1>4. PICK i \in T : \A j \in T : i <= j
  <2>1. 0 .. n \subseteq Nat
    OBVIOUS
  <2>2. T \in SUBSET Nat /\ T # {}
    BY <1>3, <2>1, Zenon
  <2> QED
    BY <2>2, Least, Zenon
<1>5. i # 0
  <2>1. upto(0) = {}
    OBVIOUS
  <2>2. count(0) = 0
    BY <2>1, FS_EmptySet
  <2> QED
    BY <2>2
<1>6. i \in 1 .. n /\ i - 1 \in Nat /\ count(i - 1) \in Nat /\ count(i) \in Nat
  BY <1>5, <1>2
<1>7. count(i - 1) < k /\ count(i) >= k /\ k \in Nat
  <2>1. i - 1 \notin T
    BY <1>4, <1>6
  <2>2. k \in Nat
    BY <1>1, FS_CardinalityType
  <2> HIDE DEF count
  <2> QED
    BY <2>1, <2>2, <1>4, <1>6
<1>8. i \in I
  <2>1. ASSUME i \notin I PROVE FALSE
    <3>1. upto(i) = upto(i - 1)
      BY <2>1, <1>6
    <3>2. count(i) = count(i - 1)
      BY <3>1
    <3> HIDE DEF count
    <3> QED
      BY <3>2, <1>6, <1>7
  <2> QED
    BY <2>1
<1>9. count(i) = k
  <2>1. upto(i) = upto(i - 1) \cup {i} /\ i \notin upto(i - 1)
    BY <1>6, <1>8
  <2>2. count(i) = count(i - 1) + 1
    BY <2>1, <1>2, <1>6, FS_AddElement
  <2> HIDE DEF count
  <2> QED
    BY <2>2, <1>6, <1>7
<1> QED
  BY <1>8, <1>9, Zenon DEF Nth

\* ... and the only one with as many before it.
LEMMA NthIsOne ==
    ASSUME NEW n \in Nat, NEW I \in SUBSET (1 .. n), NEW i \in I, NEW j \in I,
           Cardinality(I \cap 1 .. i) = Cardinality(I \cap 1 .. j)
    PROVE  i = j
<1> DEFINE upto(l) == I \cap 1 .. l
<1>1. IsFiniteSet(I)
  <2>1. IsFiniteSet(1 .. n)
    BY FS_Interval
  <2> QED
    BY <2>1, FS_Subset
<1>2. ASSUME NEW k \in I, NEW l \in I, k < l,
             Cardinality(upto(l)) = Cardinality(upto(k))
      PROVE  FALSE
  <2>1. upto(k) \in SUBSET upto(l) /\ upto(l) \in SUBSET I
    BY <1>2
  <2>2. IsFiniteSet(upto(l))
    BY <1>1, <2>1, FS_Subset
  <2>3. upto(l) = upto(k)
    BY <1>2, <2>1, <2>2, FS_Subset, Zenon
  <2>4. l \in upto(l) /\ l \notin upto(k)
    BY <1>2
  <2> QED
    BY <2>3, <2>4, Zenon
<1>3. i < j \/ j < i \/ i = j
  OBVIOUS
<1> QED
  BY <1>2, <1>3, Zenon

\* What is filtered comes from the positions kept.
LEMMA FilteredFrom ==
    ASSUME NEW S, NEW s \in Seq(S), NEW I \in SUBSET DOMAIN s
    PROVE  /\ Filtered(s, I) \in Seq(S)
           /\ \A k \in DOMAIN Filtered(s, I) : \E i \in I : Filtered(s, I)[k] = s[i]
<1>1. Len(s) \in Nat /\ I \in SUBSET (1 .. Len(s))
  OBVIOUS
<1>2. Cardinality(I) \in Nat
  <2>1. IsFiniteSet(1 .. Len(s))
    BY <1>1, FS_Interval
  <2> QED
    BY <1>1, <2>1, FS_Subset, FS_CardinalityType
<1>3. \A k \in 1 .. Cardinality(I) : Nth(I, k) \in I
  BY <1>1, NthIsThere, Zenon
<1> DEFINE t == Filtered(s, I)
<1>4. t = [k \in 1 .. Cardinality(I) |-> s[Nth(I, k)]]
  BY Zenon DEF Filtered
<1>5. \A k \in 1 .. Cardinality(I) : s[Nth(I, k)] \in S
  BY <1>3
<1> HIDE DEF t
<1>6. t \in Seq(S)
  BY <1>2, <1>4, <1>5
<1>7. \A k \in DOMAIN t : \E i \in I : t[k] = s[i]
  BY <1>3, <1>4
<1> QED
  BY <1>6, <1>7 DEF t

\* Two places of what is filtered hold items of two positions.
LEMMA FilteredApart ==
    ASSUME NEW S, NEW s \in Seq(S), NEW I \in SUBSET DOMAIN s
    PROVE  \A a, b \in DOMAIN Filtered(s, I) : a # b =>
               \E i, j \in I : /\ i # j /\ Filtered(s, I)[a] = s[i]
                               /\ Filtered(s, I)[b] = s[j]
<1> DEFINE N == Cardinality(I)
           t == Filtered(s, I)
<1>1. I \in SUBSET (1 .. Len(s)) /\ Len(s) \in Nat
  OBVIOUS
<1>2. DOMAIN t = 1 .. N /\ \A a \in 1 .. N : t[a] = s[Nth(I, a)]
  BY DEF Filtered
<1>3. \A a \in 1 .. N : Nth(I, a) \in I /\ Cardinality(I \cap 1 .. Nth(I, a)) = a
  BY <1>1, NthIsThere
<1> HIDE DEF N, t
<1>4. ASSUME NEW a \in DOMAIN t, NEW b \in DOMAIN t, a # b
      PROVE  \E i, j \in I : i # j /\ t[a] = s[i] /\ t[b] = s[j]
  <2>1. /\ Nth(I, a) \in I /\ Nth(I, b) \in I
        /\ t[a] = s[Nth(I, a)] /\ t[b] = s[Nth(I, b)]
    BY <1>2, <1>3
  <2>2. Nth(I, a) # Nth(I, b)
    <3>1. /\ Cardinality(I \cap 1 .. Nth(I, a)) = a
          /\ Cardinality(I \cap 1 .. Nth(I, b)) = b
      BY <1>2, <1>3
    <3> QED
      BY <1>4, <3>1, Zenon
  <2> QED
    BY <2>1, <2>2, Zenon
<1> QED
  BY <1>4, Zenon DEF t

\* Array.filter leaves nothing out.
LEMMA NthHits ==
    ASSUME NEW n \in Nat, NEW I \in SUBSET (1 .. n), NEW i \in I
    PROVE  \E k \in 1 .. Cardinality(I) : Nth(I, k) = i
<1> DEFINE upto(j) == I \cap 1 .. j
           k == Cardinality(upto(i))
<1>1. IsFiniteSet(I)
  <2>1. IsFiniteSet(1 .. n)
    BY FS_Interval
  <2> QED
    BY <2>1, FS_Subset
<1>2. \A j \in I : /\ IsFiniteSet(upto(j)) /\ Cardinality(upto(j)) \in Nat
                   /\ Cardinality(upto(j)) <= Cardinality(I)
  <2>1. \A j \in I : upto(j) \in SUBSET I
    OBVIOUS
  <2> QED
    BY <1>1, <2>1, FS_Subset, FS_CardinalityType
<1>3. k \in 1 .. Cardinality(I)
  <2>1. upto(i) # {}
    OBVIOUS
  <2>2. k # 0
    BY <1>2, <2>1, FS_EmptySet
  <2>3. Cardinality(I) \in Nat
    BY <1>1, FS_CardinalityType
  <2>4. k \in Nat /\ k <= Cardinality(I)
    BY <1>2
  <2> HIDE DEF k
  <2> QED
    BY <2>2, <2>3, <2>4
<1>4. Nth(I, k) \in I /\ Cardinality(upto(Nth(I, k))) = k
  BY <1>3, NthIsThere, Zenon
<1>5. Nth(I, k) = i
  BY <1>4, NthIsOne, Zenon
<1> QED
  BY <1>3, <1>5, Zenon

LEMMA FilteredAll ==
    ASSUME NEW S, NEW s \in Seq(S), NEW I \in SUBSET DOMAIN s, NEW i \in I
    PROVE  \E k \in DOMAIN Filtered(s, I) : Filtered(s, I)[k] = s[i]
<1>1. Len(s) \in Nat /\ I \in SUBSET (1 .. Len(s))
  OBVIOUS
<1>2. PICK k \in 1 .. Cardinality(I) : Nth(I, k) = i
  BY <1>1, NthHits, Zenon
<1>3. Filtered(s, I) = [j \in 1 .. Cardinality(I) |-> s[Nth(I, j)]]
  BY Zenon DEF Filtered
<1>4. k \in DOMAIN Filtered(s, I) /\ Filtered(s, I)[k] = s[i]
  BY <1>2, <1>3
<1> QED
  BY <1>4, Zenon

\* What is appended is kept, or is not; the rest stays as it was.
LEMMA NthOfMore ==
    ASSUME NEW n \in Nat, NEW I \in SUBSET (1 .. n)
    PROVE  LET J == I \cup {n + 1}
           IN  /\ Cardinality(I) \in Nat
               /\ Cardinality(J) = Cardinality(I) + 1
               /\ \A k \in 1 .. Cardinality(I) : Nth(J, k) = Nth(I, k)
               /\ Nth(J, Cardinality(I) + 1) = n + 1
<1> DEFINE J == I \cup {n + 1}
           c == Cardinality(I)
<1>1. IsFiniteSet(I) /\ c \in Nat
  <2>1. IsFiniteSet(1 .. n)
    BY FS_Interval
  <2> QED
    BY <2>1, FS_Subset, FS_CardinalityType
<1>2. Cardinality(J) = c + 1
  <2>1. n + 1 \notin I
    OBVIOUS
  <2> QED
    BY <1>1, <2>1, FS_AddElement
<1>3. n + 1 \in Nat /\ J \in SUBSET (1 .. n + 1)
  OBVIOUS
<1>4. ASSUME NEW k \in 1 .. c PROVE Nth(J, k) = Nth(I, k)
  <2> DEFINE i == Nth(I, k)
             j == Nth(J, k)
  <2>1. i \in I /\ Cardinality(I \cap 1 .. i) = k
    BY <1>4, NthIsThere, Zenon
  <2>2. k \in 1 .. Cardinality(J)
    BY <1>1, <1>2
  <2>3. j \in J /\ Cardinality(J \cap 1 .. j) = k
    BY <1>3, <2>2, NthIsThere, Zenon
  <2> HIDE DEF i, j
  <2>4. J \cap 1 .. i = I \cap 1 .. i /\ i \in J
    BY <2>1
  <2>5. Cardinality(J \cap 1 .. i) = Cardinality(J \cap 1 .. j)
    BY <2>1, <2>3, <2>4, Zenon
  <2> HIDE DEF J
  <2>6. i = j
    BY <1>3, <2>3, <2>4, <2>5, NthIsOne
  <2> QED
    BY <2>6 DEF i, j
<1>5. Nth(J, c + 1) = n + 1
  <2> DEFINE j == Nth(J, c + 1)
  <2>1. c + 1 \in 1 .. Cardinality(J)
    BY <1>1, <1>2
  <2>2. j \in J /\ Cardinality(J \cap 1 .. j) = c + 1
    BY <1>3, <2>1, NthIsThere, Zenon
  <2>3. n + 1 \in J /\ Cardinality(J \cap 1 .. n + 1) = c + 1
    <3>1. J \cap 1 .. n + 1 = J
      BY <1>3
    <3> QED
      BY <1>2, <3>1
  <2>4. Cardinality(J \cap 1 .. n + 1) = Cardinality(J \cap 1 .. j)
    BY <2>2, <2>3, Zenon
  <2> HIDE DEF j, J
  <2>5. j = n + 1
    BY <1>3, <2>2, <2>3, <2>4, NthIsOne
  <2> QED
    BY <2>5 DEF j
<1> QED
  BY <1>1, <1>2, <1>4, <1>5

\* A function on the first n positions is a sequence of length n.
LEMMA FromFunction ==
    ASSUME NEW S, NEW n \in Nat, NEW f \in [1 .. n -> S]
    PROVE  f \in Seq(S) /\ Len(f) = n
OBVIOUS

\* What is appended to an array adds itself to what is kept of it, or nothing.
LEMMA FilteredAppend ==
    ASSUME NEW S, NEW s \in Seq(S), NEW I \in SUBSET DOMAIN s, NEW e \in S,
           NEW J, J = I \cup {Len(s) + 1}
    PROVE  /\ Filtered(Append(s, e), I) = Filtered(s, I)
           /\ Filtered(Append(s, e), J) = Append(Filtered(s, I), e)
<1> DEFINE n == Len(s)
           t == Append(s, e)
           c == Cardinality(I)
<1>1. /\ n \in Nat /\ I \in SUBSET (1 .. n)
      /\ \A i \in I : t[i] = s[i]
      /\ t[n + 1] = e
  OBVIOUS
<1>2. /\ c \in Nat /\ Cardinality(J) = c + 1
      /\ \A k \in 1 .. c : Nth(J, k) = Nth(I, k)
      /\ Nth(J, c + 1) = n + 1
  BY <1>1, NthOfMore
<1>3. \A k \in 1 .. c : Nth(I, k) \in I
  BY <1>1, NthIsThere, Zenon
<1> HIDE DEF n, t, c
<1>4. Filtered(t, I) = Filtered(s, I)
  BY <1>1, <1>3 DEF Filtered, c
<1>5. Filtered(s, I) = [k \in 1 .. c |-> s[Nth(I, k)]]
  BY Zenon DEF Filtered, c
<1>6. Filtered(t, J) = [k \in 1 .. c + 1 |-> t[Nth(J, k)]]
  BY <1>2, Zenon DEF Filtered
<1>7. Filtered(s, I) \in Seq(S) /\ Len(Filtered(s, I)) = c
  BY <1>2, <1>5, FilteredFrom
<1>8. \A k \in 1 .. c : t[Nth(J, k)] = s[Nth(I, k)]
  BY <1>1, <1>2, <1>3
<1>9. Filtered(t, J) = Append(Filtered(s, I), e)
  <2> DEFINE u == Filtered(s, I)
             v == Filtered(t, J)
  <2>1. u \in Seq(S) /\ Len(u) = c
    BY <1>7
  <2>2. v = [k \in 1 .. Len(u) + 1 |-> t[Nth(J, k)]]
    BY <1>6, <2>1
  <2>3. ASSUME NEW k \in 1 .. c PROVE u[k] = s[Nth(I, k)]
    BY <1>5
  <2> HIDE DEF u, v
  <2>4. v \in Seq(S) /\ Len(v) = Len(u) + 1
    <3>1. \A k \in 1 .. Len(u) + 1 : t[Nth(J, k)] \in S
      <4>1. ASSUME NEW k \in 1 .. Len(u) + 1 PROVE t[Nth(J, k)] \in S
        <5>1. CASE k \in 1 .. c
          <6>1. u[k] \in S
            BY <1>2, <2>1, <5>1, SMT
          <6> QED
            BY <1>8, <2>3, <5>1, <6>1
        <5>2. CASE k = c + 1
          BY <1>1, <1>2, <5>2
        <5> QED
          BY <1>2, <2>1, <4>1, <5>1, <5>2
      <4> QED
        BY <4>1
    <3>2. v \in [1 .. Len(u) + 1 -> S]
      BY <2>2, <3>1
    <3>3. Len(u) + 1 \in Nat
      BY <1>2, <2>1
    <3> QED
      BY <3>2, <3>3, FromFunction
  <2>5. \A k \in 1 .. Len(u) : v[k] = u[k]
    <3>1. ASSUME NEW k \in 1 .. c PROVE v[k] = u[k]
      <4>1. v[k] = t[Nth(J, k)]
        BY <1>2, <2>1, <2>2
      <4>2. t[Nth(J, k)] = s[Nth(I, k)]
        BY <1>8
      <4> QED
        BY <2>3, <4>1, <4>2
    <3> QED
      BY <2>1, <3>1
  <2>6. v[Len(u) + 1] = e
    BY <1>1, <1>2, <2>1, <2>2
  <2>7. v = Append(u, e)
    BY <2>1, <2>4, <2>5, <2>6
  <2> QED
    BY <2>7 DEF u, v
<1> QED
  BY <1>4, <1>9 DEF t

\* No positions give nothing.
LEMMA FilteredNone ==
    ASSUME NEW s
    PROVE  Filtered(s, {}) = <<>>
<1>1. Cardinality({}) = 0
  BY FS_EmptySet
<1> QED
  BY <1>1 DEF Filtered
=============================================================================
