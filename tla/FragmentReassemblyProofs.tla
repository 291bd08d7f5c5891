----------------------- MODULE FragmentReassemblyProofs -----------------------
(***************************************************************************)
(* A message is handed on with all of its bytes, for all messages, lengths  *)
(* of fragments and orders of arrival.                                      *)
(***************************************************************************)
EXTENDS FragmentReassembly, OperatorLemmas

-----------------------------------------------------------------------------
(* The order of the fragments.                                              *)

IsPart(f) == /\ f.total_length \in Nat
             /\ f.fragment_offset \in Nat /\ f.length \in Nat
             /\ f.fragment_offset + f.length <= f.total_length

\* Among fragments there is a last one in their order, as none starts behind the
\* end of the message.
LEMMA LastFragment ==
    ASSUME NEW s, Len(s) \in Nat, DOMAIN s = 1 .. Len(s), NEW N \in Nat,
           \A i \in DOMAIN s : s[i].fragment_offset \in 0 .. N,
           NEW T \in SUBSET DOMAIN s, T # {}
    PROVE  \E i \in T : \A j \in T : ~ Before(s, i, j)
<1> DEFINE O == {N - s[i].fragment_offset : i \in T}
<1>1. PICK o \in O : \A p \in O : o <= p
  <2>1. O \in SUBSET Nat /\ O # {}
    OBVIOUS
  <2> QED
    BY <2>1, Least, Zenon
<1> DEFINE E == {Len(s) - i : i \in {j \in T : N - s[j].fragment_offset = o}}
<1>2. PICK e \in E : \A p \in E : e <= p
  <2>1. E \in SUBSET Nat /\ E # {}
    BY <1>1
  <2> QED
    BY <2>1, Least, Zenon
<1>3. PICK i \in T : N - s[i].fragment_offset = o /\ e = Len(s) - i
  BY <1>2
<1>4. \A j \in T : ~ Before(s, i, j)
  <2> SUFFICES ASSUME NEW j \in T, Before(s, i, j) PROVE FALSE
    OBVIOUS
  <2>1. /\ s[i].fragment_offset \in Nat /\ s[j].fragment_offset \in Nat
        /\ i \in 1 .. Len(s) /\ j \in 1 .. Len(s)
        /\ o <= N - s[j].fragment_offset
    BY <1>1
  <2>2. s[j].fragment_offset = s[i].fragment_offset /\ i < j
    BY <1>3, <2>1 DEF Before
  <2>3. Len(s) - j \in E
    BY <1>3, <2>2
  <2>4. e <= Len(s) - j
    BY <1>2, <2>3, Zenon
  <2>5. ~ (Len(s) - i <= Len(s) - j)
    BY <2>1, <2>2
  <2> QED
    BY <1>3, <2>4, <2>5, Zenon
<1> QED
  BY <1>4

\* What isComplete accepts leaves no hole: of the fragments that reach up to a
\* position or behind it, the first one in the order starts in front of it,
\* for the one before that ends in front of it and there is no gap.
LEMMA CompleteCovers ==
    ASSUME NEW s, Len(s) \in Nat, DOMAIN s = 1 .. Len(s), NEW N \in Nat,
           \A i \in DOMAIN s : IsPart(s[i]) /\ s[i].total_length = N,
           isComplete(s)
    PROVE  Written(s) = 0 .. N - 1
<1>1. \A i \in DOMAIN s : /\ s[i].fragment_offset \in 0 .. N
                          /\ s[i].length \in Nat
                          /\ End(s[i]) \in Int
                          /\ End(s[i]) = s[i].fragment_offset + s[i].length - 1
                          /\ End(s[i]) <= N - 1
                          /\ Positions(s[i]) = s[i].fragment_offset .. End(s[i])
  BY DEF IsPart, End, Positions
<1>2. StartsAtZero(s) /\ GapsAtMost(s, 1) /\ EndsAtTotal(s) /\ s # <<>>
  BY Zenon DEF isComplete
<1>3. Written(s) \subseteq 0 .. N - 1
  BY <1>1 DEF Written
<1>4. ASSUME NEW p \in 0 .. N - 1
      PROVE  \E i \in DOMAIN s : p \in Positions(s[i])
  <2> DEFINE T == {i \in DOMAIN s : End(s[i]) >= p}
  <2>1. \E i \in DOMAIN s : End(s[i]) = N - 1
    <3>1. DOMAIN s # {}
      BY <1>2
    <3>2. PICK i \in DOMAIN s : \A j \in DOMAIN s : ~ Before(s, i, j)
      BY <1>1, <3>1, LastFragment
    <3>3. Following(s, i) = {}
      BY <3>2, Zenon DEF Following
    <3> QED
      BY <1>2, <3>2, <3>3, Zenon DEF EndsAtTotal
  <2>2. T # {}
    <3>1. PICK i \in DOMAIN s : End(s[i]) = N - 1
      BY <2>1
    <3>2. N - 1 >= p
      OBVIOUS
    <3>3. End(s[i]) >= p
      BY <3>1, <3>2
    <3> QED
      BY <3>3, Zenon
  <2>3. PICK i \in T : \A j \in T : ~ Before(s, j, i)
    <3>1. \A i \in DOMAIN s : s[i].fragment_offset \in Nat
      BY <1>1
    <3>2. T \in SUBSET DOMAIN s
      BY Zenon
    <3> HIDE DEF T
    <3> QED
      BY <2>2, <3>1, <3>2, FirstFragment, Zenon
  <2>4. s[i].fragment_offset <= p
    <3>1. CASE Preceding(s, i) = {}
      BY <3>1, <1>2, <2>3 DEF StartsAtZero
    <3>2. CASE Preceding(s, i) # {}
      <4>1. PICK j \in Preceding(s, i) : \A k \in Preceding(s, i) : ~ Before(s, j, k)
        <5>1. Preceding(s, i) \in SUBSET DOMAIN s
          BY DEF Preceding
        <5> QED
          BY <1>1, <3>2, <5>1, LastFragment
      <4>2. Preceding(s, i) \cap Following(s, j) = {}
        BY <4>1, Zenon DEF Following
      <4>3. j \in DOMAIN s /\ Before(s, j, i)
        BY DEF Preceding
      <4>4. s[i].fragment_offset - End(s[j]) <= 1
        BY <1>2, <2>3, <4>1, <4>2, Zenon DEF GapsAtMost
      <4>5. End(s[j]) < p
        BY <2>3, <4>3, <1>1
      <4> QED
        BY <4>3, <4>4, <4>5, <1>1
    <3> QED
      BY <3>1, <3>2
  <2> QED
    BY <1>1, <2>3, <2>4
<1> QED
  BY <1>3, <1>4 DEF Written

-----------------------------------------------------------------------------
(* What the peer sends, and the invariant.                                  *)

Sent == {r[2] : r \in Records}

\* A record carries a part of one of the messages, which can be told from it.
LEMMA SentShape ==
    ASSUME NEW f \in Sent
    PROVE  /\ IsPart(f) /\ Whole(f) \in Messages
           /\ Positions(Whole(f)) = 0 .. f.total_length - 1
<1>1. PICK msg \in Messages, t \in Transmissions : f \in PeerFragments(msg, t[2])
  BY DEF Sent, Records
<1>2. t[2] \in Nat \ {0}
  BY PeerAssumption DEF Transmissions
<1>3. msg.total_length \in Nat /\ msg = Whole(msg)
  BY PeerAssumption
<1>4. PICK o \in 0 .. msg.total_length :
          f = Fragment(msg, o, Shorter(t[2], msg.total_length - o))
  BY <1>1 DEF PeerFragments
<1>5. IsPart(f)
  BY <1>2, <1>3, <1>4 DEF IsPart, Fragment, Shorter
<1>6. Whole(f) = Whole(msg)
  BY <1>4 DEF Whole, Fragment
<1>7. Positions(Whole(f)) = 0 .. f.total_length - 1
  BY <1>5 DEF Positions, Whole, Fragment, IsPart
<1> QED
  BY <1>3, <1>5, <1>6, <1>7

\* Kept are fragments that were sent; assembled messages have all bytes.
Inv == /\ incompleteMessages \in Seq(Sent)
       /\ \A i \in DOMAIN incompleteMessages : isFragmented(incompleteMessages[i])
       /\ \A c \in completeMessages :
             c.msg \in Messages /\ c.written = Positions(c.msg)

LEMMA InitInv == Init => Inv
  BY DEF Init, Inv

\* The fragments found for the one that arrived are parts of its message.
LEMMA Assembled ==
    ASSUME NEW pending \in Seq(Sent), NEW f \in Sent,
           isComplete(findAllFragments(pending, f))
    PROVE  Written(findAllFragments(pending, f)) = Positions(Whole(f))
<1> DEFINE all == findAllFragments(pending, f)
           I   == {i \in DOMAIN pending : SameMessage(pending[i], f)}
<1>1. /\ all \in Seq(Sent)
      /\ \A k \in DOMAIN all : \E i \in I : all[k] = pending[i]
  <2>1. I \in SUBSET DOMAIN pending
    BY Zenon
  <2>2. all = Filtered(pending, I)
    BY Zenon DEF findAllFragments
  <2> HIDE DEF I, all
  <2>3. /\ Filtered(pending, I) \in Seq(Sent)
        /\ \A k \in DOMAIN Filtered(pending, I) :
              \E i \in I : Filtered(pending, I)[k] = pending[i]
    BY <2>1, FilteredFrom
  <2> QED
    BY <2>2, <2>3
<1>2. \A k \in DOMAIN all : IsPart(all[k]) /\ all[k].total_length = f.total_length
  BY <1>1, SentShape DEF SameMessage
<1>3. Len(all) \in Nat /\ DOMAIN all = 1 .. Len(all)
  BY <1>1
<1>4. f.total_length \in Nat
  BY SentShape DEF IsPart
<1> HIDE DEF all
<1>5. Written(all) = 0 .. f.total_length - 1
  <2>1. isComplete(all)
    BY Zenon DEF all
  <2> QED
    BY <1>2, <1>3, <1>4, <2>1, CompleteCovers, Zenon
<1> QED
  BY <1>5, SentShape, Zenon DEF all

LEMMA WholeKeeps ==
    ASSUME Inv, NEW r \in Records, ReceiveWhole(r)
    PROVE  Inv'
<1>1. r[2] \in Sent
  BY DEF Sent
<1>2. Written(<<r[2]>>) = Positions(Whole(r[2]))
  <2>1. Written(<<r[2]>>) = Positions(r[2])
    BY DEF Written
  <2>2. IsPart(r[2]) /\ Positions(Whole(r[2])) = 0 .. r[2].total_length - 1
    BY <1>1, SentShape
  <2>3. ~ (r[2].fragment_offset # 0 \/ r[2].total_length > r[2].length)
    BY DEF ReceiveWhole, isFragmented
  <2> QED
    BY <2>1, <2>2, <2>3 DEF Positions, IsPart
<1>3. Whole(r[2]) \in Messages
  BY <1>1, SentShape
<1>4. \A c \in completeMessages' :
         c.msg \in Messages /\ c.written = Positions(c.msg)
  <2>1. completeMessages' = completeMessages \cup
           {[msg |-> Whole(r[2]), written |-> Written(<<r[2]>>)]}
    BY Zenon DEF ReceiveWhole
  <2> QED
    BY <2>1, <1>2, <1>3 DEF Inv
<1> QED
  BY <1>4, Zenon DEF ReceiveWhole, Inv

LEMMA FragmentKeeps ==
    ASSUME Inv, NEW r \in Records, ReceiveFragment(r)
    PROVE  Inv'
<1> DEFINE f == r[2]
           pending == Append(incompleteMessages, f)
           all == findAllFragments(pending, f)
<1>1. f \in Sent /\ isFragmented(f)
  BY DEF Sent, ReceiveFragment
<1>2. /\ pending \in Seq(Sent)
      /\ \A i \in DOMAIN pending : isFragmented(pending[i])
  BY <1>1 DEF Inv
<1> HIDE DEF pending
<1>3. CASE isComplete(all)
  <2>1. /\ completeMessages' = completeMessages \cup
               {[msg |-> Whole(f), written |-> Written(all)]}
        /\ incompleteMessages' = Without(pending, f)
    BY <1>3, Zenon DEF ReceiveFragment, pending
  <2>2. Whole(f) \in Messages /\ Written(all) = Positions(Whole(f))
    BY <1>1, <1>2, <1>3, SentShape, Assembled, Zenon
  <2>3. \A c \in completeMessages' :
           c.msg \in Messages /\ c.written = Positions(c.msg)
    BY <2>1, <2>2 DEF Inv
  <2> DEFINE I == {i \in DOMAIN pending : ~ SameMessage(pending[i], f)}
  <2>4. /\ Without(pending, f) \in Seq(Sent)
        /\ \A k \in DOMAIN Without(pending, f) :
              \E i \in I : Without(pending, f)[k] = pending[i]
    <3>1. I \in SUBSET DOMAIN pending
      BY Zenon
    <3>2. Without(pending, f) = Filtered(pending, I)
      BY Zenon DEF Without
    <3> HIDE DEF I
    <3>3. /\ Filtered(pending, I) \in Seq(Sent)
          /\ \A k \in DOMAIN Filtered(pending, I) :
                \E i \in I : Filtered(pending, I)[k] = pending[i]
      BY <1>2, <3>1, FilteredFrom
    <3> QED
      BY <3>2, <3>3
  <2>5. \A k \in DOMAIN Without(pending, f) : isFragmented(Without(pending, f)[k])
    BY <1>2, <2>4, Zenon
  <2> QED
    BY <2>1, <2>3, <2>4, <2>5, Zenon DEF Inv
<1>4. CASE ~ isComplete(all)
  <2>1. incompleteMessages' = pending /\ UNCHANGED completeMessages
    BY <1>4, Zenon DEF ReceiveFragment, pending
  <2> QED
    BY <1>2, <2>1, Zenon DEF Inv
<1> QED
  BY <1>3, <1>4

LEMMA NextInv == Inv /\ [Next]_vars => Inv'
<1> SUFFICES ASSUME Inv, [Next]_vars PROVE Inv'
  OBVIOUS
<1>1. CASE UNCHANGED vars
  BY <1>1, Zenon DEF vars, Inv
<1>2. ASSUME NEW r \in Records, Receive(r) PROVE Inv'
  BY <1>2, WholeKeeps, FragmentKeeps, Zenon DEF Receive
<1> QED
  BY <1>1, <1>2, Zenon DEF Next

LEMMA AlwaysInv == Spec => []Inv
  BY InitInv, NextInv, PTL DEF Spec

\* The handler keeps fragments only, and assembles messages of the peer.
THEOREM Types == Spec => []TypeOK
<1>1. Inv => TypeOK
  BY DEF Inv, TypeOK
<1> QED
  BY AlwaysInv, <1>1, PTL

\* However a message is cut and in whatever order its fragments arrive, between
\* whatever others and however often: reassemble() gets every byte.
THEOREM EveryByteWritten == Spec => []NoUnwrittenByte
<1>1. Inv => NoUnwrittenByte
  BY DEF Inv, NoUnwrittenByte
<1> QED
  BY AlwaysInv, <1>1, PTL

-----------------------------------------------------------------------------
(* Fragments of one length: nothing is kept that could be assembled.        *)

\* The positions that the fragments of one message carry.
Carried(s, g) ==
    {p \in Int : \E i \in DOMAIN s : SameMessage(s[i], g) /\ p \in Positions(s[i])}

LEMMA WrittenIsCarried ==
    ASSUME NEW s \in Seq(Sent), NEW g
    PROVE  Written(findAllFragments(s, g)) = Carried(s, g)
<1> DEFINE I == {i \in DOMAIN s : SameMessage(s[i], g)}
           t == Filtered(s, I)
<1>1. I \in SUBSET DOMAIN s
  BY Zenon
<1>2. findAllFragments(s, g) = t
  BY Zenon DEF findAllFragments
<1>3. /\ t \in Seq(Sent)
      /\ \A k \in DOMAIN t : \E i \in I : t[k] = s[i]
  <2> HIDE DEF I
  <2> QED
    BY <1>1, FilteredFrom
<1>4. \A i \in I : \E k \in DOMAIN t : t[k] = s[i]
  <2> HIDE DEF I
  <2> QED
    BY <1>1, FilteredAll
<1>5. \A f \in Sent : Positions(f) \subseteq Int
  BY SentShape DEF IsPart, Positions
<1>6. \A i \in DOMAIN s : s[i] \in Sent
  OBVIOUS
<1> HIDE DEF t
<1>7. ASSUME NEW p \in Written(t) PROVE p \in Carried(s, g)
  <2>1. PICK k \in DOMAIN t : p \in Positions(t[k])
    BY Zenon DEF Written
  <2>2. PICK i \in I : t[k] = s[i]
    BY <1>3, Zenon
  <2>3. i \in DOMAIN s /\ SameMessage(s[i], g) /\ p \in Positions(s[i])
    BY <2>1, <2>2, Zenon
  <2>4. p \in Int
    BY <1>5, <1>6, <2>3, Zenon
  <2> QED
    BY <2>3, <2>4, Zenon DEF Carried
<1>8. ASSUME NEW p \in Carried(s, g) PROVE p \in Written(t)
  <2>1. PICK i \in DOMAIN s : SameMessage(s[i], g) /\ p \in Positions(s[i])
    BY Zenon DEF Carried
  <2>2. PICK k \in DOMAIN t : t[k] = s[i]
    BY <1>4, <2>1, Zenon
  <2> QED
    BY <2>1, <2>2, Zenon DEF Written
<1> QED
  BY <1>2, <1>7, <1>8, Zenon

\* Where fragments with different offsets do not overlap, and those with the
\* same offset are equally long, isComplete accepts whatever has no hole.
LEMMA CoveredIsComplete ==
    ASSUME NEW s, Len(s) \in Nat, DOMAIN s = 1 .. Len(s), s # <<>>,
           NEW N \in Nat \ {0},
           \A i \in DOMAIN s : /\ IsPart(s[i]) /\ s[i].total_length = N
                               /\ s[i].fragment_offset < N,
           \A i, j \in DOMAIN s :
              /\ s[i].fragment_offset = s[j].fragment_offset => s[i].length = s[j].length
              /\ s[i].fragment_offset < s[j].fragment_offset
                    => End(s[i]) < s[j].fragment_offset,
           0 .. N - 1 \subseteq Written(s)
    PROVE  isComplete(s)
<1>1. \A i \in DOMAIN s : /\ s[i].fragment_offset \in 0 .. N - 1
                          /\ s[i].length \in Nat
                          /\ End(s[i]) \in Int
                          /\ End(s[i]) = s[i].fragment_offset + s[i].length - 1
                          /\ End(s[i]) <= N - 1
                          /\ s[i].total_length = N
  BY DEF IsPart, End
<1>0. \A i, j \in DOMAIN s :
         /\ s[i].fragment_offset = s[j].fragment_offset => End(s[i]) = End(s[j])
         /\ s[i].fragment_offset < s[j].fragment_offset
               => End(s[i]) < s[j].fragment_offset
  <2> SUFFICES ASSUME NEW i \in DOMAIN s, NEW j \in DOMAIN s
               PROVE  s[i].fragment_offset = s[j].fragment_offset
                         => End(s[i]) = End(s[j])
    BY Zenon
  <2> QED
    BY Zenon DEF End
<1>2. ASSUME NEW p \in 0 .. N - 1
      PROVE  \E k \in DOMAIN s : s[k].fragment_offset <= p /\ p <= End(s[k])
  <2>1. PICK k \in DOMAIN s : p \in Positions(s[k])
    BY Zenon DEF Written
  <2> QED
    BY <1>1, <2>1 DEF Positions
<1>3. \A i, j \in DOMAIN s :
         s[i].fragment_offset < s[j].fragment_offset => Before(s, i, j)
  BY DEF Before
<1>4. StartsAtZero(s)
  <2> SUFFICES ASSUME NEW i \in DOMAIN s, Preceding(s, i) = {}
               PROVE  s[i].fragment_offset = 0
    BY Zenon DEF StartsAtZero
  <2>1. PICK k \in DOMAIN s : s[k].fragment_offset <= 0
    BY <1>2
  <2>2. ~ Before(s, k, i)
    BY Zenon DEF Preceding
  <2> QED
    BY <1>1, <1>3, <2>1, <2>2
<1>5. GapsAtMost(s, 1)
  <2> SUFFICES ASSUME NEW i \in DOMAIN s, NEW j \in Preceding(s, i),
                      Preceding(s, i) \cap Following(s, j) = {},
                      ~ (s[i].fragment_offset - End(s[j]) <= 1)
               PROVE  FALSE
    BY Zenon DEF GapsAtMost
  <2>0. j \in DOMAIN s
    BY Zenon DEF Preceding
  <2>1. /\ s[i].fragment_offset \in 0 .. N - 1
        /\ s[j].fragment_offset \in 0 .. N - 1 /\ s[j].length \in Nat
        /\ End(s[j]) \in Int
        /\ End(s[j]) = s[j].fragment_offset + s[j].length - 1
    BY <1>1, <2>0, Zenon
  <2>2. End(s[j]) + 1 >= s[j].fragment_offset
    BY <2>1
  <2>3. End(s[j]) + 1 < s[i].fragment_offset
    BY <2>1
  <2>4. End(s[j]) + 1 \in 0 .. N - 1 /\ End(s[j]) + 1 < s[i].fragment_offset
    <3> DEFINE p == End(s[j]) + 1
    <3>1. N - 1 \in Int /\ p \in Int
      BY <2>1
    <3>2. 0 <= p
      BY <2>1, <2>2
    <3>3. p <= N - 1
      BY <2>1, <2>3
    <3> HIDE DEF p
    <3>4. p \in 0 .. N - 1
      BY <3>1, <3>2, <3>3
    <3> QED
      BY <2>3, <3>4 DEF p
  <2>5. PICK k \in DOMAIN s : /\ s[k].fragment_offset <= End(s[j]) + 1
                              /\ End(s[j]) + 1 <= End(s[k])
    BY <1>2, <2>4
  <2>6. s[k].fragment_offset < s[i].fragment_offset
    BY <1>1, <2>0, <2>4, <2>5
  <2>7. s[j].fragment_offset < s[k].fragment_offset
    <3>0. /\ s[k].fragment_offset \in 0 .. N - 1 /\ End(s[k]) \in Int
          /\ s[k].fragment_offset = s[j].fragment_offset => End(s[k]) = End(s[j])
          /\ s[k].fragment_offset < s[j].fragment_offset
                => End(s[k]) < s[j].fragment_offset
      BY <1>0, <1>1, <2>0, <2>5, Zenon
    <3>1. s[k].fragment_offset # s[j].fragment_offset
      BY <2>1, <2>5, <3>0
    <3>2. ~ (s[k].fragment_offset < s[j].fragment_offset)
      BY <2>1, <2>5, <2>2, <3>0
    <3> QED
      BY <2>1, <3>0, <3>1, <3>2
  <2>8. k \in Preceding(s, i) /\ k \in Following(s, j)
    BY <1>3, <2>0, <2>6, <2>7, Zenon DEF Preceding, Following
  <2> QED
    BY <2>8
<1>6. EndsAtTotal(s)
  <2> SUFFICES ASSUME NEW i \in DOMAIN s, Following(s, i) = {}
               PROVE  End(s[i]) = s[i].total_length - 1
    BY Zenon DEF EndsAtTotal
  <2>1. PICK k \in DOMAIN s : s[k].fragment_offset <= N - 1 /\ N - 1 <= End(s[k])
    BY <1>2
  <2>2. ~ Before(s, i, k)
    BY Zenon DEF Following
  <2>3. ~ (s[i].fragment_offset < s[k].fragment_offset)
    BY <1>3, <2>2, Zenon
  <2>4. ~ (s[k].fragment_offset < s[i].fragment_offset)
    BY <1>1, <2>1
  <2>5. s[k].fragment_offset = s[i].fragment_offset
    BY <1>1, <2>3, <2>4
  <2>6. End(s[k]) = End(s[i]) /\ End(s[k]) \in Int /\ End(s[k]) <= N - 1
    BY <1>0, <1>1, <2>1, <2>5, Zenon
  <2>7. End(s[i]) = N - 1
    BY <2>1, <2>6
  <2> QED
    BY <1>1, <2>7, Zenon
<1> QED
  BY <1>4, <1>5, <1>6, Zenon DEF isComplete


-----------------------------------------------------------------------------
\* A message that is cut: where its fragments start and end.
LEMMA Cut ==
    ASSUME NEW f \in Sent
    PROVE  \E max \in {FirstLength, SecondLength}, k \in Nat :
              /\ f.fragment_offset = max * k
              /\ f.length = Shorter(max, f.total_length - f.fragment_offset)
              /\ f.fragment_offset < f.total_length \/ f.fragment_offset = 0
<1>1. PICK msg \in Messages, t \in Transmissions : f \in PeerFragments(msg, t[2])
  BY DEF Sent, Records
<1>2. t[2] \in {FirstLength, SecondLength} /\ t[2] \in Nat \ {0}
  BY PeerAssumption DEF Transmissions
<1>3. msg.total_length \in Nat
  BY PeerAssumption
<1>4. PICK o \in {k \in 0 .. msg.total_length :
                     k % t[2] = 0 /\ (k < msg.total_length \/ k = 0)} :
          f = Fragment(msg, o, Shorter(t[2], msg.total_length - o))
  BY <1>1, Zenon DEF PeerFragments
<1>5. /\ o \in Nat /\ o % t[2] = 0 /\ (o < msg.total_length \/ o = 0)
  BY <1>3, <1>4
<1>6. PICK k \in Nat : o = t[2] * k
  <2> DEFINE max == t[2]
  <2>1. max \in Nat \ {0} /\ o % max = 0
    BY <1>2, <1>5
  <2> HIDE DEF max
  <2>2. /\ o \div max \in Nat
        /\ o = max * (o \div max) + (o % max)
    BY <1>5, <2>1, SMTT(30)
  <2>3. o = max * (o \div max)
    BY <2>1, <2>2
  <2> QED
    BY <2>2, <2>3 DEF max
<1>7. /\ f.fragment_offset = o /\ f.total_length = msg.total_length
      /\ f.length = Shorter(t[2], msg.total_length - o)
  BY <1>4 DEF Fragment
<1>8. /\ f.fragment_offset = t[2] * k
      /\ f.length = Shorter(t[2], f.total_length - f.fragment_offset)
      /\ f.fragment_offset < f.total_length \/ f.fragment_offset = 0
  BY <1>5, <1>6, <1>7
<1> QED
  BY <1>2, <1>8, Zenon

\* A multiple that is smaller is smaller by at least the factor.
LEMMA Multiples ==
    ASSUME NEW m \in Nat, NEW a \in Nat, NEW b \in Nat, m * a < m * b
    PROVE  m * a + m <= m * b
<1>1. ~ (b <= a)
  BY SMTT(30)
<1>2. PICK d \in Nat : b = a + 1 + d
  <2>1. b - a - 1 \in Nat /\ b = a + 1 + (b - a - 1)
    BY <1>1
  <2> QED
    BY <2>1
<1>3. m * b = m * a + m + m * d
  BY <1>2, SMTT(30)
<1>4. m * d \in Nat /\ m * a \in Nat
  BY SMTT(30)
<1> QED
  BY <1>3, <1>4

\* Cut at one length, fragments of a message are the same or do not overlap.
LEMMA EqualCut ==
    ASSUME FirstLength = SecondLength, NEW f \in Sent, NEW g \in Sent,
           f.total_length = g.total_length
    PROVE  /\ f.fragment_offset = g.fragment_offset => f.length = g.length
           /\ f.fragment_offset < g.fragment_offset => End(f) < g.fragment_offset
<1>1. PICK a \in Nat :
         /\ f.fragment_offset = FirstLength * a
         /\ f.length = Shorter(FirstLength, f.total_length - f.fragment_offset)
  BY Cut
<1>2. PICK b \in Nat :
         /\ g.fragment_offset = FirstLength * b
         /\ g.length = Shorter(FirstLength, g.total_length - g.fragment_offset)
  BY Cut
<1>3. f.fragment_offset = g.fragment_offset => f.length = g.length
  BY <1>1, <1>2, Zenon
<1>4. ASSUME f.fragment_offset < g.fragment_offset
      PROVE  End(f) < g.fragment_offset
  <2>1. FirstLength \in Nat
    BY PeerAssumption
  <2>2. f.fragment_offset + FirstLength <= g.fragment_offset
    BY <1>1, <1>2, <1>4, <2>1, Multiples
  <2>3. /\ f.fragment_offset \in Nat /\ f.total_length \in Nat
        /\ g.fragment_offset \in Nat
    BY SentShape DEF IsPart
  <2>4. f.length \in Nat /\ f.length <= FirstLength
    <3>1. f.length \in Nat
      BY SentShape DEF IsPart
    <3>2. f.length = IF FirstLength < f.total_length - f.fragment_offset
                     THEN FirstLength ELSE f.total_length - f.fragment_offset
      BY <1>1 DEF Shorter
    <3>3. f.total_length - f.fragment_offset \in Int
      BY <2>3
    <3> QED
      BY <2>1, <3>1, <3>2, <3>3
  <2> QED
    BY <2>1, <2>2, <2>3, <2>4 DEF End
<1> QED
  BY <1>3, <1>4


\* Then a message whose bytes are all there is complete.
LEMMA AllThereIsComplete ==
    ASSUME FirstLength = SecondLength,
           NEW s \in Seq(Sent), NEW f \in Sent, isFragmented(f),
           Carried(s, f) = Positions(Whole(f))
    PROVE  isComplete(findAllFragments(s, f))
<1> DEFINE all == findAllFragments(s, f)
           I   == {i \in DOMAIN s : SameMessage(s[i], f)}
           N   == f.total_length
<1>1. N \in Nat \ {0} /\ Positions(Whole(f)) = 0 .. N - 1
  <2>1. IsPart(f) /\ Positions(Whole(f)) = 0 .. N - 1
    BY SentShape
  <2> QED
    BY <2>1 DEF isFragmented, IsPart
<1>2. Written(all) = 0 .. N - 1
  BY <1>1, WrittenIsCarried, Zenon
<1>3. /\ all \in Seq(Sent)
      /\ \A k \in DOMAIN all : \E i \in I : all[k] = s[i]
  <2>1. I \in SUBSET DOMAIN s
    BY Zenon
  <2>2. all = Filtered(s, I)
    BY Zenon DEF findAllFragments
  <2> HIDE DEF I, all
  <2>3. /\ Filtered(s, I) \in Seq(Sent)
        /\ \A k \in DOMAIN Filtered(s, I) :
              \E i \in I : Filtered(s, I)[k] = s[i]
    BY <2>1, FilteredFrom
  <2> QED
    BY <2>2, <2>3
<1>4. \A k \in DOMAIN all : all[k] \in Sent /\ all[k].total_length = N
  BY <1>3 DEF SameMessage
<1>5. Len(all) \in Nat /\ DOMAIN all = 1 .. Len(all)
  BY <1>3
<1> HIDE DEF all, N
<1>6. all # <<>>
  <2>1. 0 \in Written(all)
    BY <1>1, <1>2
  <2>2. PICK k \in DOMAIN all : 0 \in Positions(all[k])
    BY <2>1, Zenon DEF Written
  <2> QED
    BY <2>2
<1>7. \A k \in DOMAIN all : /\ IsPart(all[k]) /\ all[k].total_length = N
                            /\ all[k].fragment_offset < N
  <2> SUFFICES ASSUME NEW k \in DOMAIN all
               PROVE  IsPart(all[k]) /\ all[k].fragment_offset < N
    BY <1>4
  <2>1. all[k].fragment_offset < all[k].total_length \/ all[k].fragment_offset = 0
    BY <1>4, Cut, Zenon
  <2> QED
    BY <1>1, <1>4, <2>1, SentShape
<1>8. \A i, j \in DOMAIN all :
         /\ all[i].fragment_offset = all[j].fragment_offset
               => all[i].length = all[j].length
         /\ all[i].fragment_offset < all[j].fragment_offset
               => End(all[i]) < all[j].fragment_offset
  BY <1>4, EqualCut, Zenon
<1>9. 0 .. N - 1 \subseteq Written(all)
  BY <1>2, Zenon
<1>10. isComplete(all)
  BY <1>1, <1>5, <1>6, <1>7, <1>8, <1>9, CoveredIsComplete, Zenon
<1> QED
  BY <1>10 DEF all

\* What is kept of a message lacks some of its bytes.
Lacking == \A i \in DOMAIN incompleteMessages :
              Carried(incompleteMessages, incompleteMessages[i])
                 # Positions(Whole(incompleteMessages[i]))

\* What is carried of a message is part of it.
LEMMA CarriedInside ==
    ASSUME NEW s \in Seq(Sent), NEW f \in Sent
    PROVE  Carried(s, f) \subseteq Positions(Whole(f))
<1> SUFFICES ASSUME NEW p \in Carried(s, f) PROVE p \in Positions(Whole(f))
  OBVIOUS
<1>1. PICK i \in DOMAIN s : SameMessage(s[i], f) /\ p \in Positions(s[i])
  BY Zenon DEF Carried
<1>2. /\ IsPart(s[i]) /\ s[i].total_length = f.total_length
      /\ Positions(Whole(f)) = 0 .. f.total_length - 1
  BY <1>1, SentShape DEF SameMessage
<1>3. p \in 0 .. f.total_length - 1
  BY <1>1, <1>2 DEF Positions, IsPart
<1> QED
  BY <1>2, <1>3, Zenon

LEMMA SameIsEquivalence ==
    /\ \A f : SameMessage(f, f)
    /\ \A f, g : SameMessage(f, g) => SameMessage(g, f)
    /\ \A f, g, h : SameMessage(f, g) /\ SameMessage(g, h) => SameMessage(f, h)
  BY Zenon DEF SameMessage

\* One of its fragments is as good as another to tell what is carried.
LEMMA CarriedOfSame ==
    ASSUME NEW s, NEW f, NEW g, SameMessage(f, g)
    PROVE  Carried(s, f) = Carried(s, g)
  BY SameIsEquivalence, Zenon DEF Carried

LEMMA FragmentLacks ==
    ASSUME FirstLength = SecondLength, Inv, Lacking,
           NEW r \in Records, ReceiveFragment(r)
    PROVE  Lacking'
<1> DEFINE f == r[2]
           pending == Append(incompleteMessages, f)
           all == findAllFragments(pending, f)
<1>1. f \in Sent /\ isFragmented(f)
  BY DEF Sent, ReceiveFragment
<1>2. /\ incompleteMessages \in Seq(Sent) /\ pending \in Seq(Sent)
      /\ Len(pending) = Len(incompleteMessages) + 1
      /\ pending[Len(pending)] = f
      /\ \A i \in DOMAIN incompleteMessages :
            i \in DOMAIN pending /\ pending[i] = incompleteMessages[i]
      /\ \A i \in DOMAIN pending :
            i \in DOMAIN incompleteMessages \/ i = Len(pending)
  BY <1>1 DEF Inv
<1> HIDE DEF pending
\* Other messages have what they had.
<1>3. ASSUME NEW g \in Sent, ~ SameMessage(f, g),
             NEW t, \A k \in DOMAIN t : \E i \in DOMAIN pending : t[k] = pending[i]
      PROVE  Carried(t, g) \subseteq Carried(incompleteMessages, g)
  <2> SUFFICES ASSUME NEW p \in Carried(t, g)
               PROVE  p \in Carried(incompleteMessages, g)
    OBVIOUS
  <2>1. PICK k \in DOMAIN t : SameMessage(t[k], g) /\ p \in Positions(t[k]) /\ p \in Int
    BY Zenon DEF Carried
  <2>2. PICK i \in DOMAIN pending : t[k] = pending[i]
    BY <1>3, Zenon
  <2>3. i # Len(pending)
    BY <1>2, <1>3, <2>1, <2>2, Zenon
  <2>4. i \in DOMAIN incompleteMessages /\ t[k] = incompleteMessages[i]
    BY <1>2, <2>2, <2>3, Zenon
  <2> QED
    BY <2>1, <2>4, Zenon DEF Carried
<1>4. ASSUME NEW g \in Sent, ~ SameMessage(f, g),
             NEW t \in Seq(Sent),
             \A k \in DOMAIN t : \E i \in DOMAIN pending : t[k] = pending[i],
             \E i \in DOMAIN pending : g = pending[i]
      PROVE  Carried(t, g) # Positions(Whole(g))
  <2>1. PICK i \in DOMAIN pending : g = pending[i]
    BY <1>4
  <2>2. i # Len(pending)
    BY <1>2, <1>4, <2>1, SameIsEquivalence, Zenon
  <2>3. i \in DOMAIN incompleteMessages /\ g = incompleteMessages[i]
    BY <1>2, <2>1, <2>2, Zenon
  <2>4. Carried(incompleteMessages, g) # Positions(Whole(g))
    BY <2>3, Zenon DEF Lacking
  <2>5. Carried(t, g) \subseteq Carried(incompleteMessages, g)
    BY <1>3, <1>4, Zenon
  <2>6. Carried(incompleteMessages, g) \subseteq Positions(Whole(g))
    BY <1>2, <1>4, CarriedInside, Zenon
  <2> QED
    BY <2>4, <2>5, <2>6, Zenon
<1>5. CASE isComplete(all)
  <2> DEFINE I == {i \in DOMAIN pending : ~ SameMessage(pending[i], f)}
             t == Without(pending, f)
  <2>1. incompleteMessages' = t
    BY <1>5, Zenon DEF ReceiveFragment, pending
  <2>2. /\ t \in Seq(Sent)
        /\ \A k \in DOMAIN t : \E i \in I : t[k] = pending[i]
    <3>1. I \in SUBSET DOMAIN pending
      BY Zenon
    <3>2. t = Filtered(pending, I)
      BY Zenon DEF Without
    <3> HIDE DEF I, t
    <3>3. /\ Filtered(pending, I) \in Seq(Sent)
          /\ \A k \in DOMAIN Filtered(pending, I) :
                \E i \in I : Filtered(pending, I)[k] = pending[i]
      BY <1>2, <3>1, FilteredFrom
    <3> QED
      BY <3>2, <3>3
  <2>3. \A k \in DOMAIN t : Carried(t, t[k]) # Positions(Whole(t[k]))
    <3> SUFFICES ASSUME NEW k \in DOMAIN t
                 PROVE  Carried(t, t[k]) # Positions(Whole(t[k]))
      BY Zenon
    <3>1. t[k] \in Sent
      BY <2>2
    <3>2. PICK i \in I : t[k] = pending[i]
      BY <2>2, Zenon
    <3>3. ~ SameMessage(f, t[k])
      BY <3>2, SameIsEquivalence, Zenon
    <3>4. \A l \in DOMAIN t : \E j \in DOMAIN pending : t[l] = pending[j]
      BY <2>2, Zenon
    <3> HIDE DEF t
    <3> QED
      BY <1>4, <2>2, <3>1, <3>2, <3>3, <3>4, Zenon
  <2> QED
    BY <2>1, <2>3, Zenon DEF Lacking
<1>6. CASE ~ isComplete(all)
  <2>1. incompleteMessages' = pending
    BY <1>6, Zenon DEF ReceiveFragment, pending
  <2>2. Carried(pending, f) # Positions(Whole(f))
    BY <1>1, <1>2, <1>6, AllThereIsComplete, Zenon
  <2>3. \A i \in DOMAIN pending :
           Carried(pending, pending[i]) # Positions(Whole(pending[i]))
    <3> SUFFICES ASSUME NEW i \in DOMAIN pending
                 PROVE  Carried(pending, pending[i]) # Positions(Whole(pending[i]))
      BY Zenon
    <3>1. pending[i] \in Sent
      BY <1>2
    <3>2. CASE SameMessage(f, pending[i])
      <4>1. Carried(pending, pending[i]) = Carried(pending, f)
        BY <3>2, CarriedOfSame, Zenon
      <4>2. Positions(Whole(pending[i])) = Positions(Whole(f))
        BY <1>1, <3>1, <3>2, SentShape DEF SameMessage
      <4> QED
        BY <2>2, <4>1, <4>2, Zenon
    <3>3. CASE ~ SameMessage(f, pending[i])
      BY <1>2, <1>4, <3>1, <3>3, Zenon
    <3> QED
      BY <3>2, <3>3
  <2> QED
    BY <2>1, <2>3, Zenon DEF Lacking
<1> QED
  BY <1>5, <1>6


LEMMA KeptAsWritten ==
    ASSUME Inv
    PROVE  KeptOnlyIfIncomplete <=> Lacking
<1>1. incompleteMessages \in Seq(Sent)
  BY Zenon DEF Inv
<1>2. \A g : Written(findAllFragments(incompleteMessages, g))
                = Carried(incompleteMessages, g)
  BY <1>1, WrittenIsCarried, Zenon
<1> QED
  BY <1>2, Zenon DEF KeptOnlyIfIncomplete, Lacking

LEMMA NextLacking ==
    ASSUME FirstLength = SecondLength, Inv, Lacking, [Next]_vars
    PROVE  Lacking'
<1>1. CASE UNCHANGED vars
  BY <1>1, Zenon DEF vars, Lacking
<1>2. ASSUME NEW r \in Records, Receive(r) PROVE Lacking'
  <2>1. CASE ReceiveWhole(r)
    BY <2>1, Zenon DEF ReceiveWhole, Lacking
  <2>2. CASE ReceiveFragment(r)
    BY <2>2, FragmentLacks
  <2> QED
    BY <1>2, <2>1, <2>2, Zenon DEF Receive
<1> QED
  BY <1>1, <1>2, Zenon DEF Next

\* If the peer fragments its messages at one length: what is kept as incomplete
\* is incomplete, whatever arrived in whatever order.
THEOREM KeptIncomplete ==
    ASSUME FirstLength = SecondLength
    PROVE  Spec => []KeptOnlyIfIncomplete
<1>1. Init => Lacking
  BY DEF Init, Lacking
<1>2. Inv /\ Lacking /\ [Next]_vars => Lacking'
  BY NextLacking, Zenon
<1>3. Inv /\ Lacking => KeptOnlyIfIncomplete
  BY KeptAsWritten, Zenon
<1> QED
  BY AlwaysInv, <1>1, <1>2, <1>3, PTL DEF Spec

-----------------------------------------------------------------------------
(* A transmission that arrives as a whole is assembled.                     *)

IsAssembled(msg) == \E c \in completeMessages : c.msg = msg
IsKept(f) == \E i \in DOMAIN incompleteMessages : incompleteMessages[i] = f

\* Nothing that arrived is lost.
NothingLost == \A r \in arrived : /\ r \in Records
                                  /\ IsAssembled(Whole(r[2])) \/ IsKept(r[2])

LEMMA FragmentNotLost ==
    ASSUME Inv, NothingLost, NEW r \in Records, ReceiveFragment(r)
    PROVE  \A q \in arrived \cup {r} :
              IsAssembled(Whole(q[2]))' \/ IsKept(q[2])'
<1> DEFINE f == r[2]
           pending == Append(incompleteMessages, f)
           all == findAllFragments(pending, f)
<1>1. f \in Sent
  BY DEF Sent
<1>2. /\ pending \in Seq(Sent)
      /\ \A i \in DOMAIN incompleteMessages :
            i \in DOMAIN pending /\ pending[i] = incompleteMessages[i]
      /\ Len(pending) \in DOMAIN pending /\ pending[Len(pending)] = f
  BY <1>1 DEF Inv
<1> HIDE DEF pending
<1>3. \A q \in arrived \cup {r} :
         IsAssembled(Whole(q[2])) \/ \E i \in DOMAIN pending : pending[i] = q[2]
  BY <1>2, Zenon DEF NothingLost, IsKept
<1>4. \A q \in arrived \cup {r} : q[2] \in Sent
  BY Zenon DEF NothingLost, Sent
<1> SUFFICES ASSUME NEW q \in arrived \cup {r}
             PROVE  IsAssembled(Whole(q[2]))' \/ IsKept(q[2])'
  BY Zenon
<1>5. CASE isComplete(all)
  <2> DEFINE I == {i \in DOMAIN pending : ~ SameMessage(pending[i], f)}
             t == Without(pending, f)
             done == [msg |-> Whole(f), written |-> Written(all)]
  <2>1. incompleteMessages' = t /\ completeMessages' = completeMessages \cup {done}
    BY <1>5, Zenon DEF ReceiveFragment, pending
  <2>2. done.msg = Whole(f)
    OBVIOUS
  <2> HIDE DEF done
  <2>3. CASE IsAssembled(Whole(q[2]))
    BY <2>1, <2>3, Zenon DEF IsAssembled
  <2>4. CASE \E i \in DOMAIN pending : pending[i] = q[2]
    <3>1. CASE SameMessage(q[2], f)
      <4>1. SameMessage(Whole(q[2]), Whole(f))
        BY <3>1 DEF SameMessage, Whole, Fragment
      <4>2. Whole(q[2]) = Whole(f)
        BY <1>1, <1>4, <4>1, SentShape, PeerAssumption, Zenon
      <4> QED
        BY <2>1, <2>2, <4>2, Zenon DEF IsAssembled
    <3>2. CASE ~ SameMessage(q[2], f)
      <4>1. PICK i \in I : pending[i] = q[2]
        BY <2>4, <3>2, Zenon
      <4>2. I \in SUBSET DOMAIN pending /\ t = Filtered(pending, I)
        BY Zenon DEF Without
      <4> HIDE DEF I, t
      <4>3. \E k \in DOMAIN Filtered(pending, I) : Filtered(pending, I)[k] = pending[i]
        BY <1>2, <4>1, <4>2, FilteredAll
      <4>4. \E k \in DOMAIN t : t[k] = q[2]
        BY <4>1, <4>2, <4>3, Zenon
      <4> QED
        BY <2>1, <4>4, Zenon DEF IsKept
    <3> QED
      BY <3>1, <3>2
  <2> QED
    BY <1>3, <2>3, <2>4, Zenon
<1>6. CASE ~ isComplete(all)
  <2>1. incompleteMessages' = pending /\ completeMessages' = completeMessages
    BY <1>6, Zenon DEF ReceiveFragment, pending
  <2> QED
    BY <1>3, <2>1, Zenon DEF IsAssembled, IsKept
<1> QED
  BY <1>5, <1>6

LEMMA NextNothingLost ==
    ASSUME Inv, NothingLost, [Next]_vars
    PROVE  NothingLost'
<1>1. CASE UNCHANGED vars
  BY <1>1, Zenon DEF vars, NothingLost, IsAssembled, IsKept
<1>2. ASSUME NEW r \in Records, Receive(r) PROVE NothingLost'
  <2>1. arrived' = arrived \cup {r}
    BY <1>2, Zenon DEF Receive
  <2>2. \A q \in arrived \cup {r} : IsAssembled(Whole(q[2]))' \/ IsKept(q[2])'
    <3>1. CASE ReceiveWhole(r)
      <4> DEFINE done == [msg |-> Whole(r[2]), written |-> Written(<<r[2]>>)]
      <4>1. /\ completeMessages' = completeMessages \cup {done}
            /\ incompleteMessages' = incompleteMessages
        BY <3>1, Zenon DEF ReceiveWhole
      <4>2. done.msg = Whole(r[2])
        OBVIOUS
      <4> HIDE DEF done
      <4> QED
        BY <4>1, <4>2, Zenon DEF NothingLost, IsAssembled, IsKept
    <3>2. CASE ReceiveFragment(r)
      BY <3>2, FragmentNotLost
    <3> QED
      BY <1>2, <3>1, <3>2, Zenon DEF Receive
  <2> QED
    BY <2>1, <2>2, Zenon DEF NothingLost
<1> QED
  BY <1>1, <1>2, Zenon DEF Next

\* The fragments of a transmission carry the whole message.
LEMMA TransmissionCovers ==
    ASSUME NEW msg \in Messages, NEW t \in Transmissions,
           NEW p \in 0 .. msg.total_length - 1
    PROVE  \E f \in PeerFragments(msg, t[2]) : p \in Positions(f)
<1> DEFINE max == t[2]
<1>1. max \in Nat \ {0}
  BY PeerAssumption DEF Transmissions
<1>2. msg.total_length \in Nat /\ p \in Nat /\ p < msg.total_length
  BY PeerAssumption
<1> HIDE DEF max
<1> DEFINE q == p \div max
           o == max * q
<1>3. q \in Nat /\ p = max * q + (p % max) /\ p % max \in 0 .. max - 1
  BY <1>1, <1>2, SMTT(30)
<1>4. o \in Nat /\ o <= p /\ p < o + max
  <2>1. max * q \in Nat
    BY <1>1, <1>3, SMTT(30)
  <2> QED
    BY <1>1, <1>3, <2>1
<1>5. o % max = 0
  <2>1. (max * q) % max = 0
    BY <1>1, <1>3, SMTT(30)
  <2> QED
    BY <2>1
<1> HIDE DEF o
<1> DEFINE f == Fragment(msg, o, Shorter(max, msg.total_length - o))
<1>6. f \in PeerFragments(msg, max)
  <2>1. o \in {k \in 0 .. msg.total_length :
                  k % max = 0 /\ (k < msg.total_length \/ k = 0)}
    BY <1>2, <1>4, <1>5
  <2> QED
    BY <2>1, Zenon DEF PeerFragments
<1>7. p \in Positions(f)
  BY <1>1, <1>2, <1>4 DEF Positions, Fragment, Shorter
<1> QED
  BY <1>6, <1>7 DEF max

\* If the peer fragments its messages at one length: once all fragments of a
\* transmission are there the message is assembled, whatever else arrived and
\* in whatever order.
THEOREM WholeAssembles ==
    ASSUME FirstLength = SecondLength
    PROVE  Spec => []WholeTransmissionAssembles
<1>1. Init => NothingLost /\ Lacking
  BY DEF Init, NothingLost, Lacking
<1>2. Inv /\ NothingLost /\ Lacking /\ [Next]_vars => NothingLost' /\ Lacking'
  BY NextNothingLost, NextLacking, Zenon
<1>3. ASSUME Inv, NothingLost, Lacking PROVE WholeTransmissionAssembles
  <2> SUFFICES ASSUME NEW msg \in Messages, NEW t \in Transmissions,
                      {t[1]} \X PeerFragments(msg, t[2]) \subseteq arrived,
                      ~ IsAssembled(msg)
               PROVE  FALSE
    BY Zenon DEF WholeTransmissionAssembles, IsAssembled
  <2>1. ASSUME NEW f \in PeerFragments(msg, t[2])
        PROVE  f \in Sent /\ Whole(f) = msg /\ IsKept(f)
    <3>1. \E r \in arrived : r[2] = f
      <4>1. <<t[1], f>> \in arrived /\ <<t[1], f>>[2] = f
        OBVIOUS
      <4> QED
        BY <4>1, Zenon
    <3>2. IsAssembled(Whole(f)) \/ IsKept(f)
      BY <1>3, <3>1, Zenon DEF NothingLost
    <3>3. msg = Whole(msg)
      BY PeerAssumption
    <3>4. Whole(f) = msg
      BY <3>3 DEF PeerFragments, Whole, Fragment
    <3>5. f \in Sent
      BY <1>3, <3>1, Zenon DEF NothingLost, Sent
    <3> QED
      BY <3>2, <3>4, <3>5, Zenon
  <2>2. \E f \in PeerFragments(msg, t[2]) : TRUE
    <3>1. t[2] \in Nat \ {0} /\ msg.total_length \in Nat
      BY PeerAssumption DEF Transmissions
    <3>2. 0 \in {k \in 0 .. msg.total_length :
                    k % t[2] = 0 /\ (k < msg.total_length \/ k = 0)}
      BY <3>1, SMTT(30)
    <3> QED
      BY <3>2, Zenon DEF PeerFragments
  <2>3. PICK g \in PeerFragments(msg, t[2]) : TRUE
    BY <2>2
  <2>4. Positions(Whole(g)) = 0 .. msg.total_length - 1 /\ g \in Sent
    <3>1. g.total_length = msg.total_length
      BY <2>3 DEF PeerFragments, Fragment
    <3> QED
      BY <2>1, <2>3, <3>1, SentShape
  <2>5. ASSUME NEW p \in 0 .. msg.total_length - 1
        PROVE  p \in Carried(incompleteMessages, g)
    <3>1. PICK f \in PeerFragments(msg, t[2]) : p \in Positions(f)
      BY TransmissionCovers
    <3>2. SameMessage(f, g)
      BY <2>3, <3>1 DEF PeerFragments, SameMessage, Fragment
    <3>3. IsKept(f)
      BY <2>1, <3>1, Zenon
    <3>4. p \in Int
      OBVIOUS
    <3> QED
      BY <3>1, <3>2, <3>3, <3>4, Zenon DEF IsKept, Carried
  <2>6. Carried(incompleteMessages, g) \subseteq Positions(Whole(g))
    BY <1>3, <2>4, CarriedInside, Zenon DEF Inv
  <2>7. Carried(incompleteMessages, g) = Positions(Whole(g))
    BY <2>4, <2>5, <2>6, Zenon
  <2>8. IsKept(g)
    BY <2>1, <2>3, Zenon
  <2> QED
    BY <1>3, <2>7, <2>8, Zenon DEF Lacking, IsKept
<1> QED
  BY AlwaysInv, <1>1, <1>2, <1>3, PTL DEF Spec
=============================================================================
