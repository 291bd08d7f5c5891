------------------------- MODULE SlidingWindowProofs -------------------------
(***************************************************************************)
(* The properties of SlidingWindow for every integer size, every number of  *)
(* integers and every set of sequence numbers.                              *)
(***************************************************************************)
EXTENDS SlidingWindow, OperatorLemmas

-----------------------------------------------------------------------------
(* The specification.                                                       *)

\* The inductive invariant: NeverAcceptedAgain alone is not inductive, since
\* nothing in it says that the bits it relies on survive the next shift.
IInv == TypeOK /\ RememberedInWindow /\ CeilingIsHighest

\* The invariant holds of a window just made.
LEMMA InitIInv == Init => IInv
<1> SUFFICES ASSUME Init PROVE IInv
  OBVIOUS
<1>1. width \in Nat
  BY WindowAssumption, SMTT(30) DEF width
<1>2. wnd \in Window /\ wnd.ceiling = width - 1 /\ accepted = {}
  BY <1>1 DEF Init, NewWindow, Window
<1> QED
  BY <1>1, <1>2 DEF IInv, TypeOK, RememberedInWindow, CeilingIsHighest

\* An accepted packet cannot pass mayReceive in a state of the invariant.
LEMMA IInvAcceptedOnce == IInv => NeverAcceptedAgain
<1> SUFFICES ASSUME IInv, NEW s \in accepted, mayReceive(wnd, s) PROVE FALSE
  BY DEF NeverAcceptedAgain
<1>1. s \in Int /\ wnd.ceiling \in Int /\ width \in Nat
  BY SeqNumsAssumption, WindowAssumption, SMTT(30)
     DEF IInv, TypeOK, Window, width
<1>2. s <= wnd.ceiling
  BY DEF IInv, CeilingIsHighest
<1>3. s >= lowerBound(wnd) /\ ~ hasReceived(wnd, s)
  BY <1>1, <1>2 DEF mayReceive, lowerBound
<1> QED
  BY <1>3 DEF IInv, RememberedInWindow

\* A packet that is let through and marked keeps the invariant.
LEMMA ReceiveIInv ==
    ASSUME IInv, NEW s \in SeqNums, Receive(s)
    PROVE  IInv'
<1>1. wnd \in Window /\ s \in Int /\ accepted \subseteq Int
  BY SeqNumsAssumption DEF IInv, TypeOK
<1>2. /\ wnd' \in Window
      /\ wnd'.ceiling = IF s > wnd.ceiling THEN s ELSE wnd.ceiling
      /\ wnd' = markAsReceived(wnd, s)
      /\ accepted' = accepted \cup {s}
  BY <1>1, MarkType DEF Receive
<1>3. wnd.ceiling \in Int /\ width \in Nat /\ wnd.ceiling >= width - 1
  BY WindowAssumption, SMTT(30) DEF IInv, TypeOK, Window, width
<1>4. TypeOK'
  BY <1>1, <1>2, <1>3 DEF IInv, TypeOK
<1>5. RememberedInWindow'
  <2> SUFFICES ASSUME NEW t \in accepted', t >= lowerBound(wnd')
               PROVE  hasReceived(wnd', t)
    BY DEF RememberedInWindow
  <2>1. hasReceived(wnd, t) \/ t = s
    <3>1. CASE t \in accepted
      <4>1. t >= lowerBound(wnd)
        BY <3>1, <1>1, <1>2, <1>3 DEF lowerBound
      <4> QED
        BY <3>1, <4>1 DEF IInv, RememberedInWindow
    <3> QED
      BY <3>1, <1>2
  <2> QED
    BY <2>1, <1>1, <1>2, MarkSets
<1>6. CeilingIsHighest'
  BY <1>1, <1>2, <1>3 DEF IInv, CeilingIsHighest
<1> QED
  BY <1>4, <1>5, <1>6 DEF IInv

\* Every step keeps the invariant.
LEMMA NextIInv == IInv /\ [Next]_vars => IInv'
<1> SUFFICES ASSUME IInv, [Next]_vars PROVE IInv'
  OBVIOUS
<1>1. CASE Next
  BY <1>1, ReceiveIInv DEF Next
<1>2. CASE UNCHANGED vars
  BY <1>2 DEF vars, IInv, TypeOK, RememberedInWindow, CeilingIsHighest,
              lowerBound, hasReceived
<1> QED
  BY <1>1, <1>2

\* The window keeps its shape, every packet it let through keeps its bit as
\* long as it is in the window, and the ceiling is the highest of them.
THEOREM WindowInvariant == Spec => []IInv
  BY InitIInv, NextIInv, PTL DEF Spec

\* For every size of the window and every order of arrival, markAsReceived
\* and mayReceive let no sequence number through twice.
THEOREM AtMostOnce == Spec => []NeverAcceptedAgain
  BY WindowInvariant, IInvAcceptedOnce, PTL

\* The bitmap keeps its shape under every jump of the ceiling.
THEOREM WindowShape == Spec => []TypeOK
<1>1. IInv => TypeOK
  BY DEF IInv
<1> QED
  BY <1>1, WindowInvariant, PTL

\* The ceiling is the highest number let through, as its comment says, from
\* the first one above the initial window on.
THEOREM CeilingHighest == Spec => []CeilingIsHighest
<1>1. IInv => CeilingIsHighest
  BY DEF IInv
<1> QED
  BY <1>1, WindowInvariant, PTL

\* The bit of a packet let through survives every later shift.
THEOREM Remembers == Spec => []RememberedInWindow
<1>1. IInv => RememberedInWindow
  BY DEF IInv
<1> QED
  BY <1>1, WindowInvariant, PTL

\* A packet the code's window lets through is one the ideal window lets
\* through, and the two move their ceilings alike.
LEMMA ReceiveRefines ==
    ASSUME IInv, NEW s \in SeqNums, Receive(s)
    PROVE  Ideal!Accept(s)
<1>1. wnd \in Window /\ s \in Int
  BY SeqNumsAssumption DEF IInv, TypeOK
<1>2. wnd.ceiling \in Int /\ width \in Nat
  BY WindowAssumption, SMTT(30) DEF IInv, TypeOK, Window, width
<1>3. s \notin accepted
  BY IInvAcceptedOnce DEF NeverAcceptedAgain, Receive
<1>4. s > wnd.ceiling - width /\ s <= wnd.ceiling + width
  BY <1>1, <1>2 DEF Receive, mayReceive, lowerBound
<1>5. wnd'.ceiling = IF s > wnd.ceiling THEN s ELSE wnd.ceiling
  BY <1>1, MarkType DEF Receive
<1> QED
  BY <1>3, <1>4, <1>5 DEF Ideal!Accept, Ideal!Acceptable, Receive

\* The bitmap implements the exact set of received sequence numbers: what it
\* accepts, the ideal window accepts.
THEOREM WindowImplementsIdeal == Spec => ImplementsIdeal
<1>1. Init => Ideal!Init
  BY DEF Init, NewWindow, Ideal!Init
<1>2. IInv /\ [Next]_vars => [Ideal!Next]_(Ideal!vars)
  <2> SUFFICES ASSUME IInv, [Next]_vars PROVE [Ideal!Next]_(Ideal!vars)
    OBVIOUS
  <2>1. CASE Next
    BY <2>1, ReceiveRefines DEF Next, Ideal!Next
  <2>2. CASE UNCHANGED vars
    BY <2>2 DEF vars, Ideal!vars
  <2> QED
    BY <2>1, <2>2
<1> QED
  BY <1>1, <1>2, WindowInvariant, PTL DEF Spec, Ideal!Spec, ImplementsIdeal
=============================================================================
