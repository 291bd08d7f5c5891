---------------------------- MODULE SlidingWindow ----------------------------
(***************************************************************************)
(* One anti-replay window under the use src/DTLS/RecordLayer.ts makes of    *)
(* it: a record of any sequence number arrives, is dropped unless           *)
(* mayReceive, and is marked when it was deciphered.                        *)
(***************************************************************************)
EXTENDS AntiReplayWindow

CONSTANT SeqNums    \* sequence numbers on the wire (0 .. 2^48-1)

ASSUME SeqNumsAssumption == SeqNums \subseteq Nat

VARIABLES wnd,        \* the window object
          accepted    \* history: the sequence numbers let through so far

vars == <<wnd, accepted>>

Init == /\ wnd = NewWindow
        /\ accepted = {}

\* A record alone in its datagram that passes the filter and deciphers.
Receive(s) == /\ mayReceive(wnd, s)
              /\ wnd' = markAsReceived(wnd, s)
              /\ accepted' = accepted \cup {s}

Next == \E s \in SeqNums : Receive(s)

Spec == Init /\ [][Next]_vars

-----------------------------------------------------------------------------
\* The bitmap keeps its shape and the ceiling never falls below its start.
TypeOK == /\ wnd \in Window
          /\ wnd.ceiling >= width - 1
          /\ accepted \subseteq SeqNums

\* markAsReceived shifts by whole blocks and then bitwise, across blocks: no
\* sequence number that was let through may lose its bit while it is in the
\* window, whatever jumps follow it.
RememberedInWindow ==
    \A s \in accepted :
        s >= lowerBound(wnd) => hasReceived(wnd, s)

\* mayReceive lets no sequence number through a second time, neither while
\* its bit is in the window nor after the window has moved past it.
NeverAcceptedAgain == \A s \in accepted : ~ mayReceive(wnd, s)

\* The ceiling is the `highest received seq_num' (the field's comment) once
\* anything above the initial window was received.
CeilingIsHighest ==
    \/ wnd.ceiling = width - 1 /\ \A s \in accepted : s <= wnd.ceiling
    \/ wnd.ceiling \in accepted /\ \A s \in accepted : s <= wnd.ceiling

\* Every record let through is one the ideal window, which remembers exactly
\* what it received, lets through as well.
Ideal == INSTANCE IdealWindow WITH Width    <- width,
                                   received <- accepted,
                                   ceiling  <- wnd.ceiling

ImplementsIdeal == Ideal!Spec

\* hasReceived `checks if the packet with the given sequence number is marked
\* as received': no bit of the window is set for a number never marked.
OnlyReceivedIsMarked ==
    \A s \in SeqNums : hasReceived(wnd, s) => s \in accepted
=============================================================================
