----------------------------- MODULE IdealWindow -----------------------------
(***************************************************************************)
(* What the comments of src/TLS/AntiReplayWindow.ts promise: the sequence   *)
(* numbers received are remembered exactly, a packet is accepted at most    *)
(* once, and never when it is `too old' or when too many were skipped.      *)
(***************************************************************************)
EXTENDS Integers

CONSTANTS Width, SeqNums

VARIABLES received,   \* the sequence numbers accepted so far
          ceiling     \* the upper end of the window

vars == <<received, ceiling>>

Acceptable(s) == /\ s \notin received
                 /\ s > ceiling - Width
                 /\ s <= ceiling + Width

Init == /\ received = {}
        /\ ceiling = Width - 1

Accept(s) == /\ Acceptable(s)
             /\ received' = received \cup {s}
             /\ ceiling' = IF s > ceiling THEN s ELSE ceiling

Next == \E s \in SeqNums : Accept(s)

Spec == Init /\ [][Next]_vars
=============================================================================
