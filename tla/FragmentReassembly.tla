------------------------- MODULE FragmentReassembly -------------------------
(***************************************************************************)
(* ClientHandshakeHandler's reassembly of fragmented handshake messages     *)
(* (incompleteMessages and tryAssembleFragments of                          *)
(* src/DTLS/HandshakeHandler.ts) while fragments arrive in any order.       *)
(*                                                                          *)
(* The peer has Messages to send and fragments each of them at up to two    *)
(* maximum lengths: a retransmission may use a smaller one (RFC 6347,       *)
(* 4.1.1.1).  Each transmission of a fragment is a record of its own, which *)
(* arrives at most once.                                                    *)
(***************************************************************************)
EXTENDS FragmentedHandshake

CONSTANTS
    Messages,        \* the peer's messages, as whole fragments
    FirstLength,     \* maximum fragment length of the first transmission
    SecondLength     \* maximum fragment length of the retransmission

ASSUME PeerAssumption ==
    /\ FirstLength \in Nat \ {0} /\ SecondLength \in Nat \ {0}
    /\ \A msg \in Messages : msg.total_length \in Nat /\ msg = Whole(msg)
    /\ \A msg, other \in Messages : SameMessage(msg, other) => msg = other

VARIABLES
    arrived,            \* the records that have arrived
    incompleteMessages, \* the handler's fragments, in the order of arrival
    completeMessages    \* the assembled messages: message and bytes written

vars == <<arrived, incompleteMessages, completeMessages>>

\* The peer's fragments of a message, all of the same length but the last;
\* an empty message is one empty fragment.
PeerFragments(msg, max) ==
    {Fragment(msg, o, Shorter(max, msg.total_length - o)) :
        o \in {k \in 0 .. msg.total_length :
                  k % max = 0 /\ (k < msg.total_length \/ k = 0)}}

Transmissions == {<<1, FirstLength>>, <<2, SecondLength>>}

\* A record is a fragment and the transmission it belongs to.
Records == UNION {{<<t[1], f>> : f \in PeerFragments(msg, t[2])} :
                      msg \in Messages, t \in Transmissions}

Init == /\ arrived = {}
        /\ incompleteMessages = <<>>
        /\ completeMessages = {}

\* processIncomingMessage for a message that is not fragmented.
ReceiveWhole(r) ==
    /\ ~ isFragmented(r[2])
    /\ completeMessages' = completeMessages \cup
           {[msg |-> Whole(r[2]), written |-> Written(<<r[2]>>)]}
    /\ UNCHANGED incompleteMessages

\* Mutant: the fragments of an assembled message are kept.
ReceiveFragmentKept(r) ==
    /\ isFragmented(r[2])
    /\ LET pending == Append(incompleteMessages, r[2])
           all     == findAllFragments(pending, r[2])
       IN  /\ completeMessages' = completeMessages \cup
                  (IF isComplete(all)
                   THEN {[msg |-> Whole(r[2]), written |-> Written(all)]}
                   ELSE {})
           /\ incompleteMessages' = pending

\* ... and for a fragment: tryAssembleFragments.
ReceiveFragment(r) ==
    /\ isFragmented(r[2])
    /\ LET pending == Append(incompleteMessages, r[2])
           all     == findAllFragments(pending, r[2])
       IN  IF isComplete(all)
           THEN /\ completeMessages' = completeMessages \cup
                       {[msg |-> Whole(r[2]), written |-> Written(all)]}
                /\ incompleteMessages' =
                       Without(pending, r[2])
           ELSE /\ incompleteMessages' = pending
                /\ UNCHANGED completeMessages

Receive(r) == /\ r \notin arrived
              /\ arrived' = arrived \cup {r}
              /\ (ReceiveWhole(r) \/ ReceiveFragment(r))

Next == \E r \in Records : Receive(r)

Spec == Init /\ [][Next]_vars

-----------------------------------------------------------------------------
\* The handler keeps fragments only, and assembles only messages of the peer.
TypeOK == /\ \A i \in DOMAIN incompleteMessages :
                isFragmented(incompleteMessages[i])
          /\ \A c \in completeMessages : c.msg \in Messages

\* What is handed on as a complete message has every byte copied from a
\* fragment: none is left as allocUnsafe found it.
NoUnwrittenByte ==
    \A c \in completeMessages : c.written = Positions(c.msg)

\* Once every fragment of a transmission has arrived, the message has been
\* assembled, in whatever order and mixed with whatever other messages.
WholeTransmissionAssembles ==
    \A msg \in Messages, t \in Transmissions :
        {t[1]} \X PeerFragments(msg, t[2]) \subseteq arrived
          => \E c \in completeMessages : c.msg = msg

\* `Checks if the provided handshake fragments form a complete message': the
\* fragments kept as incomplete never carry all bytes of a message.
KeptOnlyIfIncomplete ==
    \A i \in DOMAIN incompleteMessages :
        LET f == incompleteMessages[i]
        IN  Written(findAllFragments(incompleteMessages, f)) # Positions(Whole(f))
=============================================================================
