------------------------ MODULE FragmentedHandshake ------------------------
(***************************************************************************)
(* The class FragmentedHandshake of src/DTLS/Handshake.ts: splitting a      *)
(* handshake message into fragments and putting it together again.          *)
(*                                                                          *)
(* A fragment is [msg_type, message_seq, total_length, fragment_offset,     *)
(* length, body].  Its bytes are those of the message `body' at positions   *)
(* fragment_offset .. fragment_offset + length - 1.                         *)
(***************************************************************************)
EXTENDS Integers, Sequences, FiniteSets

Shorter(m, n) == IF m < n THEN m ELSE n

\* The positions of the message that a fragment carries.
Positions(f) == f.fragment_offset .. f.fragment_offset + f.length - 1

Fragment(msg, offset, length) ==
    [msg_type        |-> msg.msg_type,
     message_seq     |-> msg.message_seq,
     total_length    |-> msg.total_length,
     fragment_offset |-> offset,
     length          |-> length,
     body            |-> msg.body]

\* Mutant: the length of a part is taken for that of the message.
WholePart(msg) == Fragment(msg, 0, msg.length)

\* Handshake.toFragment(): the whole message as a single fragment.
Whole(msg) == Fragment(msg, 0, msg.total_length)

isFragmented(f) == f.fragment_offset # 0 \/ f.total_length > f.length

SameMessage(f, g) == /\ f.msg_type = g.msg_type
                     /\ f.message_seq = g.message_seq
                     /\ f.total_length = g.total_length

\* Array.filter: the items at the positions in I, in their order.  (SelectSeq
\* with a definition the prover can expand.)
Nth(I, k) == CHOOSE i \in I : Cardinality(I \cap 1 .. i) = k
Filtered(s, I) == [k \in 1 .. Cardinality(I) |-> s[Nth(I, k)]]

findAllFragments(fragments, reference) ==
    Filtered(fragments,
             {i \in DOMAIN fragments : SameMessage(fragments[i], reference)})

\* incompleteMessages once they are taken out.
Without(fragments, reference) ==
    Filtered(fragments,
             {i \in DOMAIN fragments : ~ SameMessage(fragments[i], reference)})

End(f) == f.fragment_offset + f.length - 1

\* By ascending offset the i-th fragment stands before the j-th; sort() is
\* stable.
Before(fragments, i, j) ==
    \/ fragments[i].fragment_offset < fragments[j].fragment_offset
    \/ /\ fragments[i].fragment_offset = fragments[j].fragment_offset
       /\ i < j

Preceding(fragments, i) == {j \in DOMAIN fragments : Before(fragments, j, i)}
Following(fragments, i) == {j \in DOMAIN fragments : Before(fragments, i, j)}

\* The fragments that would stand next to each other, with their gap.
GapsAtMost(fragments, n) ==
    \A i \in DOMAIN fragments : \A j \in Preceding(fragments, i) :
        Preceding(fragments, i) \cap Following(fragments, j) = {}
            => fragments[i].fragment_offset - End(fragments[j]) <= n

StartsAtZero(fragments) ==
    \A i \in DOMAIN fragments :
        Preceding(fragments, i) = {} => fragments[i].fragment_offset = 0

EndsAtTotal(fragments) ==
    \A i \in DOMAIN fragments :
        Following(fragments, i) = {}
            => End(fragments[i]) = fragments[i].total_length - 1

\* Mutant: adjacent fragments have to overlap.
isCompleteIfOverlapping(fragments) ==
    /\ fragments # <<>>
    /\ StartsAtZero(fragments) /\ GapsAtMost(fragments, 0) /\ EndsAtTotal(fragments)

\* Mutant: a message may begin with a hole.
isCompleteFromAnywhere(fragments) ==
    fragments # <<>> /\ GapsAtMost(fragments, 1) /\ EndsAtTotal(fragments)

\* Each fragment in the order of offsets is compared with the one before it
\* only, and the last one has to reach the end.
isComplete(fragments) ==
    /\ fragments # <<>>
    /\ StartsAtZero(fragments) /\ GapsAtMost(fragments, 1) /\ EndsAtTotal(fragments)

\* The bytes of the combined buffer that some fragment was copied to; the
\* others are whatever allocUnsafe found there.
Written(fragments) == UNION {Positions(fragments[i]) : i \in DOMAIN fragments}

\* The loop runs while there are no fragments yet, that is at most once.
split(msg, maxFragmentLength) ==
    IF msg.length = 0 THEN <<>>
    ELSE <<Fragment(msg, 0, Shorter(maxFragmentLength, msg.length))>>
=============================================================================
