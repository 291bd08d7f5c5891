-------------------------- MODULE MCClientHandshake --------------------------
(***************************************************************************)
(* Scenarios for ClientHandshake.  A ServerHello has two bytes and an MTU   *)
(* of one makes two fragments of it.                                        *)
(***************************************************************************)
EXTENDS ClientHandshake

CONSTANTS d1, d2    \* application data

\* What the library documents support for, undisturbed.
Plain0 == [compat |-> FALSE, cookie |-> TRUE, restarts |-> FALSE,
           hint |-> FALSE,
           suite |-> "psk", lenient |-> FALSE, retransmits |-> 0, data |-> <<d1>>,
           faults |-> {"lose", "duplicate", "reorder"}, maxFaults |-> 1,
           quick |-> FALSE]

\* Flight 4 has a hint for the identity in it.
WithHint == [Plain0 EXCEPT !.hint = TRUE]

\* Servers a handshake fails with: a suite the client cannot use, and one
\* without a cookie exchange, which hashes the first ClientHello, and then
\* rejects the client's Finished or sends its own over another transcript.
Incompatible == {[Plain0 EXCEPT !.suite = "null"],
                 [Plain0 EXCEPT !.suite = "unknown"],
                 [Plain0 EXCEPT !.cookie = FALSE],
                 [Plain0 EXCEPT !.cookie = FALSE, !.lenient = TRUE]}

\* Two faults, a repeated flight, a server that reuses record numbers, with the
\* compat option for it and without, and every server that is incompatible.
Adverse == {[Plain0 EXCEPT !.maxFaults = 2],
            [Plain0 EXCEPT !.retransmits = 1],
            [Plain0 EXCEPT !.compat = TRUE, !.restarts = TRUE],
            [Plain0 EXCEPT !.restarts = TRUE],
            [WithHint EXCEPT !.maxFaults = 2]} \cup Incompatible

\* The timer does not expire and nothing is lost: data that overtakes the
\* Finished, duplicates of everything, and every kind of server, IKEA's gateway
\* v1.15.x among them, with the compat option and without.
Servers == {[Plain0 EXCEPT !.compat = c, !.restarts = r, !.cookie = k,
                           !.lenient = l, !.suite = s, !.faults = f] :
               c \in BOOLEAN, r \in BOOLEAN, k \in BOOLEAN, l \in BOOLEAN,
               s \in {"psk", "null", "unknown"}, f \in {{}, {"duplicate"}}}

Patient ==
    {[s EXCEPT !.quick = TRUE] : s \in Servers \cup
        {[Plain0 EXCEPT !.data = <<d1, d2>>, !.faults = {"duplicate", "reorder"}],
         [WithHint EXCEPT !.data = <<d1, d2>>, !.faults = {"duplicate"}]}}

Mixed == Adverse \cup Patient

\* No fault at all, but a repeated flight.
Repeated == {[Plain0 EXCEPT !.retransmits = 1, !.faults = {}]}
=============================================================================
