----------------------------- MODULE RecordLayer -----------------------------
(***************************************************************************)
(* The class RecordLayer of src/DTLS/RecordLayer.ts with the part of        *)
(* src/TLS/ConnectionState.ts it uses: epochs, record numbers, and the way  *)
(* of a record from a datagram to the messages receive() returns.           *)
(*                                                                          *)
(* receive() and sendFlight() run to completion; here they take one step    *)
(* per record, and nothing else happens while one of them is Busy.  A       *)
(* record on the wire is [epoch, sequence_number, type, keys, data]: keys   *)
(* are what its content is encrypted under, data is its content.            *)
(***************************************************************************)
EXTENDS AntiReplayWindow, Sequences

CONSTANTS
    NullKeys,    \* TLS_NULL_WITH_NULL_NULL: content is not encrypted
    Undefined,   \* a JS field that has not been assigned
    Garbled      \* what reading a ciphertext as if it were plaintext gives

VARIABLES
    \* fields of the RecordLayer
    epochs, readEpochNr, writeEpochNr,
    \* receive(): the records of buf still to be filtered, those that passed
    \* and are not marked yet, and the messages returned
    datagram, unmarked, messages,
    \* sendFlight(): the messages still to be processed, the records made
    outgoing, flight

layerVars   == <<epochs, readEpochNr, writeEpochNr>>
receiveVars == <<datagram, unmarked, messages>>
sendVars    == <<outgoing, flight>>
recordVars  == <<layerVars, receiveVars, sendVars>>

-----------------------------------------------------------------------------
\* A fresh epoch: the NULL cipher suite, no Decipher delegate made yet, an
\* empty window, and -1 so that the first record gets number 0.
createEpoch == [keys                |-> NullKeys,
                decipher            |-> Undefined,
                antiReplayWindow    |-> NewWindow,
                writeSequenceNumber |-> -1]

Larger(m, n) == IF m > n THEN m ELSE n

nextEpochNr(read, write) == Larger(read, write) + 1

\* Mutant: the next epoch is the one after the read epoch, and created anew.
ensureNextEpochAnew(eps, read, write) ==
    [e \in DOMAIN eps \cup {read + 1} |->
        IF e = read + 1 THEN createEpoch ELSE eps[e]]

\* Mutant: an epoch switch adds none.
ensureNextEpochNever(eps, read, write) == eps

\* Adds the epoch to switch to next, unless it is there already.
ensureNextEpoch(eps, read, write) ==
    [e \in DOMAIN eps \cup {nextEpochNr(read, write)} |->
        IF e \in DOMAIN eps THEN eps[e] ELSE createEpoch]

\* Mutant: the read epoch is switched to nextEpochNr.
advanceReadEpochToNext ==
    /\ readEpochNr' = nextEpochNr(readEpochNr, writeEpochNr)
    /\ epochs' = ensureNextEpoch(epochs, nextEpochNr(readEpochNr, writeEpochNr),
                               writeEpochNr)
    /\ UNCHANGED writeEpochNr

advanceReadEpoch ==
    /\ readEpochNr' = readEpochNr + 1
    /\ epochs' = ensureNextEpoch(epochs, readEpochNr + 1, writeEpochNr)
    /\ UNCHANGED writeEpochNr

\* The constructor; `first' are messages to be sent at once.
RecordInit(first) ==
    /\ epochs = [e \in {0, 1} |-> createEpoch]
    /\ readEpochNr = 0
    /\ writeEpochNr = 0
    /\ datagram = <<>> /\ unmarked = <<>> /\ messages = <<>>
    /\ outgoing = first /\ flight = <<>>

-----------------------------------------------------------------------------
(* Sending.                                                                 *)

Sending == outgoing # <<>> \/ flight # <<>>

\* Mutant: the epoch is switched before the ChangeCipherSpec is encrypted.
StampAfterSwitch(msg) ==
    [epoch           |-> writeEpochNr,
     sequence_number |-> epochs[writeEpochNr].writeSequenceNumber + 1,
     keys            |-> IF msg.type = "change_cipher_spec"
                         THEN epochs[writeEpochNr + 1].keys
                         ELSE epochs[writeEpochNr].keys,
     type            |-> msg.type,
     data            |-> msg.data]

\* The record for a message: the write epoch's next number and keys.
Stamp(msg) ==
    [epoch           |-> writeEpochNr,
     sequence_number |-> epochs[writeEpochNr].writeSequenceNumber + 1,
     keys            |-> epochs[writeEpochNr].keys,
     type            |-> msg.type,
     data            |-> msg.data]

\* Mutant: only a ChangeCipherSpec counts.
processUncounted ==
    /\ outgoing # <<>>
    /\ flight' = Append(flight, Stamp(Head(outgoing)))
    /\ IF Head(outgoing).type = "change_cipher_spec"
       THEN /\ writeEpochNr' = writeEpochNr + 1
            /\ epochs' = ensureNextEpoch(epochs, readEpochNr, writeEpochNr + 1)
       ELSE UNCHANGED <<epochs, writeEpochNr>>
    /\ outgoing' = Tail(outgoing)
    /\ UNCHANGED <<readEpochNr, receiveVars>>

\* After a ChangeCipherSpec the next message is sent in the next epoch.
processOutgoingMessage ==
    /\ outgoing # <<>>
    /\ LET msg     == Head(outgoing)
           counted == [epochs EXCEPT ![writeEpochNr].writeSequenceNumber = @ + 1]
       IN  /\ flight' = Append(flight, Stamp(msg))
           /\ IF msg.type = "change_cipher_spec"
              THEN /\ writeEpochNr' = writeEpochNr + 1
                   /\ epochs' = ensureNextEpoch(counted, readEpochNr,
                                                writeEpochNr + 1)
              ELSE /\ epochs' = counted
                   /\ UNCHANGED writeEpochNr
    /\ outgoing' = Tail(outgoing)
    /\ UNCHANGED <<readEpochNr, receiveVars>>

\* The records of the flight leave as one datagram.
Transmit ==
    /\ outgoing = <<>> /\ flight # <<>>
    /\ flight' = <<>>
    /\ UNCHANGED <<layerVars, receiveVars, outgoing>>

-----------------------------------------------------------------------------
(* Receiving.                                                               *)

Receiving == datagram # <<>> \/ unmarked # <<>>
Busy      == Receiving \/ messages # <<>> \/ Sending

Receive(d) ==
    /\ ~ Busy
    /\ datagram' = d
    /\ UNCHANGED <<layerVars, unmarked, messages, sendVars>>

\* The filter: a known epoch (the upcoming one included), not an old one,
\* and a number the epoch's window lets through.
PassesFilter(p) ==
    /\ p.epoch \in DOMAIN epochs
    /\ p.epoch >= readEpochNr
    /\ mayReceive(epochs[p.epoch].antiReplayWindow, p.sequence_number)

\* The getter Decipher of ConnectionState makes the delegate on first use, of
\* the cipher suite and keys of that moment, and keeps it.
DecipherOf(e) ==
    IF epochs[e].decipher = Undefined THEN epochs[e].keys
                                      ELSE epochs[e].decipher

\* The NULL decipher hands any content on as it is; any other one throws on
\* content that was not encrypted under its keys.
Deciphers(p) == DecipherOf(p.epoch) \in {NullKeys, p.keys}

Plain(p) == IF DecipherOf(p.epoch) = p.keys THEN p
            ELSE [p EXCEPT !.data = Garbled]

\* A record of the datagram is filtered out ...
Discard ==
    /\ datagram # <<>>
    /\ ~ PassesFilter(Head(datagram))
    /\ datagram' = Tail(datagram)
    /\ UNCHANGED <<layerVars, unmarked, messages, sendVars>>

\* ... or it is deciphered, and dropped when that fails.
Decipher ==
    /\ datagram # <<>>
    /\ LET p == Head(datagram)
       IN  /\ PassesFilter(p)
           /\ epochs' = [epochs EXCEPT ![p.epoch].decipher = DecipherOf(p.epoch)]
           /\ unmarked' = IF Deciphers(p) THEN Append(unmarked, Plain(p))
                                          ELSE unmarked
    /\ datagram' = Tail(datagram)
    /\ UNCHANGED <<readEpochNr, writeEpochNr, messages, sendVars>>

\* Mutant: the record is marked in the window of the read epoch.
MarkInReadEpoch ==
    /\ datagram = <<>> /\ unmarked # <<>>
    /\ LET p == Head(unmarked)
       IN  /\ epochs' = [epochs EXCEPT ![readEpochNr].antiReplayWindow =
                             markAsReceived(@, p.sequence_number)]
           /\ messages' = Append(messages, [type |-> p.type, data |-> p.data])
    /\ unmarked' = Tail(unmarked)
    /\ UNCHANGED <<readEpochNr, writeEpochNr, datagram, sendVars>>

\* Only when the whole datagram was filtered are its records marked.
Mark ==
    /\ datagram = <<>> /\ unmarked # <<>>
    /\ LET p == Head(unmarked)
       IN  /\ epochs' = [epochs EXCEPT ![p.epoch].antiReplayWindow =
                             markAsReceived(@, p.sequence_number)]
           /\ messages' = Append(messages, [type |-> p.type, data |-> p.data])
    /\ unmarked' = Tail(unmarked)
    /\ UNCHANGED <<readEpochNr, writeEpochNr, datagram, sendVars>>

\* The caller takes the next message receive() returned.
NextMessage ==
    /\ ~ Receiving /\ ~ Sending /\ messages # <<>>
    /\ messages' = Tail(messages)
    /\ UNCHANGED <<datagram, unmarked>>
=============================================================================
