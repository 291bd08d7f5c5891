----------------------------- MODULE RecordLink -----------------------------
(***************************************************************************)
(* A RecordLayer between its user (the handshake handler and the socket of  *)
(* src/dtls.ts, reduced to the calls they make on it) and an honest peer,   *)
(* over a network that loses, duplicates and reorders datagrams.            *)
(*                                                                          *)
(* The peer numbers its records per epoch and ends an epoch with a          *)
(* ChangeCipherSpec.  Whatever it has sent may be delivered at any time and *)
(* again, or never: the network needs no variable.  A datagram is any       *)
(* sequence of at most MaxPacked records, in any order and one of them      *)
(* perhaps repeated, as nothing authenticates how records are packed.       *)
(***************************************************************************)
EXTENDS RecordLayer, FiniteSets

CONSTANTS
    MaxSeq,     \* highest record number of an epoch of the peer
    MaxWrite,   \* highest record number of an epoch of this side
    MaxEpoch,   \* highest epoch of either side
    MaxPacked,  \* records of a datagram
    MaxRecords, \* records of both sides together
    Stale       \* records of an earlier association still in the network

VARIABLES
    peerSent,   \* the peer's records, in the order it sent them
    delivered,  \* history: <<epoch, number>> of the records handed on
    doubled,    \* history: a datagram has held one ChangeCipherSpec twice
    sent        \* history: the records this side sent

vars == <<recordVars, peerSent, delivered, doubled, sent>>
historyVars == <<peerSent, delivered, doubled, sent>>

\* The keys both sides derive for an epoch.
KeysOf(e) == IF e = 0 THEN NullKeys ELSE <<"keys", e>>

Id(p) == <<p.epoch, p.sequence_number>>

\* What is left of an earlier association: application data under its keys.
StaleRecord == [epoch : Nat, sequence_number : Nat, keys : {"old"} \X Nat,
                type : {"application_data"}, data : {"data"}]

ASSUME LinkAssumption ==
    /\ MaxWrite \in Nat /\ MaxPacked \in Nat
    /\ Stale \subseteq StaleRecord

PeerEpoch ==
    Cardinality({i \in DOMAIN peerSent : peerSent[i].type = "change_cipher_spec"})
PeerSeq ==
    Cardinality({i \in DOMAIN peerSent : peerSent[i].epoch = PeerEpoch})

\* The records of both sides; MaxRecords bounds them, with those to be sent.
Records == Len(peerSent) + Cardinality(sent)

PeerRecord(type) == [epoch |-> PeerEpoch, sequence_number |-> PeerSeq,
                     keys |-> KeysOf(PeerEpoch), type |-> type,
                     data |-> "data"]

Init == /\ RecordInit(<<>>)
        /\ peerSent = <<>>
        /\ delivered = {} /\ doubled = FALSE
        /\ sent = {}

-----------------------------------------------------------------------------
\* Of the peer only this is assumed: it switches to keys that this side has
\* derived, too.  Whether it switches before or after this side is left open.
PeerSend(type) ==
    /\ PeerSeq <= MaxSeq
    /\ Records + Len(outgoing) < MaxRecords
    /\ type = "change_cipher_spec" =>
           /\ PeerEpoch + 1 \in DOMAIN epochs
           /\ epochs[PeerEpoch + 1].keys # NullKeys
    /\ peerSent' = Append(peerSent, PeerRecord(type))
    /\ UNCHANGED <<recordVars, delivered, doubled, sent>>

\* The handshake derives the keys of the next epoch (computeMasterSecret).
InstallKeys ==
    /\ ~ Busy
    /\ LET next == nextEpochNr(readEpochNr, writeEpochNr)
       IN  /\ readEpochNr = writeEpochNr /\ next <= MaxEpoch
           /\ epochs[next].keys = NullKeys
           /\ epochs' = [epochs EXCEPT ![next].keys = KeysOf(next)]
    /\ UNCHANGED <<readEpochNr, writeEpochNr, receiveVars, sendVars, historyVars>>

\* The user sends application data, or the last flight of a handshake: a
\* ChangeCipherSpec and, under the new keys and numbered anew, its Finished.
Data == [type |-> "application_data", data |-> "data"]
CCS  == [type |-> "change_cipher_spec", data |-> "data"]

SendFlight(msgs) ==
    /\ ~ Busy
    /\ epochs[writeEpochNr].writeSequenceNumber < MaxWrite
    /\ Records + Len(msgs) <= MaxRecords
    /\ CCS \in {msgs[i] : i \in DOMAIN msgs} =>
           epochs[writeEpochNr + 1].keys # NullKeys
    /\ outgoing' = msgs
    /\ UNCHANGED <<layerVars, receiveVars, flight, historyVars>>

ProcessOutgoing ==
    /\ processOutgoingMessage
    /\ sent' = sent \cup {Stamp(Head(outgoing))}
    /\ UNCHANGED <<peerSent, delivered, doubled>>

Leave == Transmit /\ UNCHANGED historyVars

\* A datagram arrives, of records of the peer and of those left over.
InNetwork == {peerSent[i] : i \in DOMAIN peerSent} \cup Stale

HoldsCCSTwice(d) == \E i, j \in DOMAIN d :
    i # j /\ d[i].type = "change_cipher_spec" /\ Id(d[i]) = Id(d[j])

Deliver ==
    \E n \in 1 .. MaxPacked : \E d \in [1 .. n -> InNetwork] :
        /\ Receive(d)
        /\ doubled' = (doubled \/ HoldsCCSTwice(d))
        /\ UNCHANGED <<peerSent, delivered, sent>>

Filter == (Discard \/ Decipher) /\ UNCHANGED historyVars

HandOn ==
    /\ Mark
    /\ delivered' = delivered \cup {Id(Head(unmarked))}
    /\ UNCHANGED <<peerSent, doubled, sent>>

\* The socket's switch on the type of a message.
Dispatch ==
    /\ NextMessage
    /\ IF Head(messages).type = "change_cipher_spec"
       THEN advanceReadEpoch
       ELSE UNCHANGED layerVars
    /\ UNCHANGED <<sendVars, historyVars>>

Next ==
    \/ \E type \in {"application_data", "change_cipher_spec"} : PeerSend(type)
    \/ InstallKeys
    \/ \E msgs \in {<<Data>>, <<CCS, Data>>} : SendFlight(msgs)
    \/ ProcessOutgoing
    \/ Leave
    \/ Deliver
    \/ Filter
    \/ HandOn
    \/ Dispatch

Spec == Init /\ [][Next]_vars

-----------------------------------------------------------------------------
\* The layer keeps its shape: epochs are numbered from 0 without a gap.
TypeOK ==
    /\ readEpochNr \in Nat /\ writeEpochNr \in Nat
    /\ DOMAIN epochs = 0 .. nextEpochNr(readEpochNr, writeEpochNr)
    /\ \A e \in DOMAIN epochs :
          /\ epochs[e].antiReplayWindow \in Window
          /\ epochs[e].writeSequenceNumber \in -1 .. MaxWrite

\* Whatever the network duplicates and reorders, no datagram gets a record
\* through the filter that was handed on from an earlier one.  (A record that
\* is in one datagram twice is another matter, see HandedOnOnce.)
NoneDeliveredTwice ==
    [][Len(unmarked') > Len(unmarked) =>
          Id(unmarked'[Len(unmarked')]) \notin delivered]_vars

\* `Provides protection against replay attacks by remembering received packets
\* in a sliding window': what is about to be handed on was not yet.
HandedOnOnce == \A i \in DOMAIN unmarked : Id(unmarked[i]) \notin delivered

\* The number of the next record was never used before: an epoch switch, of
\* either direction and in any order, neither repeats nor resets a counter.
NextNumberIsFresh ==
    \A p \in sent : Id(p) # <<writeEpochNr,
                              epochs[writeEpochNr].writeSequenceNumber + 1>>

\* `use the new params for sending the next messages': every record is under
\* the keys of the epoch it names, the ChangeCipherSpec still under the old
\* ones, and what follows it already under the new ones.
SentUnderEpochKeys == \A p \in sent : p.keys = KeysOf(p.epoch)

\* This side reads no further than the peer has written: the ChangeCipherSpecs
\* of datagrams that are duplicated, reordered or packed anew advance the read
\* epoch at most once each.  One that is in a datagram twice passes the filter
\* twice, and does advance it twice.
ReadFollowsPeer == ~ doubled => readEpochNr <= PeerEpoch

\* Keys, once derived for an epoch, stay: no switch creates an epoch anew.
KeysStay ==
    [][\A e \in DOMAIN epochs : epochs[e].keys # NullKeys =>
          e \in DOMAIN epochs' /\ epochs'[e].keys = epochs[e].keys]_vars

\* The packets of the upcoming epoch that the filter keeps are deciphered
\* under the keys of that epoch, never handed on as they came.
DeliveredWasDeciphered ==
    \A i \in DOMAIN messages : messages[i].data # Garbled
=============================================================================
