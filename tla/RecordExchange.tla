--------------------------- MODULE RecordExchange ---------------------------
(***************************************************************************)
(* The bytes of a datagram, from the messages its writer puts into it to    *)
(* the messages its reader gets out of it: processOutgoingMessage() and     *)
(* receive() of src/DTLS/RecordLayer.ts with the codec and the ciphers, and *)
(* what the handshake handler makes of the bytes of a handshake message.    *)
(*                                                                          *)
(* The handshake is over: both ends read and write in epoch 1.  Writer and  *)
(* reader are the two ends of an association, unless a datagram comes back  *)
(* to its writer or is one of an earlier association.  On its way one byte  *)
(* of it may change, or its end get lost.  Epochs and windows are those of  *)
(* RecordLayer; here the reader has got everything before this datagram.    *)
(*                                                                          *)
(* A message is [type, data], or for the handshake [type, msg_type, body,   *)
(* extra]: the values of the body, and bytes of a valid encoding that the   *)
(* code itself would leave out.                                             *)
(***************************************************************************)
EXTENDS Messages, RecordProtection

CONSTANTS
    Suites,         \* names of cipher suites
    Datagrams,      \* sequences of messages to be sent together
    Exposed,        \* those of them that may change on their way
    FirstNumbers,   \* numbers the first record of a datagram may have
    Changes         \* what may be added to a byte, which wraps around

ASSUME NumberAssumption == NumberLimit = Power[INT_BYTES] /\ Base > 23
ASSUME SuitesAssumption == Suites \subseteq DOMAIN CipherSuites
ASSUME FirstAssumption == FirstNumbers \subseteq Nat
ASSUME ChangesAssumption == Changes \subseteq 1 .. Base - 1

VARIABLES
    cipherSuite, writer, reader,
    session,    \* association of the writer's keys: "this" or "earlier"
    outgoing,   \* messages still to be written
    first,      \* the number of its first record
    number,     \* writeSequenceNumber + 1
    written,    \* [message, packet, end]: packets before encryption
    wire,       \* the bytes of the datagram
    damage,     \* the first of them that is not as it was written, or 0
    offset,     \* receive(): how far the datagram is parsed
    packets,    \* receive(): the packets parsed
    received    \* receive(): the packets deciphered

ends == <<cipherSuite, writer, reader, session, first>>
vars == <<ends, outgoing, number, written, wire, damage, offset, packets, received>>

-----------------------------------------------------------------------------
handshake == 22
Epoch     == 1  \* read and write epoch; the next one exists already
message_seq == 1

\* Message.data: a handshake message comes as one FragmentedHandshake.
Content(msg) == serialize(Bodies[msg.msg_type], msg.body) \o msg.extra
Data(msg) ==
    IF msg.type = handshake
    THEN serialize(FragmentedHandshake, toFragment(msg.msg_type, message_seq, Content(msg)))
    ELSE msg.data

\* A message that has the values its type says; `extra' is an empty vector.
\* What the header of a handshake message and a cipher add to its content are
\* less than 96 bytes.
Overhead == 128
Encodable(msg) ==
    /\ msg.type \in 0 .. Base - 1
    /\ IF msg.type = handshake
       THEN LET t == Bodies[msg.msg_type]
                n == Len(msg.body)
            IN  /\ msg.msg_type \in DOMAIN Bodies \cap (0 .. Base - 1)
                /\ fits(t, msg.body, Digits)
                /\ msg.extra # <<>> => /\ n > 0 /\ LeftOut(t.props[n], msg.body[n])
                                       /\ msg.extra = WithLength(t.props[n], <<>>)
                /\ Len(Content(msg)) + Overhead <= Largest(2)
       ELSE msg.data \in Seq(Digits) /\ Len(msg.data) + Overhead <= Largest(2)

\* More records than the window is wide would not be let through.
width == 64
ASSUME DatagramAssumption ==
    \A d \in Datagrams :
        Listing(d) /\ Len(d) <= width /\ \A i \in DOMAIN d : Encodable(d[i])

\* What the handler parses from the data of a handshake message.
Fragment(data) == from(FragmentedHandshake, data, 0).value

\* Mutant: the parsed message does not get the number of its fragment.
RehashedUnnumbered(data) ==
    Once(Fragment(data), LAMBDA f :
        Once(serialize(HandshakeMessages[f[1]], fromFragment(f).value), LAMBDA body :
            serialize(FragmentedHandshake, toFragment(f[1], 0, body))))

\* What enters allHandshakeData for a message that was received: the bytes of
\* the message parsed from it.
Rehashed(data) ==
    Once(Fragment(data), LAMBDA f :
        Once(serialize(HandshakeMessages[f[1]], fromFragment(f).value), LAMBDA body :
            serialize(FragmentedHandshake, toFragment(f[1], f[3], body))))

\* The key material an end has computed.
Material(association) ==
    computeKeyMaterial(cipherSuite,
                       MasterSecret(PreMasterSecret(<<"psk">>), "client", association),
                       "client", association)

Packet(msg) == [type |-> msg.type, version |-> DTLSVersion, epoch |-> Epoch,
                sequence_number |-> number, fragment |-> Data(msg)]

Record(p, fragment) ==
    serialize(DTLSCiphertext,
              <<p.type, p.version, p.epoch, p.sequence_number, fragment>>)

Init ==
    /\ cipherSuite \in {CipherSuites[name] : name \in Suites}
    /\ writer \in Ends /\ reader \in Ends /\ session \in {"this", "earlier"}
    /\ outgoing \in Datagrams
    /\ first \in FirstNumbers /\ number = first
    /\ written = <<>> /\ wire = <<>> /\ damage = 0
    /\ offset = 0 /\ packets = <<>> /\ received = <<>>

processOutgoingMessage ==
    /\ outgoing # <<>>
    /\ \E p \in {Packet(Head(outgoing))}, material \in {Material(session)} :
          /\ wire' = wire \o Record(p, Enciphered(cipherSuite, p, material, writer))
          /\ written' = Append(written, [message |-> Head(outgoing), packet |-> p,
                                         end |-> Len(wire')])
    /\ outgoing' = Tail(outgoing)
    /\ number' = number + 1
    /\ UNCHANGED <<ends, damage, offset, packets, received>>

Authentic == reader # writer /\ session = "this"

\* On its way a byte becomes another one, or the datagram is cut.
Change ==
    /\ outgoing = <<>> /\ offset = 0 /\ damage = 0
    /\ Authentic /\ [i \in DOMAIN written |-> written[i].message] \in Exposed
    /\ \E i \in DOMAIN wire :
          /\ \/ \E c \in Changes :
                   wire' = [wire EXCEPT ![i] = IF @[1] = "byte" THEN Byte((@[2] + c) % Base)
                                                                ELSE <<"other", i>>]
             \/ i > 1 /\ wire' = SubSeq(wire, 1, i - 1)
          /\ damage' = i
    /\ UNCHANGED <<ends, outgoing, number, written, offset, packets, received>>

\* One turn of the loop that parses: an exception ends it.
Parse ==
    /\ outgoing = <<>> /\ offset < Len(wire)
    /\ \E p \in {from(DTLSCiphertext, wire, offset)} :
          IF p.end = Thrown \/ p.end <= offset
          THEN /\ offset' = Len(wire)
               /\ UNCHANGED packets
          ELSE /\ offset' = p.end
               /\ packets' = Append(packets,
                     [type |-> p.value[1], version |-> p.value[2],
                      epoch |-> p.value[3], sequence_number |-> p.value[4],
                      fragment |-> p.value[5]])
    /\ UNCHANGED <<ends, outgoing, number, written, wire, damage, received>>

\* The suite of an epoch: the one after this has no keys yet.
SuiteOf(epoch) ==
    IF epoch = Epoch THEN cipherSuite ELSE CipherSuites.TLS_NULL_WITH_NULL_NULL

\* The filter: packets of an old or an unknown epoch, numbers that were
\* received before and such that are too far ahead are dropped.
Passes(p) ==
    /\ p.epoch \in {Epoch, Epoch + 1}
    /\ p.epoch = Epoch => p.sequence_number >= first
    /\ p.sequence_number <= width + IF p.epoch = Epoch /\ first > width
                                     THEN first - 1 ELSE width - 1

\* A packet that passes is handed on unless the delegate throws.
Decipher ==
    /\ outgoing = <<>> /\ offset >= Len(wire) /\ packets # <<>>
    /\ \E p \in {Head(packets)}, material \in {Material("this")} :
          \E data \in {Deciphered(SuiteOf(p.epoch), p, material, reader)} :
             received' = IF Passes(p) /\ data # Rejected
                         THEN Append(received, [p EXCEPT !.fragment = data])
                         ELSE received
    /\ packets' = Tail(packets)
    /\ UNCHANGED <<ends, outgoing, number, written, wire, damage, offset>>

Next == processOutgoingMessage \/ Change \/ Parse \/ Decipher

Spec == Init /\ [][Next]_vars

-----------------------------------------------------------------------------
Done == outgoing = <<>> /\ offset >= Len(wire) /\ packets = <<>>

\* The datagrams whose content the reader should get.
Readable == Authentic \/ cipherSuite.cipherType = "null"

\* What receive() parses has a complete header: wherever a datagram is cut, no
\* packet has a field that is not a number.
TypeOK ==
    /\ number \in Nat /\ offset \in Nat /\ damage \in 0 .. Len(wire) + 1
    /\ \A i \in DOMAIN packets :
          /\ packets[i].type \in 0 .. Base - 1
          /\ packets[i].epoch \in 0 .. Largest(2)
          /\ packets[i].sequence_number \in Nat

\* Each record in front of the first damage is read as it was written,
\* whatever its length does to the padding and whatever stands before and
\* behind it in the datagram, as long as its number fits an integer: 48 bits
\* are sent, but `>>>' leaves 32 of them, and what then starts again from 0 is
\* refused as old.
ReadsWhatWasWritten ==
    Done /\ Readable =>
        \A i \in DOMAIN written :
            /\ damage = 0 \/ written[i].end < damage
            /\ written[i].packet.sequence_number < NumberLimit
            => i <= Len(received) /\ received[i] = written[i].packet

\* Mapped to the messages of an unharmed datagram that the client can parse.
ForHandshake(P(_, _)) ==
    Done /\ Readable /\ damage = 0 =>
        \A i \in DOMAIN received :
            LET msg == written[i].message
            IN  received[i].type = handshake /\ msg.msg_type \in DOMAIN HandshakeMessages
                    => P(msg, received[i].fragment)

\* A handshake message is understood: each field has the value it was given,
\* vectors that are empty or left out included.
UnderstandsMessages ==
    ForHandshake(LAMBDA msg, data : Once(Fragment(data), fromFragment).value = msg.body)

\* `remembers the raw data of handshake messages for verification purposes':
\* what is hashed for a message is what was received, provided that it was
\* encoded as the code would encode it.
HashedAsReceived ==
    ForHandshake(LAMBDA msg, data : msg.extra = <<>> => Rehashed(data) = data)

\* A cipher hands on nothing but what the other end wrote in this association,
\* in the records it wrote it in, however the datagram was changed or cut.
OnlyAuthentic ==
    cipherSuite.cipherType # "null" =>
        \A i \in DOMAIN received :
            received[i].epoch = Epoch =>
                Authentic /\ \E j \in DOMAIN written :
                                received[i] = written[j].packet

\* The keys of the two ends, and of the purposes, are of full length and have
\* no byte in common.
KeysApart == SlicesApart(cipherSuite, Material("this"))
=============================================================================
