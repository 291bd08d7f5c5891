------------------------------ MODULE Messages ------------------------------
(***************************************************************************)
(* The structures that travel: records (src/DTLS/DTLSPlaintext,             *)
(* DTLSCompressed, DTLSCiphertext), alerts, ChangeCipherSpec, handshake     *)
(* messages (src/DTLS/Handshake.ts) and their parts.  A structure is the    *)
(* sequence of its properties' types, in the order of its __spec.  A        *)
(* maxLength matters only through the bytes its length takes: 2^16 - 1 and  *)
(* what else takes two bytes is Largest(2), and 32 is Largest(1).           *)
(***************************************************************************)
EXTENDS Codec

ProtocolVersion   == Struct(<<Number(1), Number(1)>>)
ContentType       == Number(1)
HandshakeType     == Number(1)
CipherSuiteId     == Number(2)
CompressionMethod == Number(1)
SessionID         == Buffer(0, Largest(1))
Cookie            == Buffer(0, Largest(1))
Random            == Struct(<<Number(4), Buffer(28, 28)>>)
Extension         == Struct(<<Number(2), Buffer(0, Largest(2))>>)
Extensions        == Vector(Extension, 0, Largest(2), TRUE)
Rest              == Buffer(Infinity, Infinity)

Alert             == Struct(<<Number(1), Number(1)>>)
ChangeCipherSpec  == Struct(<<Number(1)>>)

\* DTLS 1.2, as a ServerHello has it; ~1, ~2 are the same bytes.
DTLSVersion == <<Base - 2, Base - 3>>

-----------------------------------------------------------------------------
(* Bodies of handshake messages.                                            *)

ClientHello == Struct(<<ProtocolVersion, Random, SessionID, Cookie,
                        Vector(CipherSuiteId, 2, Largest(2) - 1, FALSE),
                        Vector(CompressionMethod, 1, Largest(1), FALSE),
                        Extensions>>)
ServerHello == Struct(<<ProtocolVersion, Random, SessionID, CipherSuiteId,
                        CompressionMethod, Extensions>>)
HelloVerifyRequest    == Struct(<<ProtocolVersion, Cookie>>)
ServerKeyExchange     == Struct(<<Rest>>)
ServerKeyExchange_PSK == Struct(<<Buffer(0, Largest(2))>>)
ClientKeyExchange     == Struct(<<Rest>>)
ClientKeyExchange_PSK == Struct(<<Buffer(0, Largest(2))>>)
ServerHelloDone       == Struct(<<>>)
HelloRequest          == Struct(<<>>)
Finished              == Struct(<<Rest>>)

\* The secret of a PSK: as many zeroes as it has bytes stand for the other one.
PreMasterSecret(psk) ==
    serialize(Struct(<<Buffer(0, Largest(2)), Buffer(0, Largest(2))>>),
              <<[i \in DOMAIN psk |-> Byte(0)], psk>>)

\* The messages the client can parse.
HandshakeMessages ==
    0 :> HelloRequest @@ 1 :> ClientHello @@ 2 :> ServerHello
    @@ 3 :> HelloVerifyRequest @@ 12 :> ServerKeyExchange
    @@ 14 :> ServerHelloDone @@ 20 :> Finished

\* What the client itself writes and cannot parse comes on top.
Bodies == [m \in DOMAIN HandshakeMessages \cup {16} |->
              IF m \in DOMAIN HandshakeMessages THEN HandshakeMessages[m] ELSE ClientKeyExchange]

\* msg_type, total_length, message_seq, fragment_offset, fragment.
FragmentedHandshake ==
    Struct(<<HandshakeType, Number(3), Number(2), Number(3), Buffer(0, Largest(3))>>)

toFragment(type, seq, body) == <<type, Len(body), seq, 0, body>>

\* Handshake.fromFragment: the whole body is parsed; what follows the last
\* property is not looked at.
fromFragment(f) ==
    IF f[1] \in DOMAIN HandshakeMessages
    THEN from(HandshakeMessages[f[1]], f[5], 0)
    ELSE Fails

-----------------------------------------------------------------------------
(* Records: type, version, epoch, sequence_number, fragment.                *)

DTLSCiphertext ==
    Struct(<<ContentType, ProtocolVersion, Number(2), Number(6),
             Buffer(0, Largest(2))>>)
=============================================================================
