-------------------------- MODULE MCRecordExchange --------------------------
(***************************************************************************)
(* Datagrams for RecordExchange.  A byte has 32 values, so that numbers of  *)
(* six bytes are integers for TLC; types, lengths and paddings fit one.     *)
(***************************************************************************)
EXTENDS RecordExchange

IntegerLimit == Base^INT_BYTES

\* One suite of each kind, with every hash, key and tag length.
SomeSuites == {"TLS_NULL_WITH_NULL_NULL", "TLS_PSK_WITH_3DES_EDE_CBC_SHA",
               "TLS_PSK_WITH_AES_128_CBC_SHA256", "TLS_PSK_WITH_AES_256_CBC_SHA384",
               "TLS_PSK_WITH_AES_128_GCM_SHA256", "TLS_PSK_WITH_AES_256_CCM_8"}

\* A byte goes up or down by one.
SomeChanges == {1, Base - 1}

\* A number that carries, and one past which numbers do not fit.
SomeNumbers == {0, Base^2 - 1, Base^INT_BYTES - 1}

-----------------------------------------------------------------------------
Bytes(n) == [i \in 1 .. n |-> Byte(i % Base)]

\* Content of every length modulo the block sizes.
Application(n) == [type |-> 23, data |-> Bytes(n)]
Lengths == 0 .. 17

CloseNotify == [type |-> 21, data |-> serialize(Alert, <<1, 0>>)]
Switch      == [type |-> 20, data |-> serialize(ChangeCipherSpec, <<1>>)]

Message(msg_type, body) ==
    [type |-> handshake, msg_type |-> msg_type, body |-> body, extra |-> <<>>]

AnyRandom == <<Base^3, Bytes(28)>>
Identity  == Bytes(5)

\* Extensions: none, one without data, several.
ExtensionLists == {<<>>, <<<<13, <<>>>>>>, <<<<13, Bytes(3)>>, <<23, <<>>>>>>}

ClientHellos ==
    {Message(1, <<DTLSVersion, AnyRandom, <<>>, cookie, <<174, 168>>, <<0>>, extensions>>) :
        cookie \in {<<>>, Bytes(Base - 1)}, extensions \in ExtensionLists}
ServerHellos ==
    {Message(2, <<DTLSVersion, AnyRandom, id, 174, 0, extensions>>) :
        id \in {<<>>, Bytes(Base - 1)}, extensions \in ExtensionLists}

\* The vector of extensions is there and empty.
ExplicitlyNone ==
    [Message(2, <<DTLSVersion, AnyRandom, <<>>, 174, 0, <<>>>>)
        EXCEPT !.extra = <<Byte(0), Byte(0)>>]

Handshakes ==
    ClientHellos \cup ServerHellos \cup {ExplicitlyNone}
    \cup {Message(3, <<DTLSVersion, cookie>>) : cookie \in {<<>>, Bytes(Base - 1)}}
    \cup {Message(12, <<serialize(ServerKeyExchange_PSK, <<hint>>)>>) :
              hint \in {<<>>, Identity}}
    \cup {Message(16, <<serialize(ClientKeyExchange_PSK, <<Identity>>)>>),
          Message(0, <<>>), Message(14, <<>>), Message(20, <<Bytes(12)>>)}

\* Two and three records: each has to end where the next one starts.
Packed == {<<Application(1), CloseNotify>>,
           <<Message(14, <<>>), Switch, Application(7)>>}

AllDatagrams == {<<m>> : m \in Handshakes \cup {Application(n) : n \in Lengths}}
                \cup {<<CloseNotify>>, <<Switch>>} \cup Packed

SomeExposed == Packed \cup {<<Application(0)>>, <<Application(12)>>}
=============================================================================
