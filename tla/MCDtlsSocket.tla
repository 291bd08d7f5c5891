---------------------------- MODULE MCDtlsSocket ----------------------------
\* DtlsSocket with datagrams in which the end of the handshake, data and the
\* end of the connection meet, the end last or with something behind it.
EXTENDS DtlsSocket

EveryMeeting ==
    {<<"finished">>, <<"finished", "data">>, <<"data">>,
     <<"data", "finished", "fatal">>,
     <<"rejected">>, <<"broken", "data">>, <<"broken", "close_notify">>,
     <<"fatal">>, <<"close_notify">>, <<"data", "close_notify">>,
     <<"fatal", "data">>, <<"fatal", "finished", "data">>,
     <<"fatal", "rejected">>, <<"fatal", "broken">>,
     <<"fatal", "close_notify">>, <<"close_notify", "data">>,
     <<"close_notify", "finished", "fatal">>}
=============================================================================
