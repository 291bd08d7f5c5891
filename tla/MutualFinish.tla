---------------------------- MODULE MutualFinish ----------------------------
(***************************************************************************)
(* What a DTLS handshake promises its two ends: the client finishes only    *)
(* after the server has, and both have seen the same handshake.             *)
(***************************************************************************)
VARIABLES
    client, server,           \* running, finished or failed
    clientView, serverView    \* the handshake messages an end finished on

vars == <<client, server, clientView, serverView>>

Init == /\ client = "running" /\ clientView = <<>>
        /\ server = "running" /\ serverView = <<>>

ServerFinishes == /\ server = "running"
                  /\ server' = "finished"
                  /\ serverView' # <<>>
                  /\ UNCHANGED <<client, clientView>>

ServerFails == /\ server = "running"
               /\ server' = "failed"
               /\ UNCHANGED <<client, clientView, serverView>>

ClientFinishes == /\ client = "running" /\ server = "finished"
                  /\ client' = "finished"
                  /\ clientView' = serverView
                  /\ UNCHANGED <<server, serverView>>

ClientFails == /\ client = "running"
               /\ client' = "failed"
               /\ UNCHANGED <<server, clientView, serverView>>

Next == ServerFinishes \/ ServerFails \/ ClientFinishes \/ ClientFails

Spec == Init /\ [][Next]_vars
=============================================================================
