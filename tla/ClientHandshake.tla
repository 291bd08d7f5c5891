-------------------------- MODULE ClientHandshake --------------------------
(***************************************************************************)
(* The DTLS handshake of the client: ClientHandshakeHandler of              *)
(* src/DTLS/HandshakeHandler.ts on its RecordLayer, under the message loop  *)
(* and the finished callback of the Socket in src/dtls.ts, with an honest   *)
(* PSK server and a faulty network around them.                             *)
(*                                                                          *)
(* A handshake message is [msg_type, message_seq, total_length, body]; the  *)
(* transcript keeps <<msg_type, message_seq>> of each hashed message, and   *)
(* verify_data is the transcript it was computed over.                      *)
(***************************************************************************)
EXTENDS RecordLayer, FragmentedHandshake, SequencesExt, FiniteSets

CONSTANTS
    SessionKeys,           \* what both sides derive from the PSK
    MTU,                   \* maximum fragment length of both sides
    ApplicationData,       \* what the server may send
    Scenarios
    (* What happens around the client in one handshake: a set of records      *)
    (*   compat       options.compat.resetAntiReplayWindowBeforeServerHello   *)
    (*   cookie       the server sends a HelloVerifyRequest first             *)
    (*   restarts     its ServerHello reuses record number 0                  *)
    (*   hint         its flight 4 has a ServerKeyExchange in it              *)
    (*   suite        the cipher suite it picks: psk, null or unknown         *)
    (*   lenient      it does not check the client's Finished                 *)
    (*   retransmits  times it sends flight 4 again                           *)
    (*   data         application data it sends                               *)
    (*   faults       what the network commits: lose, duplicate, reorder      *)
    (*   maxFaults    how often it does                                       *)
    (*   quick        the handshake is over before its timer expires          *)

ASSUME MTUAssumption == MTU \in Nat \ {0}
ASSUME KeysAssumption == SessionKeys # NullKeys

VARIABLES
    \* ClientHandshakeHandler
    isHandshaking, lastProcessedSeqNum, lastSentSeqNum, incompleteMessages,
    completeMessages, expectedResponses, allHandshakeData,
    \* Socket
    handshakeFinished, isClosed, bufferedMessages,
    alertCallback,      \* the error nextStep() gets once the alert is sent
    \* history: events emitted, application data in the order it was received
    events, received,
    \* the server, the scenario, and the network
    srv, scenario, toServer, toClient, faults

handlerVars == <<isHandshaking, lastProcessedSeqNum, lastSentSeqNum,
                 incompleteMessages, completeMessages, expectedResponses,
                 allHandshakeData>>
socketVars  == <<handshakeFinished, isClosed, bufferedMessages, alertCallback,
                 events, received>>
netVars     == <<toServer, toClient, faults>>
serverVars  == <<srv, scenario>>
vars == <<recordVars, handlerVars, socketVars, serverVars, netVars>>

-----------------------------------------------------------------------------
(* Messages.                                                                *)

\* Bodies are tuples: what they say, or the verify_data.
Cookie   == <<"cookie">>
NoCookie == <<"none">>

LengthOf(type) == CASE type = "server_hello"      -> 2
                    [] type = "server_hello_done" -> 0
                    [] OTHER                      -> 1

Msg(type, seq, body) == [msg_type |-> type, message_seq |-> seq,
                         total_length |-> LengthOf(type), body |-> body]

Entry(m) == <<m.msg_type, m.message_seq>>

HandshakeMessage(f) == [type |-> "handshake", data |-> f]
CCS      == [type |-> "change_cipher_spec", data |-> Undefined]
Alert    == [type |-> "alert", data |-> Undefined]

Fragments(m) == LET fs == split(Whole(m), MTU)
                IN  [i \in DOMAIN fs |-> HandshakeMessage(fs[i])]

\* Mutant: the exceptions of needsToHashMessage are gone.
needsToHashEveryMessage(m) == TRUE

\* A HelloVerifyRequest and a ClientHello without a cookie are not hashed.
needsToHashMessage(m) ==
    /\ m.msg_type \notin {"hello_verify_request", "hello_request"}
    /\ m.msg_type = "client_hello" => m.body = Cookie

\* Mutant: verify_data does not depend on the transcript.
VerifyDataOfSource(source, transcript) == <<source>>

\* computeVerifyData: verify_data of `source' over a transcript.
VerifyData(source, transcript) == <<source, transcript>>

-----------------------------------------------------------------------------
(* Socket: the finished callback and killConnection.                        *)

\* Mutant: killConnection without its early return.
KillAgain == /\ isClosed' = TRUE
             /\ events' = Append(events, <<"error">>)

\* killConnection does nothing on a socket that is closed.
Kill == /\ isClosed' = TRUE
        /\ events' = IF isClosed THEN events ELSE Append(events, <<"error">>)

\* Mutant: the buffer is not emptied.
FinishUnflushed ==
    /\ handshakeFinished' = TRUE
    /\ events' = events \o <<<<"connected">>>> \o bufferedMessages
    /\ UNCHANGED <<isClosed, alertCallback, bufferedMessages>>

\* finishedCallback(): the handshake succeeded.
FinishConnected ==
    /\ handshakeFinished' = TRUE
    /\ events' = events \o <<<<"connected">>>> \o bufferedMessages
    /\ bufferedMessages' = <<>>
    /\ UNCHANGED <<isClosed, alertCallback>>

\* finishedCallback(null, err): terminate at once.
FinishThrown ==
    /\ Kill
    /\ UNCHANGED <<handshakeFinished, bufferedMessages, alertCallback>>

\* Mutant: the alert is sent without the callback.
FinishSilently ==
    UNCHANGED <<handshakeFinished, isClosed, bufferedMessages, events,
                alertCallback>>

\* finishedCallback(alert, err): terminate when the alert was sent.
FinishAlert ==
    /\ alertCallback' = TRUE
    /\ UNCHANGED <<handshakeFinished, isClosed, bufferedMessages, events>>

-----------------------------------------------------------------------------
(* ClientHandshakeHandler: sending.                                         *)

\* sendFlight_processPartial: what a message becomes for the record layer, a
\* Finished with its ChangeCipherSpec before it.
Wire(m) == IF m.msg_type = "finished" THEN <<CCS>> \o Fragments(m)
                                      ELSE Fragments(m)

\* What hashing messages adds to the transcript.
Entries(msgs) ==
    LET hashed == Filtered(msgs, {i \in DOMAIN msgs : needsToHashMessage(msgs[i])})
    IN  [i \in DOMAIN hashed |-> Entry(hashed[i])]

\* sendFlight of messages as `wire': numbers them, hashes them, and gives them
\* to the record layer.
sendFlight(flightMessages, wire, hashedBefore, responses) ==
    /\ lastSentSeqNum' = lastSentSeqNum + Len(flightMessages)
    /\ allHandshakeData' = hashedBefore \o Entries(flightMessages)
    /\ outgoing' = wire
    /\ expectedResponses' = responses

Hello(seq, cookie) == Msg("client_hello", seq, cookie)

-----------------------------------------------------------------------------
(* ClientHandshakeHandler: the flights of the server.                       *)

\* Mutant: the last fragment is stored instead of the assembled message.
StoredUnassembled(f) ==
    [incomplete |-> incompleteMessages,
     complete   |-> [s \in DOMAIN completeMessages \cup {f.message_seq} |->
                        IF s = f.message_seq THEN f ELSE completeMessages[s]],
     checked    |-> TRUE]

\* processIncomingMessage stores a whole message, or the fragment and the
\* message it completes.  `checked' tells whether a message was added.
Stored(f) ==
    LET pending == Append(incompleteMessages, f)
        all     == findAllFragments(pending, f)
        Added   == [s \in DOMAIN completeMessages \cup {f.message_seq} |->
                      IF s = f.message_seq THEN Whole(f)
                                           ELSE completeMessages[s]]
    IN  IF ~ isFragmented(f)
        THEN [incomplete |-> incompleteMessages, complete |-> Added,
              checked |-> TRUE]
        ELSE IF isComplete(all)
        THEN [incomplete |-> Without(pending, f),
              complete |-> Added, checked |-> TRUE]
        ELSE [incomplete |-> pending, complete |-> completeMessages,
              checked |-> FALSE]

\* Mutant: the message that just arrived is taken for the flight's last.
FlightEndsAtArrival(s, last) ==
    /\ s.checked
    /\ expectedResponses # Undefined
    /\ DOMAIN s.complete = lastProcessedSeqNum + 1 .. last
    /\ Head(messages).data.msg_type \in expectedResponses

\* The messages kept form an uninterrupted sequence after the last one
\* processed, and the one with the highest number ends a flight the handler
\* expects.
FlightEndsAt(s, last) ==
    /\ s.checked
    /\ expectedResponses # Undefined
    /\ DOMAIN s.complete = lastProcessedSeqNum + 1 .. last
    /\ s.complete[last].msg_type \in expectedResponses

FlightReady(s) == \E last \in DOMAIN s.complete : FlightEndsAt(s, last)

\* The messages of a flight that is ready, in the order of their numbers.
FlightMessages(s) ==
    [i \in 1 .. Cardinality(DOMAIN s.complete) |->
        s.complete[lastProcessedSeqNum + i]]

Incoming(type) == /\ messages # <<>>
                  /\ Head(messages).type = type
                  /\ NextMessage

\* The flight the next message completes, and what processIncomingMessage
\* does with it before the handler runs.
NextStored    == Stored(Head(messages).data)
CurrentFlight == FlightMessages(NextStored)

TakeFlight(type) ==
    /\ Incoming("handshake")
    /\ \E s \in {NextStored} : \E last \in DOMAIN s.complete :
          /\ FlightEndsAt(s, last)
          /\ s.complete[last].msg_type = type
          /\ incompleteMessages' = s.incomplete
          /\ lastProcessedSeqNum' = s.complete[last].message_seq
    /\ completeMessages' = <<>>

\* The message is only kept.
Collect ==
    /\ Incoming("handshake")
    /\ \E s \in {NextStored} :
          /\ ~ FlightReady(s)
          /\ incompleteMessages' = s.incomplete
          /\ completeMessages' = s.complete
    /\ UNCHANGED <<layerVars, sendVars, isHandshaking, lastProcessedSeqNum,
                   lastSentSeqNum, expectedResponses, allHandshakeData,
                   socketVars, serverVars, netVars>>

\* Mutant: the window of the wrong epoch is reset.
WithNextWindowReset ==
    [epochs EXCEPT ![readEpochNr + 1].antiReplayWindow = NewWindow]

WithWindowReset == [epochs EXCEPT ![readEpochNr].antiReplayWindow = NewWindow]

HandleHelloVerifyRequest ==
    /\ TakeFlight("hello_verify_request")
    /\ epochs' = IF scenario.compat
                 THEN WithWindowReset ELSE epochs
    /\ LET hello == Hello(lastSentSeqNum + 1, Cookie)
       IN  sendFlight(<<hello>>, Wire(hello),
                      allHandshakeData \o Entries(CurrentFlight),
                      {"server_hello_done"})
    /\ UNCHANGED <<readEpochNr, writeEpochNr, flight, isHandshaking,
                   socketVars, serverVars, netVars>>

\* The suite of the ServerHello decides: a PSK suite gives the keys of the
\* next epoch and flight 5 is sent; the NULL suite has no key exchange to
\* answer with; a suite the table does not know is undefined and using it
\* throws.
HandleServerHelloDone ==
    /\ TakeFlight("server_hello_done")
    /\ \E hashed \in {allHandshakeData \o Entries(CurrentFlight)} :
       LET next == nextEpochNr(readEpochNr, writeEpochNr)
           cke  == Msg("client_key_exchange", lastSentSeqNum + 1, <<"psk">>)
           fin  == Msg("finished", lastSentSeqNum + 2,
                       VerifyData("client", Append(hashed, Entry(cke))))
       IN  \/ /\ Head(CurrentFlight).body = <<"psk">>
              /\ epochs' = [epochs EXCEPT ![next].keys = SessionKeys]
              /\ sendFlight(<<cke, fin>>, Wire(cke) \o Wire(fin), hashed,
                            {"finished"})
              /\ UNCHANGED <<isHandshaking, socketVars>>
           \/ /\ Head(CurrentFlight).body = <<"null">>
              /\ FinishAlert
              /\ outgoing' = <<Alert>>
              /\ expectedResponses' = Undefined
              /\ allHandshakeData' = hashed
              /\ UNCHANGED <<epochs, isHandshaking, lastSentSeqNum, received>>
           \/ /\ Head(CurrentFlight).body = <<"unknown">>
              /\ FinishThrown
              /\ isHandshaking' = FALSE
              /\ expectedResponses' = Undefined
              /\ allHandshakeData' = hashed
              /\ UNCHANGED <<epochs, outgoing, lastSentSeqNum, received>>
    /\ UNCHANGED <<readEpochNr, writeEpochNr, flight, serverVars, netVars>>

\* Mutant: computeVerifyData takes the write epoch for the server, too.
WriteKeys == epochs[writeEpochNr].keys

\* What computeVerifyData uses for the server.
ServerKeys == epochs[readEpochNr].keys

\* The server's verify_data is checked under the current read epoch: before
\* the ChangeCipherSpec that is still the NULL suite, which has no PRF, and
\* computing it throws.  The Finished message is hashed after the check.
HandleFinished ==
    /\ TakeFlight("finished")
    /\ LET hashed == allHandshakeData \o Entries(Front(CurrentFlight))
           fin    == Last(CurrentFlight)
       IN  \/ /\ ServerKeys = NullKeys
              /\ FinishThrown
              /\ allHandshakeData' = hashed
              /\ UNCHANGED outgoing
           \/ /\ ServerKeys # NullKeys
              /\ fin.body = VerifyData("server", hashed)
              /\ FinishConnected
              /\ allHandshakeData' = Append(hashed, Entry(fin))
              /\ UNCHANGED outgoing
           \/ /\ ServerKeys # NullKeys
              /\ fin.body # VerifyData("server", hashed)
              /\ FinishAlert
              /\ allHandshakeData' = Append(hashed, Entry(fin))
              /\ outgoing' = <<Alert>>
    /\ isHandshaking' = FALSE
    /\ expectedResponses' = Undefined
    /\ UNCHANGED <<layerVars, flight, lastSentSeqNum, received, serverVars, netVars>>

-----------------------------------------------------------------------------
(* Socket: the other messages, the alert callback and the timer.            *)

HandleChangeCipherSpec ==
    /\ Incoming("change_cipher_spec")
    /\ advanceReadEpoch
    /\ UNCHANGED <<sendVars, handlerVars, socketVars, serverVars, netVars>>

HandleFatalAlert ==
    /\ Incoming("alert")
    /\ Kill
    /\ UNCHANGED <<layerVars, sendVars, handlerVars, handshakeFinished,
                   bufferedMessages, alertCallback, received, serverVars,
                   netVars>>

\* Mutant: data that overtakes the handshake is dropped.
HandleDataWhenConnected ==
    /\ Incoming("application_data")
    /\ LET data == <<"message", Head(messages).data>>
       IN  /\ received' = IF handshakeFinished THEN Append(received, data)
                                              ELSE received
           /\ events' = IF handshakeFinished THEN Append(events, data)
                                            ELSE events
    /\ UNCHANGED <<layerVars, sendVars, handlerVars, handshakeFinished, isClosed,
                   bufferedMessages, alertCallback, serverVars, netVars>>

HandleApplicationData ==
    /\ Incoming("application_data")
    /\ LET data == <<"message", Head(messages).data>>
       IN  /\ received' = Append(received, data)
           /\ IF handshakeFinished
              THEN /\ events' = Append(events, data)
                   /\ UNCHANGED bufferedMessages
              ELSE /\ bufferedMessages' = Append(bufferedMessages, data)
                   /\ UNCHANGED events
    /\ UNCHANGED <<layerVars, sendVars, handlerVars, handshakeFinished,
                   isClosed, alertCallback, serverVars, netVars>>

\* The callback of send() runs once the alert has left.
AlertSent ==
    /\ ~ Busy /\ alertCallback
    /\ alertCallback' = FALSE
    /\ Kill
    /\ UNCHANGED <<recordVars, handlerVars, handshakeFinished,
                   bufferedMessages, received, serverVars, netVars>>

\* Mutant: a socket that reads under the new keys is taken for connected.
TimeoutBeforeKeys ==
    /\ ~ Busy /\ ~ isClosed /\ readEpochNr = 0
    /\ ~ scenario.quick
    /\ Kill
    /\ UNCHANGED <<recordVars, handlerVars, handshakeFinished,
                   bufferedMessages, alertCallback, received, serverVars,
                   netVars>>

\* expectHandshake; the timer is cleared when the handshake has finished.
Timeout ==
    /\ ~ Busy /\ ~ isClosed /\ ~ handshakeFinished
    /\ ~ scenario.quick
    /\ Kill
    /\ UNCHANGED <<recordVars, handlerVars, handshakeFinished,
                   bufferedMessages, alertCallback, received, serverVars,
                   netVars>>

-----------------------------------------------------------------------------
(* Record layer: receive() and sendFlight(), record by record.              *)

othersUnchanged == UNCHANGED <<handlerVars, socketVars, serverVars>>

Filter  == (Discard \/ Decipher) /\ othersUnchanged /\ UNCHANGED netVars
MarkOne == Mark /\ othersUnchanged /\ UNCHANGED netVars

ProcessOutgoing ==
    processOutgoingMessage /\ othersUnchanged /\ UNCHANGED netVars

SendDatagram == /\ Transmit
                /\ toServer' = Append(toServer, flight)
                /\ othersUnchanged
                /\ UNCHANGED <<toClient, faults>>

-----------------------------------------------------------------------------
(* The network.                                                             *)

Fault(what) == /\ what \in scenario.faults
               /\ faults < scenario.maxFaults
               /\ faults' = faults + 1

\* A datagram is taken from the front, or overtakes others.
Arrives(queue, i) == \/ i = 1 /\ UNCHANGED faults
                     \/ i > 1 /\ Fault("reorder")

\* udp_onMessage; a closed socket has no listener.
ReceiveDatagram ==
    /\ ~ isClosed
    /\ \E i \in DOMAIN toClient :
          /\ Arrives(toClient, i)
          /\ Receive(toClient[i])
          /\ toClient' = RemoveAt(toClient, i)
    /\ othersUnchanged
    /\ UNCHANGED toServer

Disturbed(queue, queue2) ==
    \E i \in DOMAIN queue :
        \/ Fault("lose") /\ queue2 = RemoveAt(queue, i)
        \/ Fault("duplicate") /\ queue2 = Append(queue, queue[i])

Disturb == /\ \/ Disturbed(toServer, toServer') /\ UNCHANGED toClient
              \/ Disturbed(toClient, toClient') /\ UNCHANGED toServer
           /\ UNCHANGED <<recordVars, handlerVars, socketVars, serverVars>>

-----------------------------------------------------------------------------
(* The server.                                                              *)

\* Handshake messages of the server as records of an epoch, each fragmented
\* at the MTU and numbered from n on.
FragmentsOf(m) ==
    IF m.total_length = 0 THEN <<Whole(m)>>
    ELSE [k \in 1 .. ((m.total_length + MTU - 1) \div MTU) |->
            Fragment(m, (k - 1) * MTU,
                     Shorter(MTU, m.total_length - (k - 1) * MTU))]

Records(epoch, n, msgs) ==
    [i \in DOMAIN msgs |->
        [epoch |-> epoch, sequence_number |-> n + i - 1,
         keys |-> IF epoch = 0 THEN NullKeys ELSE SessionKeys,
         type |-> msgs[i].type, data |-> msgs[i].data]]

FirstSeq == IF scenario.cookie THEN 1 ELSE 0

Flight4Types ==
    IF scenario.hint
    THEN <<"server_hello", "server_key_exchange", "server_hello_done">>
    ELSE <<"server_hello", "server_hello_done">>

Flight4Messages ==
    [i \in DOMAIN Flight4Types |->
        Msg(Flight4Types[i], FirstSeq + i - 1, <<scenario.suite>>)]

Flight4(n) ==
    LET hello == FragmentsOf(Flight4Messages[1])
        hint  == IF scenario.hint THEN FragmentsOf(Flight4Messages[2]) ELSE <<>>
        done  == FragmentsOf(Last(Flight4Messages))
        frags == hello \o hint \o done
    IN  Records(0, n, [i \in DOMAIN frags |-> HandshakeMessage(frags[i])])

\* A flight leaves in one datagram, or one datagram per record.
ServerReplies(records) ==
    \E packed \in BOOLEAN :
        toClient' = toClient \o
            (IF packed THEN <<records>>
                       ELSE [i \in DOMAIN records |-> <<records[i]>>])

\* The server takes a ClientHello: it answers without a state as long as the
\* cookie is missing, and numbers its records from the hello's on.
ServerHelloPhase(r) ==
    LET hello   == r.data
        n       == IF scenario.restarts THEN 0 ELSE r.sequence_number
        flight4 == Flight4(n)
    IN  IF scenario.cookie /\ hello.body # Cookie
        THEN /\ ServerReplies(Records(0, r.sequence_number,
                   <<HandshakeMessage(Whole(Msg("hello_verify_request", 0,
                                                Cookie)))>>))
             /\ UNCHANGED srv
        ELSE /\ srv.phase = "listen"
             /\ ServerReplies(flight4)
             /\ srv' = [srv EXCEPT
                   !.phase = "negotiating",
                   !.next = n + Len(flight4),
                   !.transcript =
                       <<Entry(hello)>> \o
                       [i \in DOMAIN Flight4Types |-> Entry(Flight4Messages[i])]]

\* The server takes flight 5: it checks the client's Finished and sends its
\* own, over a transcript that has both flight 5 messages in it.
ServerFinishPhase(d) ==
    LET cke        == d[1].data
        fin        == d[3].data
        before     == Append(srv.transcript, Entry(cke))
        transcript == Append(before, Entry(fin))
        finished   == Msg("finished", FirstSeq + Len(Flight4Types),
                          VerifyData("server", transcript))
    IN  /\ srv.phase = "negotiating"
        /\ d[3].keys = SessionKeys
        /\ IF scenario.lenient \/ fin.body = VerifyData("client", before)
           THEN /\ ServerReplies(Records(0, srv.next, <<CCS>>) \o
                       Records(1, 0, <<HandshakeMessage(Whole(finished))>>))
                /\ srv' = [srv EXCEPT !.phase = "done",
                                      !.transcript = transcript]
           ELSE /\ ServerReplies(Records(0, srv.next, <<Alert>>))
                /\ srv' = [srv EXCEPT !.phase = "failed"]

IsHello(d)   == d[1].type = "handshake" /\ d[1].data.msg_type = "client_hello"
IsFlight5(d) == Len(d) = 3

ServerTakes(d) ==
    \/ IsHello(d) /\ ServerHelloPhase(d[1])
    \/ IsFlight5(d) /\ ServerFinishPhase(d)

\* What is repeated or out of place is dropped, and so is an alert.
ServerIgnores(d) ==
    /\ \/ IsHello(d) /\ srv.phase # "listen" /\ d[1].data.body = Cookie
       \/ IsHello(d) /\ ~ scenario.cookie /\ srv.phase # "listen"
       \/ IsFlight5(d) /\ srv.phase # "negotiating"
       \/ d[1].type = "alert"
    /\ UNCHANGED <<srv, toClient>>

ServerReceive ==
    /\ \E i \in DOMAIN toServer :
          /\ Arrives(toServer, i)
          /\ toServer' = RemoveAt(toServer, i)
          /\ ServerTakes(toServer[i]) \/ ServerIgnores(toServer[i])
    /\ UNCHANGED <<recordVars, handlerVars, socketVars, scenario>>

\* Its retransmission timer: flight 4 again, in records with new numbers.
ServerRetransmit ==
    /\ srv.phase = "negotiating"
    /\ srv.retransmits < scenario.retransmits
    /\ LET flight4 == Flight4(srv.next)
       IN  /\ ServerReplies(flight4)
           /\ srv' = [srv EXCEPT !.retransmits = @ + 1,
                                 !.next = @ + Len(flight4)]
    /\ UNCHANGED <<recordVars, handlerVars, socketVars, scenario, toServer,
                   faults>>

ServerSendData ==
    /\ srv.phase = "done"
    /\ srv.data < Len(scenario.data)
    /\ srv' = [srv EXCEPT !.data = @ + 1]
    /\ ServerReplies(Records(1, srv.data + 1,
           <<[type |-> "application_data",
              data |-> scenario.data[srv.data + 1]]>>))
    /\ UNCHANGED <<recordVars, handlerVars, socketVars, scenario, toServer,
                   faults>>

-----------------------------------------------------------------------------
\* renegotiate(), called by the handler's constructor, has sent the first
\* ClientHello, and the socket watches the handshake's timer.
Init ==
    /\ RecordInit(Fragments(Hello(0, NoCookie)))
    /\ isHandshaking = TRUE
    /\ lastProcessedSeqNum = -1
    /\ lastSentSeqNum = 0
    /\ incompleteMessages = <<>>
    /\ completeMessages = <<>>
    /\ expectedResponses = {"server_hello_done", "hello_verify_request"}
    /\ allHandshakeData = <<>>
    /\ handshakeFinished = FALSE
    /\ isClosed = FALSE
    /\ bufferedMessages = <<>>
    /\ alertCallback = FALSE
    /\ events = <<>> /\ received = <<>>
    /\ srv = [phase |-> "listen", transcript |-> <<>>, next |-> 0,
              retransmits |-> 0, data |-> 0]
    /\ scenario \in Scenarios
    /\ toServer = <<>> /\ toClient = <<>> /\ faults = 0

\* Steps of the code that run to completion once an event has started them.
Internal ==
    \/ Collect
    \/ HandleHelloVerifyRequest
    \/ HandleServerHelloDone
    \/ HandleFinished
    \/ HandleChangeCipherSpec
    \/ HandleFatalAlert
    \/ HandleApplicationData
    \/ Filter
    \/ MarkOne
    \/ ProcessOutgoing
    \/ SendDatagram

Next ==
    \/ Internal
    \/ ReceiveDatagram
    \/ AlertSent
    \/ Disturb
    \/ ServerReceive
    \/ ServerRetransmit
    \/ ServerSendData
    \/ Timeout

\* The event loop runs what it was given, and an honest server and network
\* get to every datagram they do not lose: the system does not rest while one
\* of these steps can be taken.
Driven == Internal \/ ReceiveDatagram \/ AlertSent \/ ServerReceive

Spec == Init /\ [][Next]_vars /\ WF_vars(Driven \/ Timeout)

-----------------------------------------------------------------------------
\* The fields keep their types.
TypeOK ==
    /\ isHandshaking \in BOOLEAN
    /\ handshakeFinished \in BOOLEAN /\ isClosed \in BOOLEAN
    /\ lastProcessedSeqNum \in Nat \cup {-1} /\ lastSentSeqNum \in Nat
    /\ DOMAIN completeMessages \subseteq Nat
    /\ \A s \in DOMAIN completeMessages :
          ~ isFragmented(completeMessages[s]) /\ completeMessages[s].message_seq = s
    /\ expectedResponses = Undefined
          \/ expectedResponses \subseteq {"hello_verify_request",
                                          "server_hello_done", "finished"}

\* A flight that is expected and has arrived completely is never left waiting
\* in the buffer, in whatever order its messages and fragments came ...
NoCompleteFlightWaits ==
    expectedResponses # Undefined =>
        ~ \E n \in DOMAIN completeMessages :
             /\ (lastProcessedSeqNum + 1) .. n \subseteq DOMAIN completeMessages
             /\ n > lastProcessedSeqNum
             /\ completeMessages[n].msg_type \in expectedResponses

\* ... at any rate as long as the server does not repeat its flight and the
\* compat option is set for a server that needs it only.
FlightsAreTaken ==
    /\ scenario.retransmits = 0
    /\ scenario.compat => scenario.restarts
    => NoCompleteFlightWaits

IsData(e) == e[1] = "message"

\* Application data reaches the user once each and in the order it was received,
\* what overtook the handshake as soon as that has succeeded.
DataInOrder ==
    Filtered(events, {i \in DOMAIN events : IsData(events[i])})
        \o bufferedMessages = received

\* Application data reaches the user after `connected' only, however much of it
\* overtook the handshake.
DataAfterConnected ==
    \A i \in DOMAIN events : IsData(events[i]) =>
        \E j \in 1 .. i - 1 : events[j][1] = "connected"

\* The user hears of the end of the handshake once: connected, or an error.
OneVerdict ==
    Cardinality({i \in DOMAIN events : ~ IsData(events[i])}) <= 1

\* A connected socket reads and writes under the session keys.
ConnectedIsEncrypted ==
    handshakeFinished => /\ readEpochNr = 1 /\ writeEpochNr = 1
                         /\ epochs[1].keys = SessionKeys

\* `All handshake data sent so far, buffered for the Finished': a server that
\* checks the client's Finished against its own transcript accepts it, if it
\* asks for a cookie.  (Without, it has hashed a ClientHello that the client has
\* not, see HandshakeHandler.ts:315, and the handshake fails.)
CookieServerAccepts == scenario.cookie => srv.phase # "failed"

\* The two ends finish one after the other and on the same transcript.
Mutual == INSTANCE MutualFinish WITH
    client     <- IF handshakeFinished THEN "finished"
                  ELSE IF isClosed THEN "failed" ELSE "running",
    clientView <- IF handshakeFinished THEN Front(allHandshakeData) ELSE <<>>,
    server     <- CASE srv.phase = "done"   -> "finished"
                    [] srv.phase = "failed" -> "failed"
                    [] OTHER                -> "running",
    serverView <- IF srv.phase = "done" THEN srv.transcript ELSE <<>>

FinishesMutually == Mutual!Spec

\* Every handshake ends, in a connection or an error, whatever is lost, as long
\* as its timer may expire.
HandshakeEnds == ~ scenario.quick => <>(handshakeFinished \/ isClosed)

\* A server that the client can finish a handshake with.
Compatible == /\ scenario.cookie /\ scenario.suite = "psk"
              /\ scenario.restarts => scenario.compat

\* No flight is repeated, which makes the Finished wait, and the network is
\* clean where the compat option is set: after the replay window was reset a
\* HelloVerifyRequest that comes again is accepted again, and the ServerHello
\* that reuses its number is dropped.
Undisturbed == /\ scenario.retransmits = 0
               /\ scenario.compat => scenario.faults = {}

\* A handshake with such a server succeeds on a network that loses nothing and
\* keeps the order, also if datagrams come twice, and on a clean one with the
\* gateway the compat option is for.
EventuallyConnected ==
    /\ scenario.quick /\ Undisturbed /\ scenario.faults \subseteq {"duplicate"}
    /\ Compatible
    => <>handshakeFinished

\* Every message the server sends reaches the user, whether it overtook the
\* handshake, comes twice or comes late, unless it is lost or the user got an
\* error.
DataArrives ==
    /\ "lose" \notin scenario.faults
    /\ scenario.quick => Undisturbed
    => \A d \in ApplicationData :
           d \in {scenario.data[i] : i \in 1 .. srv.data}
               ~> (<<"message", d>> \in ToSet(events) \/ isClosed)

\* A server whose messages or transcript the client does not agree with is
\* reported to the user without waiting for the timeout, also if datagrams come
\* twice.  The gateway without its option is not: its ServerHello is dropped as
\* a replay, and only the timeout ends that handshake.
FailureIsReported ==
    /\ scenario.quick /\ Undisturbed /\ scenario.faults \subseteq {"duplicate"}
    /\ ~ Compatible
    /\ scenario.restarts => scenario.compat
    => <>(<<"error">> \in ToSet(events))
=============================================================================
