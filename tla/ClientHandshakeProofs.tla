------------------------ MODULE ClientHandshakeProofs ------------------------
(***************************************************************************)
(* What the user of a Socket hears during the handshake, for every          *)
(* scenario, server and network.                                            *)
(***************************************************************************)
EXTENDS ClientHandshake, OperatorLemmas, SequenceTheorems

told == <<events, bufferedMessages, handshakeFinished>>

\* Events and buffered messages are sequences; before the handshake is finished
\* no data has been told, and then a `connected' stands before all of it.
OrderInv ==
    /\ \E S : events \in Seq(S) /\ bufferedMessages \in Seq(S)
    /\ ~ handshakeFinished => \A i \in DOMAIN events : ~ IsData(events[i])
    /\ handshakeFinished =>
          \E j \in DOMAIN events :
             /\ events[j][1] = "connected"
             /\ \A i \in 1 .. j : ~ IsData(events[i])

\* The four things a step can do to what the user hears: nothing, tell an
\* error, tell that the Socket is connected and hand over the buffer, or take
\* application data.
TellsNothing == UNCHANGED told
TellsError == Kill /\ UNCHANGED <<bufferedMessages, handshakeFinished>>
TakesData ==
    \E data : /\ data[1] = "message"
              /\ UNCHANGED handshakeFinished
              /\ received' = Append(received, data)
              /\ IF handshakeFinished
                 THEN events' = Append(events, data) /\ UNCHANGED bufferedMessages
                 ELSE /\ bufferedMessages' = Append(bufferedMessages, data)
                      /\ UNCHANGED events

LEMMA StepTells ==
    ASSUME [Next]_vars
    PROVE  \/ UNCHANGED received /\ (TellsNothing \/ TellsError \/ FinishConnected)
           \/ TakesData
<1>1. CASE UNCHANGED vars
  BY <1>1, Zenon DEF vars, socketVars, TellsNothing, told
<1>2. CASE Collect
  BY <1>2, Zenon DEF Collect, socketVars, TellsNothing, told
<1>3. CASE HandleHelloVerifyRequest
  BY <1>3, Zenon DEF HandleHelloVerifyRequest, socketVars, TellsNothing, told
<1>4. CASE HandleServerHelloDone
  <2>1. \/ UNCHANGED socketVars
        \/ UNCHANGED received /\ (FinishAlert \/ FinishThrown)
    BY <1>4, Zenon DEF HandleServerHelloDone
  <2> QED
    BY <2>1, Zenon
    DEF socketVars, FinishAlert, FinishThrown, TellsNothing, TellsError, told
<1>5. CASE HandleFinished
  <2>1. UNCHANGED received /\ (FinishThrown \/ FinishConnected \/ FinishAlert)
    BY <1>5, Zenon DEF HandleFinished
  <2> QED
    BY <2>1, Zenon DEF FinishAlert, FinishThrown, TellsNothing, TellsError, told
<1>6. CASE HandleChangeCipherSpec
  BY <1>6, Zenon DEF HandleChangeCipherSpec, socketVars, TellsNothing, told
<1>7. CASE HandleFatalAlert
  BY <1>7, Zenon DEF HandleFatalAlert, TellsError
<1>8. CASE HandleApplicationData
  <2> DEFINE data == <<"message", Head(messages).data>>
  <2>1. /\ data[1] = "message"
        /\ UNCHANGED handshakeFinished
        /\ received' = Append(received, data)
        /\ IF handshakeFinished
           THEN events' = Append(events, data) /\ UNCHANGED bufferedMessages
           ELSE /\ bufferedMessages' = Append(bufferedMessages, data)
                /\ UNCHANGED events
    BY <1>8, Zenon DEF HandleApplicationData
  <2> QED
    BY <2>1, Zenon DEF TakesData
<1>9. CASE Filter \/ MarkOne \/ ProcessOutgoing \/ SendDatagram \/ ReceiveDatagram
  BY <1>9, Zenon DEF Filter, MarkOne, ProcessOutgoing, SendDatagram, ReceiveDatagram,
     othersUnchanged, socketVars, TellsNothing, told
<1>10. CASE AlertSent \/ Timeout
  BY <1>10, Zenon DEF AlertSent, Timeout, TellsError
<1>11. CASE Disturb \/ ServerReceive \/ ServerRetransmit \/ ServerSendData
  BY <1>11, Zenon DEF Disturb, ServerReceive, ServerRetransmit, ServerSendData,
     socketVars, TellsNothing, told
<1> QED
  BY <1>1, <1>2, <1>3, <1>4, <1>5, <1>6, <1>7, <1>8, <1>9, <1>10, <1>11, Zenon
  DEF Next, Internal

LEMMA OrderInit == Init => OrderInv
<1> SUFFICES ASSUME Init PROVE OrderInv
  OBVIOUS
<1>1. events = <<>> /\ bufferedMessages = <<>> /\ handshakeFinished = FALSE
  BY Zenon DEF Init
<1>2. events \in Seq({}) /\ bufferedMessages \in Seq({})
  BY <1>1
<1> QED
  BY <1>1, <1>2 DEF OrderInv

\* Appending to what was told.
LEMMA Told ==
    ASSUME OrderInv, NEW e, e[1] # "message", events' = Append(events, e),
           UNCHANGED <<bufferedMessages, handshakeFinished>>
    PROVE  OrderInv'
<1>1. PICK S : events \in Seq(S) /\ bufferedMessages \in Seq(S)
  BY DEF OrderInv
<1>2. events' \in Seq(S \cup {e}) /\ bufferedMessages' \in Seq(S \cup {e})
  BY <1>1
<1>3. /\ DOMAIN events = 1 .. Len(events) /\ Len(events) \in Nat
      /\ DOMAIN events' = 1 .. Len(events) + 1
      /\ \A i \in DOMAIN events : events'[i] = events[i]
      /\ events'[Len(events) + 1] = e
  BY <1>1
<1>4. ASSUME ~ handshakeFinished
      PROVE  \A i \in DOMAIN events' : ~ IsData(events'[i])
  BY <1>3, <1>4 DEF OrderInv, IsData
<1>5. ASSUME handshakeFinished
      PROVE  \E j \in DOMAIN events' : /\ events'[j][1] = "connected"
                                       /\ \A i \in 1 .. j : ~ IsData(events'[i])
  <2>1. PICK j \in DOMAIN events : /\ events[j][1] = "connected"
                                   /\ \A i \in 1 .. j : ~ IsData(events[i])
    BY <1>5 DEF OrderInv
  <2>2. j \in DOMAIN events' /\ \A i \in 1 .. j : i \in DOMAIN events
    BY <1>3
  <2> QED
    BY <1>3, <2>1, <2>2 DEF IsData
<1> QED
  BY <1>2, <1>4, <1>5 DEF OrderInv

LEMMA OrderNext == OrderInv /\ [Next]_vars => OrderInv'
<1> SUFFICES ASSUME OrderInv, [Next]_vars PROVE OrderInv'
  OBVIOUS
<1>0. PICK S : events \in Seq(S) /\ bufferedMessages \in Seq(S)
  BY DEF OrderInv
<1>1. CASE TellsNothing
  BY <1>1 DEF TellsNothing, told, OrderInv, IsData
<1>2. CASE TellsError
  <2>1. CASE isClosed
    BY <1>2, <2>1 DEF TellsError, Kill, OrderInv, IsData
  <2>2. CASE ~ isClosed
    <3>1. events' = Append(events, <<"error">>)
      BY <1>2, <2>2, Zenon DEF TellsError, Kill
    <3>2. UNCHANGED <<bufferedMessages, handshakeFinished>>
      BY <1>2, Zenon DEF TellsError
    <3> DEFINE e == <<"error">>
    <3>3. e[1] # "message"
      OBVIOUS
    <3> HIDE DEF e
    <3>4. events' = Append(events, e)
      BY <3>1 DEF e
    <3> QED
      BY <3>2, <3>3, <3>4, Told
  <2> QED
    BY <2>1, <2>2
<1>3. CASE FinishConnected
  <2> DEFINE c == <<"connected">>
             T == S \cup {c}
  <2>1. /\ handshakeFinished' = TRUE
        /\ events' = events \o <<c>> \o bufferedMessages
        /\ bufferedMessages' = <<>>
    BY <1>3, Zenon DEF FinishConnected
  <2>2. c[1] = "connected"
    OBVIOUS
  <2> HIDE DEF c
  <2>3. events \in Seq(T) /\ bufferedMessages \in Seq(T) /\ <<c>> \in Seq(T)
    BY <1>0
  <2>4. events' \in Seq(T) /\ bufferedMessages' \in Seq(T)
    BY <2>1, <2>3
  <2>5. /\ DOMAIN events = 1 .. Len(events) /\ Len(events) \in Nat
        /\ \A i \in DOMAIN events : events'[i] = events[i]
        /\ events'[Len(events) + 1] = c
        /\ Len(events) + 1 \in DOMAIN events'
    BY <2>1, <2>3
  <2>6. \E j \in DOMAIN events' : /\ events'[j][1] = "connected"
                                  /\ \A i \in 1 .. j : ~ IsData(events'[i])
    <3>1. CASE handshakeFinished
      <4>1. PICK j \in DOMAIN events : /\ events[j][1] = "connected"
                                       /\ \A i \in 1 .. j : ~ IsData(events[i])
        BY <3>1 DEF OrderInv
      <4>2. j \in DOMAIN events' /\ \A i \in 1 .. j : i \in DOMAIN events
        BY <2>1, <2>3, <2>5
      <4> QED
        BY <2>5, <4>1, <4>2 DEF IsData
    <3>2. CASE ~ handshakeFinished
      <4>1. \A i \in DOMAIN events : ~ IsData(events[i])
        BY <3>2 DEF OrderInv
      <4>2. \A i \in 1 .. Len(events) + 1 : i \in DOMAIN events \/ i = Len(events) + 1
        BY <2>5
      <4>3. \A i \in 1 .. Len(events) + 1 : ~ IsData(events'[i])
        BY <2>2, <2>5, <4>1, <4>2 DEF IsData
      <4> QED
        BY <2>2, <2>5, <4>3
    <3> QED
      BY <3>1, <3>2
  <2> QED
    BY <2>1, <2>4, <2>6 DEF OrderInv
<1>4. CASE TakesData
  <2>1. PICK data :
            /\ data[1] = "message"
            /\ UNCHANGED handshakeFinished
            /\ IF handshakeFinished
               THEN events' = Append(events, data) /\ UNCHANGED bufferedMessages
               ELSE /\ bufferedMessages' = Append(bufferedMessages, data)
                    /\ UNCHANGED events
    BY <1>4 DEF TakesData
  <2> DEFINE T == S \cup {data}
  <2>2. events' \in Seq(T) /\ bufferedMessages' \in Seq(T)
    <3>1. events \in Seq(T) /\ bufferedMessages \in Seq(T) /\ data \in T
      BY <1>0
    <3> HIDE DEF T
    <3>2. Append(events, data) \in Seq(T) /\ Append(bufferedMessages, data) \in Seq(T)
      BY <3>1
    <3>3. events' \in {events, Append(events, data)}
      BY <2>1, Zenon
    <3>4. bufferedMessages' \in {bufferedMessages, Append(bufferedMessages, data)}
      BY <2>1, Zenon
    <3> QED
      BY <3>1, <3>2, <3>3, <3>4
  <2>3. CASE handshakeFinished
    <3>1. /\ DOMAIN events = 1 .. Len(events) /\ Len(events) \in Nat
          /\ DOMAIN events' = 1 .. Len(events) + 1
          /\ \A i \in DOMAIN events : events'[i] = events[i]
      BY <1>0, <2>1, <2>3
    <3>2. PICK j \in DOMAIN events : /\ events[j][1] = "connected"
                                     /\ \A i \in 1 .. j : ~ IsData(events[i])
      BY <2>3 DEF OrderInv
    <3>3. j \in DOMAIN events' /\ \A i \in 1 .. j : i \in DOMAIN events
      BY <3>1
    <3>4. events'[j][1] = "connected" /\ \A i \in 1 .. j : ~ IsData(events'[i])
      BY <3>1, <3>2, <3>3 DEF IsData
    <3> QED
      BY <2>1, <2>2, <2>3, <3>3, <3>4 DEF OrderInv
  <2>4. CASE ~ handshakeFinished
    BY <2>1, <2>2, <2>4 DEF OrderInv, IsData
  <2> QED
    BY <2>3, <2>4
<1> QED
  BY <1>1, <1>2, <1>3, <1>4, StepTells

\* No data reaches the user before `connected', whatever the server sends and
\* the network does with it.
THEOREM DataComesAfter == Spec => []DataAfterConnected
<1>1. OrderInv => DataAfterConnected
  <2> SUFFICES ASSUME OrderInv, NEW i \in DOMAIN events, IsData(events[i])
               PROVE  \E j \in 1 .. i - 1 : events[j][1] = "connected"
    BY DEF DataAfterConnected
  <2>1. PICK S : events \in Seq(S)
    BY DEF OrderInv
  <2>2. PICK j \in DOMAIN events : /\ events[j][1] = "connected"
                                   /\ \A k \in 1 .. j : ~ IsData(events[k])
    BY DEF OrderInv
  <2>3. i \notin 1 .. j /\ i \in Nat /\ j \in Nat /\ i >= 1 /\ j >= 1
    BY <2>1, <2>2
  <2> QED
    BY <2>2, <2>3
<1> QED
  BY <1>1, OrderInit, OrderNext, PTL DEF Spec

-----------------------------------------------------------------------------
(* One verdict.  What the user hears of the end of the handshake depends on  *)
(* what is on its way from the server: an alert is, only when the server has *)
(* failed, and a Finished only when it is done; and it is never both.        *)

\* What a message to the client tells of the phase its server is in.
Honest(phase, m) ==
    /\ m.type = "alert" => phase = "failed"
    /\ (m.type = "handshake" /\ m.data.msg_type = "finished") => phase = "done"

HonestRecord(phase, r) == /\ Honest(phase, r) /\ "type" \in DOMAIN r
                          /\ r.keys # NullKeys => phase = "done"

ServerFields == {"phase", "transcript", "next", "retransmits", "data"}

SrvInv == /\ DOMAIN srv = ServerFields
          /\ srv = [f \in ServerFields |-> srv[f]]

\* Wherever a message is on its way to its handler: in the network, while its
\* datagram is read, which may garble it, and among the complete messages.
InNetwork(phase, sent, read) ==
    \E S : /\ sent \in Seq(Seq(S)) /\ read \in Seq(S)
           /\ \A r \in S : HonestRecord(phase, r)

InRecordLayer(phase, passed, returned) ==
    \E S : /\ passed \in Seq(S) /\ returned \in Seq(S)
           /\ \A m \in S : Honest(phase, m)

InHandler(phase, complete) ==
    \A n \in DOMAIN complete :
        complete[n].msg_type = "finished" => phase = "done"

NetInv == /\ InNetwork(srv.phase, toClient, datagram)
          /\ InRecordLayer(srv.phase, unmarked, messages)
          /\ InHandler(srv.phase, completeMessages)

\* A Socket is not both connected and closed; after either no message that
\* could tell the other is handled any more.
Settled ==
    /\ ~ (handshakeFinished /\ isClosed)
    /\ handshakeFinished => /\ srv.phase = "done"
                            /\ expectedResponses = Undefined /\ ~ alertCallback
    /\ alertCallback => expectedResponses = Undefined
    /\ isClosed => \/ srv.phase = "failed"
                   \/ expectedResponses = Undefined
                   \/ (messages = <<>> /\ ~ Receiving)

\* There is at most one verdict, and none before the Socket is connected or
\* closed.
Heard ==
    /\ ~ handshakeFinished /\ ~ isClosed =>
          \A i \in DOMAIN events : IsData(events[i])
    /\ \A i \in DOMAIN bufferedMessages : IsData(bufferedMessages[i])
    /\ \E k : \A i \in DOMAIN events : ~ IsData(events[i]) => i = k

Kept == /\ srv.phase = "done" => srv'.phase = "done"
        /\ srv.phase = "failed" => srv'.phase = "failed"

-----------------------------------------------------------------------------
(* The server.                                                              *)

\* A server that is done or has failed stays so.
LEMMA ServerKept ==
    ASSUME SrvInv, [Next]_vars
    PROVE  SrvInv' /\ Kept
<1>1. CASE srv' = srv
  BY <1>1 DEF SrvInv, Kept
<1>2. CASE ServerReceive
  <2>1. PICK i \in DOMAIN toServer :
            ServerTakes(toServer[i]) \/ ServerIgnores(toServer[i])
    BY <1>2, Zenon DEF ServerReceive
  <2> DEFINE d == toServer[i]
  <2>2. CASE ServerHelloPhase(d[1]) /\ srv' # srv
    <3>1. srv.phase = "listen"
      BY <2>2, Zenon DEF ServerHelloPhase
    <3>2. \E x, y : srv' = [srv EXCEPT !.phase = "negotiating", !.next = x,
                                       !.transcript = y]
      BY <2>2, Zenon DEF ServerHelloPhase
    <3> QED
      BY <3>1, <3>2 DEF SrvInv, Kept, ServerFields
  <2>3. CASE ServerFinishPhase(d)
    <3>1. srv.phase = "negotiating"
      BY <2>3, Zenon DEF ServerFinishPhase
    <3>2. \/ \E x : srv' = [srv EXCEPT !.phase = "done", !.transcript = x]
          \/ srv' = [srv EXCEPT !.phase = "failed"]
      BY <2>3, Zenon DEF ServerFinishPhase
    <3> QED
      BY <3>1, <3>2 DEF SrvInv, Kept, ServerFields
  <2>4. CASE srv' = srv
    BY <2>4 DEF SrvInv, Kept
  <2> QED
    BY <2>1, <2>2, <2>3, <2>4, Zenon DEF ServerTakes, ServerIgnores
<1>3. CASE ServerRetransmit
  <2>1. \E x, y : srv' = [srv EXCEPT !.retransmits = x, !.next = y]
    BY <1>3, Zenon DEF ServerRetransmit
  <2> QED
    BY <2>1 DEF SrvInv, Kept, ServerFields
<1>4. CASE ServerSendData
  <2>1. \E x : srv' = [srv EXCEPT !.data = x]
    BY <1>4, Zenon DEF ServerSendData
  <2> QED
    BY <2>1 DEF SrvInv, Kept, ServerFields
<1>5. CASE Internal \/ ReceiveDatagram \/ AlertSent \/ Disturb \/ Timeout
           \/ UNCHANGED vars
  <2>1. UNCHANGED serverVars
    BY <1>5, Zenon
    DEF Internal, Collect, HandleHelloVerifyRequest, HandleServerHelloDone,
        HandleFinished, HandleChangeCipherSpec, HandleFatalAlert,
        HandleApplicationData, Filter, MarkOne, ProcessOutgoing, SendDatagram,
        ReceiveDatagram, AlertSent, Disturb, Timeout, othersUnchanged, vars
  <2> QED
    BY <2>1, <1>1, Zenon DEF serverVars
<1> QED
  BY <1>2, <1>3, <1>4, <1>5, Zenon DEF Next

\* What was true of the server stays so.
LEMMA HonestStays ==
    ASSUME Kept, NetInv
    PROVE  /\ InNetwork(srv'.phase, toClient, datagram) /\ InRecordLayer(srv'.phase, unmarked, messages)
           /\ InHandler(srv'.phase, completeMessages)
<1>1. \A m : Honest(srv.phase, m) => Honest(srv'.phase, m)
  BY DEF Honest, Kept
<1>2. \A r : HonestRecord(srv.phase, r) => HonestRecord(srv'.phase, r)
  BY <1>1 DEF HonestRecord, Kept
<1>3. InNetwork(srv'.phase, toClient, datagram)
  BY <1>2, Zenon DEF NetInv, InNetwork
<1>4. InRecordLayer(srv'.phase, unmarked, messages)
  BY <1>1, Zenon DEF NetInv, InRecordLayer
<1>5. InHandler(srv'.phase, completeMessages)
  BY Zenon DEF NetInv, InHandler, Kept
<1> QED
  BY <1>3, <1>4, <1>5

\* A flight in one datagram, or in one per record.
LEMMA RepliesArePosted ==
    ASSUME NEW phase, InNetwork(phase, toClient, datagram), UNCHANGED datagram,
           NEW S, NEW records \in Seq(S), ServerReplies(records),
           \A r \in S : HonestRecord(phase, r)
    PROVE  InNetwork(phase, toClient', datagram')
<1>1. PICK R : /\ toClient \in Seq(Seq(R)) /\ datagram \in Seq(R)
               /\ \A r \in R : HonestRecord(phase, r)
  BY Zenon DEF InNetwork
<1> DEFINE T == R \cup S
           single == [i \in DOMAIN records |-> <<records[i]>>]
<1>2. records \in Seq(T) /\ datagram \in Seq(T) /\ toClient \in Seq(Seq(T))
  <2>1. records \in Seq(T) /\ datagram \in Seq(T)
    BY <1>1
  <2>2. Seq(R) \subseteq Seq(T)
    OBVIOUS
  <2> HIDE DEF T
  <2> QED
    BY <1>1, <2>1, <2>2
<1>3. \A r \in T : HonestRecord(phase, r)
  BY <1>1, Zenon
<1> HIDE DEF T
<1>4. <<records>> \in Seq(Seq(T))
  BY <1>2
<1>5. single \in Seq(Seq(T))
  <2>1. \A i \in DOMAIN records : <<records[i]>> \in Seq(T)
    BY <1>2
  <2>2. DOMAIN records = 1 .. Len(records) /\ Len(records) \in Nat
    BY <1>2
  <2> QED
    BY <2>1, <2>2
<1> HIDE DEF single
<1>6. toClient' = toClient \o <<records>> \/ toClient' = toClient \o single
  BY Zenon DEF ServerReplies, single
<1>7. toClient' \in Seq(Seq(T))
  <2> DEFINE Q == Seq(T)
  <2>1. <<records>> \in Seq(Q) /\ single \in Seq(Q) /\ toClient \in Seq(Q)
    BY <1>2, <1>4, <1>5
  <2> DEFINE one == <<records>>
  <2> HIDE DEF Q, one
  <2>2. toClient' \in Seq(Q)
    BY <1>6, <2>1, ConcatProperties, Zenon DEF one
  <2> QED
    BY <2>2 DEF Q
<1> QED
  BY <1>2, <1>3, <1>7, Zenon DEF InNetwork

\* Records of honest messages are honest; those of a later epoch are sent by a
\* server that is done.
LEMMA RecordsAreHonest ==
    ASSUME NEW phase, NEW epoch, NEW n, NEW M, NEW msgs \in Seq(M),
           \A m \in M : Honest(phase, m),
           epoch # 0 => phase = "done"
    PROVE  \E S : /\ Records(epoch, n, msgs) \in Seq(S)
                  /\ \A r \in S : HonestRecord(phase, r)
<1> DEFINE S == {Records(epoch, n, msgs)[i] : i \in DOMAIN msgs}
<1>1. DOMAIN msgs = 1 .. Len(msgs) /\ Len(msgs) \in Nat
  OBVIOUS
<1>2. DOMAIN Records(epoch, n, msgs) = DOMAIN msgs
  BY Zenon DEF Records
<1>3. Records(epoch, n, msgs) \in Seq(S)
  <2>1. Records(epoch, n, msgs) = [i \in 1 .. Len(msgs) |-> Records(epoch, n, msgs)[i]]
    BY <1>1 DEF Records
  <2>2. \A i \in 1 .. Len(msgs) : Records(epoch, n, msgs)[i] \in S
    BY <1>1
  <2> HIDE DEF S
  <2> DEFINE f == Records(epoch, n, msgs)
  <2> HIDE DEF f
  <2> QED
    BY <1>1, <2>1, <2>2, IsASeq DEF f
<1>4. ASSUME NEW i \in DOMAIN msgs
      PROVE  HonestRecord(phase, Records(epoch, n, msgs)[i])
  <2> DEFINE m == msgs[i]
  <2>1. Records(epoch, n, msgs)[i] =
            [epoch |-> epoch, sequence_number |-> n + i - 1,
             keys |-> IF epoch = 0 THEN NullKeys ELSE SessionKeys,
             type |-> m.type, data |-> m.data]
    BY Zenon DEF Records
  <2>2. Honest(phase, m)
    BY <1>1
  <2> DEFINE r == Records(epoch, n, msgs)[i]
  <2> HIDE DEF m
  <2>3. /\ r.type = m.type /\ r.data = m.data /\ "type" \in DOMAIN r
        /\ r.keys = IF epoch = 0 THEN NullKeys ELSE SessionKeys
    BY <2>1
  <2> HIDE DEF r
  <2>4. HonestRecord(phase, r)
    BY <2>2, <2>3, Zenon DEF HonestRecord, Honest
  <2> QED
    BY <2>4 DEF r
<1>5. \A r \in S : HonestRecord(phase, r)
  BY <1>4
<1> HIDE DEF S
<1> QED
  BY <1>3, <1>5

\* The server's fragments of a message have its header.
SameHeader(f, m) == /\ f.msg_type = m.msg_type /\ f.message_seq = m.message_seq
                    /\ f.total_length = m.total_length

LEMMA FragmentsKeepHeader ==
    ASSUME NEW m, m.total_length \in Nat
    PROVE  \E F : /\ FragmentsOf(m) \in Seq(F)
                  /\ \A f \in F : SameHeader(f, m)
<1>1. CASE m.total_length = 0
  <2>1. FragmentsOf(m) = <<Whole(m)>> /\ SameHeader(Whole(m), m)
    BY <1>1 DEF FragmentsOf, Whole, Fragment, SameHeader
  <2> DEFINE F == {Whole(m)}
  <2>2. FragmentsOf(m) \in Seq(F) /\ \A f \in F : SameHeader(f, m)
    BY <2>1
  <2> HIDE DEF F
  <2> QED
    BY <2>2
<1>2. CASE m.total_length # 0
  <2> DEFINE K == (m.total_length + MTU - 1) \div MTU
             part(k) == Fragment(m, (k - 1) * MTU,
                                 Shorter(MTU, m.total_length - (k - 1) * MTU))
             F == {part(k) : k \in 1 .. K}
  <2>1. K \in Nat
    <3> DEFINE b == MTU
               a == m.total_length + MTU - 1
    <3>1. b \in Nat \ {0} /\ a \in Nat
      BY MTUAssumption
    <3> HIDE DEF a, b
    <3>2. a \div b \in Nat
      BY <3>1, SMTT(30)
    <3> QED
      BY <3>2 DEF a, b
  <2>2. FragmentsOf(m) = [k \in 1 .. K |-> part(k)]
    BY <1>2, Zenon DEF FragmentsOf
  <2>3. \A f \in F : SameHeader(f, m)
    BY DEF Fragment, SameHeader
  <2> HIDE DEF K, part
  <2>4. FragmentsOf(m) \in Seq(F)
    BY <2>1, <2>2
  <2> QED
    BY <2>3, <2>4
<1> QED
  BY <1>1, <1>2

\* Flight 4 has handshake messages in it, none of them a Finished.
LEMMA Flight4IsRecords ==
    ASSUME NEW n
    PROVE  \E M : \E msgs \in Seq(M) :
              /\ Flight4(n) = Records(0, n, msgs)
              /\ \A m \in M : /\ m.type = "handshake" /\ m.data.msg_type # "finished"
                             /\ m.data.message_seq \in Nat
                             /\ m.data.total_length \in Nat
<1> DEFINE Early(S) == \A f \in S : /\ f.msg_type # "finished"
                                   /\ f.message_seq \in Nat /\ f.total_length \in Nat
           L == Len(Flight4Messages)
<1>1. /\ DOMAIN Flight4Messages = 1 .. L
      /\ L = IF scenario.hint THEN 3 ELSE 2
      /\ \A i \in 1 .. L : /\ Flight4Messages[i].msg_type # "finished"
                           /\ Flight4Messages[i].message_seq \in Nat
                           /\ Flight4Messages[i].total_length \in Nat
  <2>1. CASE scenario.hint
    <3>1. Flight4Types = <<"server_hello", "server_key_exchange", "server_hello_done">>
      BY <2>1, Zenon DEF Flight4Types
    <3> QED
      BY <2>1, <3>1 DEF Flight4Messages, FirstSeq, Msg, LengthOf
  <2>2. CASE ~ scenario.hint
    <3>1. Flight4Types = <<"server_hello", "server_hello_done">>
      BY <2>2, Zenon DEF Flight4Types
    <3> QED
      BY <2>2, <3>1 DEF Flight4Messages, FirstSeq, Msg, LengthOf
  <2> QED
    BY <2>1, <2>2
<1>2. \A i \in 1 .. L : \E F : FragmentsOf(Flight4Messages[i]) \in Seq(F) /\ Early(F)
  <2> TAKE i \in 1 .. L
  <2> DEFINE m == Flight4Messages[i]
  <2>1. m.msg_type # "finished" /\ m.message_seq \in Nat /\ m.total_length \in Nat
    BY <1>1
  <2> HIDE DEF m
  <2>2. PICK F : FragmentsOf(m) \in Seq(F) /\ \A f \in F : SameHeader(f, m)
    BY <2>1, FragmentsKeepHeader
  <2>3. FragmentsOf(m) \in Seq(F) /\ Early(F)
    BY <2>1, <2>2 DEF SameHeader
  <2> QED
    BY <2>3 DEF m
<1> DEFINE hello == FragmentsOf(Flight4Messages[1])
           hint  == IF scenario.hint THEN FragmentsOf(Flight4Messages[2]) ELSE <<>>
           done  == FragmentsOf(Last(Flight4Messages))
           frags == hello \o hint \o done
           msgs  == [i \in DOMAIN frags |-> HandshakeMessage(frags[i])]
<1>3. PICK F1 : hello \in Seq(F1) /\ Early(F1)
  BY <1>1, <1>2
<1>4. PICK F2 : hint \in Seq(F2) /\ Early(F2)
  <2>1. CASE scenario.hint
    BY <1>1, <1>2, <2>1
  <2>2. CASE ~ scenario.hint
    <3> DEFINE none == {}
    <3>1. hint \in Seq(none) /\ Early(none)
      BY <2>2
    <3> HIDE DEF none, hint
    <3> QED
      BY <3>1
  <2> HIDE DEF hint, Early
  <2> QED
    BY <2>1, <2>2
<1>5. PICK F3 : done \in Seq(F3) /\ Early(F3)
  <2>1. L \in 1 .. L /\ done = FragmentsOf(Flight4Messages[L])
    BY <1>1 DEF Last
  <2> HIDE DEF L, done, Early
  <2> QED
    BY <1>2, <2>1
<1> DEFINE F == F1 \cup F2 \cup F3
<1> HIDE DEF hello, hint, done
<1>6. frags \in Seq(F) /\ Early(F)
  <2>1. Early(F)
    BY <1>3, <1>4, <1>5
  <2>2. hello \in Seq(F) /\ hint \in Seq(F) /\ done \in Seq(F)
    BY <1>3, <1>4, <1>5
  <2> HIDE DEF F
  <2> QED
    BY <2>1, <2>2
<1> DEFINE M == {HandshakeMessage(f) : f \in F}
<1> HIDE DEF F, frags
<1>7. msgs \in Seq(M)
  BY <1>6
<1>8. \A m \in M : /\ m.type = "handshake" /\ m.data.msg_type # "finished"
                   /\ m.data.message_seq \in Nat /\ m.data.total_length \in Nat
  BY <1>6 DEF HandshakeMessage
<1>9. Flight4(n) = Records(0, n, msgs)
  BY Zenon DEF Flight4, frags, hello, hint, done
<1> HIDE DEF M, msgs
<1> QED
  BY <1>7, <1>8, <1>9

LEMMA Flight4IsHonest ==
    ASSUME NEW phase, NEW n
    PROVE  \E S : /\ Flight4(n) \in Seq(S)
                  /\ \A r \in S : HonestRecord(phase, r)
<1>1. PICK M : \E msgs \in Seq(M) :
          /\ Flight4(n) = Records(0, n, msgs)
          /\ \A m \in M : m.type = "handshake" /\ m.data.msg_type # "finished"
  BY Flight4IsRecords
<1>2. PICK msgs \in Seq(M) :
          /\ Flight4(n) = Records(0, n, msgs)
          /\ \A m \in M : m.type = "handshake" /\ m.data.msg_type # "finished"
  BY <1>1
<1>3. \A m \in M : Honest(phase, m)
  BY <1>2 DEF Honest
<1> QED
  BY <1>2, <1>3, RecordsAreHonest

-----------------------------------------------------------------------------
(* The client.                                                              *)

\* A Finished among the messages kept is the next message or was kept before.
LEMMA StoredAreHonest ==
    ASSUME NEW phase, InHandler(phase, completeMessages), InRecordLayer(phase, unmarked, messages), messages # <<>>,
           Head(messages).type = "handshake",
           NEW n \in DOMAIN NextStored.complete,
           NextStored.complete[n].msg_type = "finished"
    PROVE  phase = "done"
<1> DEFINE f == Head(messages).data
           Added == [s \in DOMAIN completeMessages \cup {f.message_seq} |->
                       IF s = f.message_seq THEN Whole(f) ELSE completeMessages[s]]
<1>1. NextStored.complete = Added \/ NextStored.complete = completeMessages
  BY DEF NextStored, Stored
<1>2. f.msg_type = "finished" => phase = "done"
  <2>1. PICK S : messages \in Seq(S) /\ \A m \in S : Honest(phase, m)
    BY DEF InRecordLayer
  <2>2. Head(messages) \in S
    BY <2>1
  <2> QED
    BY <2>1, <2>2, Zenon DEF Honest
<1>3. Whole(f).msg_type = f.msg_type
  BY DEF Whole, Fragment
<1> HIDE DEF f
<1>4. CASE NextStored.complete = completeMessages
  BY <1>4 DEF InHandler
<1>5. CASE NextStored.complete = Added
  <2>1. Added[n] = IF n = f.message_seq THEN Whole(f) ELSE completeMessages[n]
    BY <1>5
  <2>2. n = f.message_seq \/ n \in DOMAIN completeMessages
    BY <1>5
  <2> HIDE DEF Added
  <2>3. CASE n = f.message_seq
    BY <1>2, <1>3, <1>5, <2>1, <2>3
  <2>4. CASE n # f.message_seq
    BY <1>5, <2>1, <2>2, <2>4 DEF InHandler
  <2> QED
    BY <2>3, <2>4
<1> QED
  BY <1>1, <1>4, <1>5

\* The handler takes a Finished flight from a server that is done.
LEMMA FinishedIsHonest ==
    ASSUME NetInv, TakeFlight("finished")
    PROVE  srv.phase = "done"
<1>1. messages # <<>> /\ Head(messages).type = "handshake"
  BY Zenon DEF TakeFlight, Incoming
<1>2. PICK last \in DOMAIN NextStored.complete :
          NextStored.complete[last].msg_type = "finished"
  BY Zenon DEF TakeFlight
<1> QED
  BY <1>1, <1>2, StoredAreHonest DEF NetInv

\* An alert is from a server that has failed.
LEMMA AlertIsHonest ==
    ASSUME NetInv, Incoming("alert")
    PROVE  srv.phase = "failed"
<1>1. messages # <<>> /\ Head(messages).type = "alert"
  BY Zenon DEF Incoming
<1>2. PICK S : messages \in Seq(S) /\ \A m \in S : Honest(srv.phase, m)
  BY DEF NetInv, InRecordLayer
<1>3. Head(messages) \in S
  BY <1>1, <1>2
<1> QED
  BY <1>1, <1>2, <1>3, Zenon DEF Honest

\* The record layer hands on what it got, or garbles what only a server that is
\* done sends.
LEMMA RecordLayerIsHonest ==
    ASSUME NEW phase, InNetwork(phase, toClient, datagram), InRecordLayer(phase, unmarked, messages),
           Discard \/ Decipher \/ Mark, UNCHANGED toClient
    PROVE  InNetwork(phase, toClient', datagram') /\ InRecordLayer(phase, unmarked', messages')
<1>1. PICK R : /\ toClient \in Seq(Seq(R)) /\ datagram \in Seq(R)
               /\ \A r \in R : HonestRecord(phase, r)
  BY Zenon DEF InNetwork
<1>2. PICK M : /\ unmarked \in Seq(M) /\ messages \in Seq(M)
               /\ \A m \in M : Honest(phase, m)
  BY Zenon DEF InRecordLayer
<1>3. datagram' \in Seq(R)
  <2>1. (datagram' = Tail(datagram) /\ datagram # <<>>) \/ datagram' = datagram
    BY Zenon DEF Discard, Decipher, Mark
  <2>2. datagram \in Seq(R)
    BY <1>1
  <2> QED
    BY <2>1, <2>2
<1>4. InNetwork(phase, toClient', datagram')
  <2>1. toClient' \in Seq(Seq(R))
    BY <1>1
  <2> QED
    BY <1>1, <1>3, <2>1, Zenon DEF InNetwork
<1>5. CASE Discard
  BY <1>2, <1>4, <1>5, Zenon DEF Discard, InRecordLayer
<1>6. CASE Decipher
  <2> DEFINE p == Head(datagram)
             q == Plain(p)
  <2>1. /\ datagram # <<>> /\ messages' = messages
        /\ unmarked' = IF Deciphers(p) THEN Append(unmarked, q) ELSE unmarked
    BY <1>6, Zenon DEF Decipher
  <2>2. p \in R
    BY <1>1, <2>1
  <2>3. HonestRecord(phase, p)
    BY <1>1, <2>2
  <2>4. ASSUME Deciphers(p)
        PROVE  Honest(phase, q)
    <3>1. CASE q = p
      BY <2>3, <3>1 DEF HonestRecord
    <3>2. CASE q # p
      <4> HIDE DEF p
      <4>1. q = [p EXCEPT !.data = Garbled] /\ DecipherOf(p.epoch) # p.keys
        BY <3>2, Zenon DEF Plain
      <4>2. p.keys # NullKeys
        BY <2>4, <4>1 DEF Deciphers
      <4>3. phase = "done"
        BY <2>3, <4>2 DEF HonestRecord
      <4>4. q.type = p.type
        BY <2>3, <4>1 DEF HonestRecord
      <4> HIDE DEF q
      <4> QED
        BY <2>3, <4>3, <4>4, Zenon DEF HonestRecord, Honest
    <3> QED
      BY <3>1, <3>2
  <2>5. CASE Deciphers(p)
    <3> DEFINE N == M \cup {q}
    <3>1. \A m \in N : Honest(phase, m)
      BY <1>2, <2>4, <2>5
    <3>2. unmarked \in Seq(N) /\ messages' \in Seq(N) /\ q \in N
      BY <1>2, <2>1
    <3>3. unmarked' = Append(unmarked, q)
      BY <2>1, <2>5, Zenon
    <3> HIDE DEF N, q
    <3>4. unmarked' \in Seq(N)
      BY <3>2, <3>3
    <3> QED
      BY <1>4, <3>1, <3>2, <3>4, Zenon DEF InRecordLayer
  <2>6. CASE ~ Deciphers(p)
    BY <1>2, <1>4, <2>1, <2>6, Zenon DEF InRecordLayer
  <2> QED
    BY <1>4, <2>5, <2>6
<1>7. CASE Mark
  <2> DEFINE p == Head(unmarked)
             q == [type |-> p.type, data |-> p.data]
             N == M \cup {q}
  <2>1. /\ unmarked # <<>> /\ unmarked' = Tail(unmarked)
        /\ messages' = Append(messages, q)
    BY <1>7, Zenon DEF Mark
  <2>2. p \in M
    BY <1>2, <2>1
  <2>3. Honest(phase, q)
    <3> HIDE DEF p
    <3>1. q.type = p.type /\ q.data = p.data
      OBVIOUS
    <3>2. Honest(phase, p)
      BY <1>2, <2>2
    <3> HIDE DEF q
    <3> QED
      BY <3>1, <3>2, Zenon DEF Honest
  <2>4. \A m \in N : Honest(phase, m)
    BY <1>2, <2>3
  <2>5. unmarked \in Seq(N) /\ messages \in Seq(N) /\ q \in N
    BY <1>2
  <2> HIDE DEF N, q
  <2>6. unmarked' \in Seq(N) /\ messages' \in Seq(N)
    BY <2>1, <2>5
  <2> QED
    BY <1>4, <2>4, <2>6, Zenon DEF InRecordLayer
<1> QED
  BY <1>4, <1>5, <1>6, <1>7

\* Taking an item out of a sequence.
LEMMA RemovedFrom ==
    ASSUME NEW S, NEW s \in Seq(S), NEW i \in DOMAIN s
    PROVE  RemoveAt(s, i) \in Seq(S)
<1>1. SubSeq(s, 1, i - 1) \in Seq(S) /\ SubSeq(s, i + 1, Len(s)) \in Seq(S)
  BY SubSeqProperties
<1> DEFINE a == SubSeq(s, 1, i - 1)
           b == SubSeq(s, i + 1, Len(s))
<1>2. RemoveAt(s, i) = a \o b
  BY Zenon DEF RemoveAt
<1> HIDE DEF a, b
<1> QED
  BY <1>1, <1>2, ConcatProperties DEF a, b

LEMMA NetNext ==
    ASSUME SrvInv, NetInv, [Next]_vars
    PROVE  NetInv'
<1> DEFINE phase == srv'.phase
<1>1. SrvInv' /\ Kept
  BY ServerKept
<1>2. InNetwork(phase, toClient, datagram) /\ InRecordLayer(phase, unmarked, messages) /\ InHandler(phase, completeMessages)
  BY <1>1, HonestStays
<1>3. PICK R : /\ toClient \in Seq(Seq(R)) /\ datagram \in Seq(R)
               /\ \A r \in R : HonestRecord(phase, r)
  BY <1>2, Zenon DEF InNetwork
<1>4. PICK M : /\ unmarked \in Seq(M) /\ messages \in Seq(M)
               /\ \A m \in M : Honest(phase, m)
  BY <1>2, Zenon DEF InRecordLayer
<1>0. SUFFICES /\ InNetwork(phase, toClient', datagram')
               /\ InRecordLayer(phase, unmarked', messages')
               /\ InHandler(phase, completeMessages')
  BY DEF NetInv
<1> HIDE DEF phase
<1>5. ASSUME NEW p \in Seq(M), NEW q \in Seq(M)
      PROVE  InRecordLayer(phase, p, q)
  BY <1>4, <1>5 DEF InRecordLayer
<1>6. ASSUME NextMessage
      PROVE  /\ messages # <<>> /\ datagram' = datagram
             /\ InRecordLayer(phase, unmarked', messages')
  <2>1. /\ messages # <<>> /\ messages' = Tail(messages)
        /\ unmarked' = unmarked /\ datagram' = datagram
    BY <1>6, Zenon DEF NextMessage
  <2>2. unmarked' \in Seq(M) /\ messages' \in Seq(M)
    BY <1>4, <2>1
  <2> QED
    BY <1>5, <2>1, <2>2
<1>7. CASE Collect
  <2>1. /\ NextMessage /\ Head(messages).type = "handshake" /\ messages # <<>>
        /\ completeMessages' = NextStored.complete
        /\ toClient' = toClient
    BY <1>7, Zenon DEF Collect, Incoming, netVars
  <2>2. InHandler(phase, NextStored.complete)
    <3> SUFFICES ASSUME NEW n \in DOMAIN NextStored.complete,
                        NextStored.complete[n].msg_type = "finished"
                 PROVE  phase = "done"
      BY Zenon DEF InHandler
    <3> QED
      BY <1>2, <2>1, StoredAreHonest
  <2> QED
    BY <1>2, <1>6, <2>1, <2>2
<1>8. CASE HandleHelloVerifyRequest \/ HandleServerHelloDone \/ HandleFinished
  <2>1. UNCHANGED toClient /\ \E type : TakeFlight(type)
    BY <1>8, Zenon
    DEF HandleHelloVerifyRequest, HandleServerHelloDone, HandleFinished, netVars
  <2>2. NextMessage /\ completeMessages' = <<>> /\ toClient' = toClient
    BY <2>1, Zenon DEF TakeFlight, Incoming
  <2>3. InHandler(phase, completeMessages')
    BY <2>2 DEF InHandler
  <2> QED
    BY <1>2, <1>6, <2>2, <2>3
<1>9. CASE HandleChangeCipherSpec \/ HandleFatalAlert \/ HandleApplicationData
  <2>1. /\ NextMessage /\ completeMessages' = completeMessages
        /\ toClient' = toClient
    BY <1>9, Zenon
    DEF HandleChangeCipherSpec, HandleFatalAlert, HandleApplicationData, Incoming,
        handlerVars, netVars
  <2> QED
    BY <1>2, <1>6, <2>1
<1>10. CASE Filter \/ MarkOne
  <2>1. /\ Discard \/ Decipher \/ Mark
        /\ UNCHANGED toClient /\ completeMessages' = completeMessages
    BY <1>10, Zenon DEF Filter, MarkOne, othersUnchanged, handlerVars, netVars
  <2>2. /\ InNetwork(phase, toClient', datagram')
        /\ InRecordLayer(phase, unmarked', messages')
    BY <1>2, <2>1, RecordLayerIsHonest
  <2> QED
    BY <1>2, <2>1, <2>2
<1>11. CASE ReceiveDatagram
  <2>1. PICK i \in DOMAIN toClient : /\ Receive(toClient[i])
                                     /\ toClient' = RemoveAt(toClient, i)
    BY <1>11, Zenon DEF ReceiveDatagram
  <2>2. /\ datagram' = toClient[i] /\ unmarked' = unmarked /\ messages' = messages
        /\ completeMessages' = completeMessages
    BY <1>11, <2>1, Zenon DEF ReceiveDatagram, Receive, othersUnchanged, handlerVars
  <2>3. datagram' \in Seq(R)
    BY <1>3, <2>1, <2>2
  <2>4. toClient' \in Seq(Seq(R))
    BY <1>3, <2>1, RemovedFrom
  <2>5. InNetwork(phase, toClient', datagram')
    BY <1>3, <2>3, <2>4, Zenon DEF InNetwork
  <2> QED
    BY <1>2, <2>2, <2>5
<1>12. CASE Disturb
  <2>1. /\ \/ toClient' = toClient
           \/ \E i \in DOMAIN toClient :
                 \/ toClient' = RemoveAt(toClient, i)
                 \/ toClient' = Append(toClient, toClient[i])
        /\ datagram' = datagram /\ unmarked' = unmarked /\ messages' = messages
        /\ completeMessages' = completeMessages
    BY <1>12, Zenon DEF Disturb, Disturbed, recordVars, receiveVars, handlerVars
  <2>2. toClient' \in Seq(Seq(R))
    <3> DEFINE Q == Seq(R)
    <3>1. toClient \in Seq(Q)
      BY <1>3
    <3> HIDE DEF Q
    <3>2. \A i \in DOMAIN toClient : /\ RemoveAt(toClient, i) \in Seq(Q)
                                     /\ Append(toClient, toClient[i]) \in Seq(Q)
      <4> TAKE i \in DOMAIN toClient
      <4>1. toClient[i] \in Q /\ RemoveAt(toClient, i) \in Seq(Q)
        BY <3>1, RemovedFrom
      <4>2. Append(toClient, toClient[i]) \in Seq(Q)
        BY <3>1, <4>1, AppendProperties
      <4> QED
        BY <4>1, <4>2
    <3>3. toClient' \in Seq(Q)
      BY <2>1, <3>1, <3>2, Zenon
    <3> QED
      BY <3>3 DEF Q
  <2>3. InNetwork(phase, toClient', datagram')
    BY <1>3, <2>1, <2>2, Zenon DEF InNetwork
  <2> QED
    BY <1>2, <2>1, <2>3
<1>13. ASSUME NEW S, NEW records \in Seq(S), ServerReplies(records),
               \A r \in S : HonestRecord(phase, r),
               UNCHANGED <<recordVars, handlerVars>>
       PROVE  /\ InNetwork(phase, toClient', datagram')
              /\ InRecordLayer(phase, unmarked', messages')
              /\ InHandler(phase, completeMessages')
  <2>1. /\ datagram' = datagram /\ unmarked' = unmarked /\ messages' = messages
        /\ completeMessages' = completeMessages
    BY <1>13, Zenon DEF recordVars, receiveVars, handlerVars
  <2>2. InNetwork(phase, toClient', datagram')
    BY <1>2, <1>13, <2>1, RepliesArePosted
  <2> QED
    BY <1>2, <2>1, <2>2
<1>14. ASSUME NEW epoch, NEW n, NEW m, Honest(phase, m),
               epoch # 0 => phase = "done"
       PROVE  \E S : /\ Records(epoch, n, <<m>>) \in Seq(S)
                     /\ \A r \in S : HonestRecord(phase, r)
  <2> DEFINE T == {m}
             one == <<m>>
  <2>1. one \in Seq(T) /\ \A x \in T : Honest(phase, x)
    BY <1>14
  <2> HIDE DEF T, one
  <2>2. \E S : /\ Records(epoch, n, one) \in Seq(S)
               /\ \A r \in S : HonestRecord(phase, r)
    BY <1>14, <2>1, RecordsAreHonest
  <2> QED
    BY <2>2 DEF one
<1>15. CASE ServerRetransmit
  <2>1. ServerReplies(Flight4(srv.next)) /\ UNCHANGED <<recordVars, handlerVars>>
    BY <1>15, Zenon DEF ServerRetransmit
  <2> QED
    BY <1>13, <2>1, Flight4IsHonest
<1>16. CASE ServerSendData
  <2> DEFINE m == [type |-> "application_data", data |-> scenario.data[srv.data + 1]]
  <2>1. /\ ServerReplies(Records(1, srv.data + 1, <<m>>))
        /\ UNCHANGED <<recordVars, handlerVars>> /\ srv.phase = "done"
    BY <1>16, Zenon DEF ServerSendData
  <2>2. phase = "done"
    BY <1>1, <2>1 DEF Kept, phase
  <2>3. Honest(phase, m)
    BY DEF Honest
  <2> HIDE DEF m
  <2> QED
    BY <1>13, <1>14, <2>1, <2>2, <2>3
<1>17. CASE ServerReceive
  <2>1. PICK i \in DOMAIN toServer :
            ServerTakes(toServer[i]) \/ ServerIgnores(toServer[i])
    BY <1>17, Zenon DEF ServerReceive
  <2> DEFINE d == toServer[i]
  <2>2. UNCHANGED <<recordVars, handlerVars>>
    BY <1>17, Zenon DEF ServerReceive
  <2>3. CASE ServerIgnores(d)
    <3>1. /\ datagram' = datagram /\ unmarked' = unmarked /\ messages' = messages
          /\ completeMessages' = completeMessages /\ toClient' = toClient
      BY <2>2, <2>3, Zenon DEF ServerIgnores, recordVars, receiveVars, handlerVars
    <3> QED
      BY <1>2, <3>1
  <2>4. CASE ServerHelloPhase(d[1])
    <3> DEFINE hvr == HandshakeMessage(Whole(Msg("hello_verify_request", 0, Cookie)))
    <3>1. \/ ServerReplies(Records(0, d[1].sequence_number, <<hvr>>))
          \/ \E n : ServerReplies(Flight4(n))
      BY <2>4, Zenon DEF ServerHelloPhase
    <3>2. Honest(phase, hvr)
      BY DEF Honest, HandshakeMessage, Whole, Fragment, Msg
    <3> HIDE DEF hvr
    <3>3. CASE ServerReplies(Records(0, d[1].sequence_number, <<hvr>>))
      BY <1>13, <1>14, <2>2, <3>2, <3>3
    <3>4. CASE \E n : ServerReplies(Flight4(n))
      BY <1>13, <2>2, <3>4, Flight4IsHonest
    <3> QED
      BY <3>1, <3>3, <3>4
  <2>5. CASE ServerFinishPhase(d)
    <3>1. \/ /\ ServerReplies(Records(0, srv.next, <<Alert>>))
             /\ srv' = [srv EXCEPT !.phase = "failed"]
          \/ /\ \E m : ServerReplies(Records(0, srv.next, <<CCS>>) \o
                           Records(1, 0, <<HandshakeMessage(m)>>))
             /\ \E t : srv' = [srv EXCEPT !.phase = "done", !.transcript = t]
      BY <2>5, Zenon DEF ServerFinishPhase
    <3>2. CASE /\ ServerReplies(Records(0, srv.next, <<Alert>>))
               /\ srv' = [srv EXCEPT !.phase = "failed"]
      <4>1. phase = "failed"
        BY <3>2 DEF SrvInv, ServerFields, phase
      <4>2. Honest(phase, Alert)
        BY <4>1 DEF Honest, Alert
      <4> QED
        BY <1>13, <1>14, <2>2, <3>2, <4>2
    <3>3. ASSUME NEW m, NEW t,
                 ServerReplies(Records(0, srv.next, <<CCS>>) \o
                               Records(1, 0, <<HandshakeMessage(m)>>)),
                 srv' = [srv EXCEPT !.phase = "done", !.transcript = t]
          PROVE  /\ InNetwork(phase, toClient', datagram')
                 /\ InRecordLayer(phase, unmarked', messages')
                 /\ InHandler(phase, completeMessages')
      <4>1. phase = "done"
        BY <3>3 DEF SrvInv, ServerFields, phase
      <4>2. Honest(phase, CCS) /\ Honest(phase, HandshakeMessage(m))
        BY <4>1 DEF Honest, CCS, HandshakeMessage
      <4>3. PICK S1 : /\ Records(0, srv.next, <<CCS>>) \in Seq(S1)
                      /\ \A r \in S1 : HonestRecord(phase, r)
        BY <1>14, <4>2
      <4>4. PICK S2 : /\ Records(1, 0, <<HandshakeMessage(m)>>) \in Seq(S2)
                      /\ \A r \in S2 : HonestRecord(phase, r)
        BY <1>14, <4>1, <4>2
      <4> DEFINE a == Records(0, srv.next, <<CCS>>)
                 b == Records(1, 0, <<HandshakeMessage(m)>>)
                 S == S1 \cup S2
      <4> HIDE DEF a, b
      <4>5. a \in Seq(S) /\ b \in Seq(S)
        BY <4>3, <4>4 DEF a, b
      <4>6. \A r \in S : HonestRecord(phase, r)
        BY <4>3, <4>4
      <4> HIDE DEF S
      <4>7. a \o b \in Seq(S)
        BY <4>5
      <4>8. ServerReplies(a \o b)
        BY <3>3 DEF a, b
      <4> QED
        BY <1>13, <2>2, <4>6, <4>7, <4>8
    <3> QED
      BY <3>1, <3>2, <3>3
  <2> QED
    BY <2>1, <2>3, <2>4, <2>5, Zenon DEF ServerTakes
<1>18. CASE ProcessOutgoing \/ SendDatagram \/ AlertSent \/ Timeout \/ UNCHANGED vars
  <2>1. /\ datagram' = datagram /\ unmarked' = unmarked /\ messages' = messages
        /\ completeMessages' = completeMessages /\ toClient' = toClient
    BY <1>18, Zenon
    DEF ProcessOutgoing, processOutgoingMessage, SendDatagram, Transmit, AlertSent,
        Timeout, othersUnchanged, recordVars, receiveVars, handlerVars, netVars, vars
  <2> QED
    BY <1>2, <2>1
<1> QED
  BY <1>7, <1>8, <1>9, <1>10, <1>11, <1>12, <1>15, <1>16, <1>17, <1>18, Zenon
  DEF Next, Internal

-----------------------------------------------------------------------------
(* The verdict.                                                             *)

\* The user hears nothing but data.
LEMMA HeardData ==
    ASSUME OrderInv, Heard, TakesData, UNCHANGED isClosed
    PROVE  Heard'
<1>1. PICK S : events \in Seq(S) /\ bufferedMessages \in Seq(S)
  BY DEF OrderInv
<1>2. PICK data :
          /\ data[1] = "message"
          /\ UNCHANGED handshakeFinished
          /\ IF handshakeFinished
             THEN events' = Append(events, data) /\ UNCHANGED bufferedMessages
             ELSE /\ bufferedMessages' = Append(bufferedMessages, data)
                  /\ UNCHANGED events
  BY DEF TakesData
<1>3. ASSUME NEW s \in Seq(S), NEW i \in DOMAIN Append(s, data)
      PROVE  \/ i \in DOMAIN s /\ Append(s, data)[i] = s[i]
             \/ Append(s, data)[i] = data
  BY <1>3
<1>4. \A i \in DOMAIN events' :
          IsData(events'[i]) \/ (i \in DOMAIN events /\ events'[i] = events[i])
  BY <1>1, <1>2, <1>3 DEF IsData
<1>5. \A i \in DOMAIN bufferedMessages' : IsData(bufferedMessages'[i])
  BY <1>1, <1>2, <1>3 DEF IsData, Heard
<1>6. PICK k : \A i \in DOMAIN events : ~ IsData(events[i]) => i = k
  BY DEF Heard
<1>7. \A i \in DOMAIN events' : ~ IsData(events'[i]) => i = k
  BY <1>4, <1>6 DEF IsData
<1>8. ~ handshakeFinished' /\ ~ isClosed' => \A i \in DOMAIN events' : IsData(events'[i])
  BY <1>2, <1>4, Zenon DEF Heard, IsData
<1> QED
  BY <1>5, <1>7, <1>8, Zenon DEF Heard

\* The user is told the verdict.
LEMMA HeardVerdict ==
    ASSUME OrderInv, Heard, ~ handshakeFinished, ~ isClosed,
           handshakeFinished' \/ isClosed',
           NEW v, NEW later, events' = events \o <<v>> \o later,
           \/ (later = <<>> /\ UNCHANGED bufferedMessages)
           \/ (later = bufferedMessages /\ bufferedMessages' = <<>>)
    PROVE  Heard'
<1>1. PICK S : events \in Seq(S) /\ bufferedMessages \in Seq(S)
  BY DEF OrderInv
<1>2. later \in Seq(S) /\ \A i \in DOMAIN later : IsData(later[i])
  <2>1. CASE later = <<>>
    BY <2>1
  <2>2. CASE later = bufferedMessages
    BY <1>1, <2>2 DEF Heard
  <2> QED
    BY <2>1, <2>2
<1> DEFINE T == S \cup {v}
           one == <<v>>
<1>3. events \in Seq(T) /\ later \in Seq(T) /\ one \in Seq(T) /\ Len(one) = 1
  BY <1>1, <1>2
<1> HIDE DEF T, one
<1>4. ASSUME NEW i \in DOMAIN events', i # Len(events) + 1
      PROVE  IsData(events'[i])
  <2>1. events' = events \o one \o later
    BY DEF one
  <2>2. \/ i \in DOMAIN events /\ events'[i] = events[i]
        \/ /\ i - (Len(events) + 1) \in DOMAIN later
           /\ events'[i] = later[i - (Len(events) + 1)]
    BY <1>3, <1>4, <2>1
  <2> QED
    BY <1>2, <2>2, Zenon DEF Heard, IsData
<1>5. \A i \in DOMAIN bufferedMessages' : IsData(bufferedMessages'[i])
  BY <1>1 DEF Heard, IsData
<1>6. \E k : \A i \in DOMAIN events' : ~ IsData(events'[i]) => i = k
  BY <1>4
<1> QED
  BY <1>5, <1>6, Zenon DEF Heard

LEMMA HeardError ==
    ASSUME OrderInv, Heard, TellsError, ~ handshakeFinished
    PROVE  Heard'
<1> DEFINE e == <<"error">>
           none == <<>>
<1>1. /\ events' = IF isClosed THEN events ELSE Append(events, e)
      /\ isClosed' = TRUE
      /\ bufferedMessages' = bufferedMessages
      /\ handshakeFinished' = handshakeFinished
  BY Zenon DEF TellsError, Kill
<1>2. CASE isClosed
  BY <1>1, <1>2, Zenon DEF Heard, IsData
<1>3. CASE ~ isClosed
  <2>1. PICK S : events \in Seq(S)
    BY DEF OrderInv
  <2> HIDE DEF e
  <2>2. events' = events \o <<e>> \o none
    BY <1>1, <1>3, <2>1
  <2> HIDE DEF none
  <2> QED
    BY <1>1, <1>3, <2>2, HeardVerdict DEF none
<1> QED
  BY <1>2, <1>3

LEMMA HeardConnected ==
    ASSUME OrderInv, Heard, FinishConnected, ~ handshakeFinished, ~ isClosed
    PROVE  Heard'
<1> DEFINE c == <<"connected">>
           later == bufferedMessages
<1>1. /\ events' = events \o <<c>> \o later /\ bufferedMessages' = <<>>
      /\ handshakeFinished' = TRUE
  BY Zenon DEF FinishConnected
<1> HIDE DEF c
<1> QED
  BY <1>1, HeardVerdict

\* What has settled the handshake stays so, and the user hears it once.
LEMMA VerdictNext ==
    ASSUME OrderInv, SrvInv, NetInv, Settled, Heard, [Next]_vars
    PROVE  Settled' /\ Heard'
<1>0. Kept
  BY ServerKept
<1>1. ASSUME NEW type, TakeFlight(type)
      PROVE  /\ expectedResponses # Undefined /\ messages # <<>>
             /\ ~ handshakeFinished /\ ~ alertCallback
             /\ isClosed => srv.phase = "failed"
  <2>1. expectedResponses # Undefined /\ messages # <<>>
    BY <1>1, Zenon DEF TakeFlight, Incoming, FlightEndsAt
  <2> QED
    BY <2>1, Zenon DEF Settled
<1>2. ASSUME UNCHANGED socketVars PROVE Heard'
  BY <1>2, Zenon DEF socketVars, Heard, IsData
<1>3. ASSUME UNCHANGED <<handshakeFinished, isClosed, alertCallback, expectedResponses>>,
             isClosed => \/ messages # <<>> \/ Receiving
                         \/ (messages' = <<>> /\ ~ Receiving')
      PROVE  Settled'
  BY <1>0, <1>3, Zenon DEF Settled, Kept
<1>4. CASE Collect \/ HandleChangeCipherSpec
  <2>1. /\ UNCHANGED socketVars /\ UNCHANGED expectedResponses /\ messages # <<>>
    BY <1>4, Zenon DEF Collect, HandleChangeCipherSpec, Incoming, handlerVars
  <2> QED
    BY <1>2, <1>3, <2>1, Zenon DEF socketVars
<1>5. CASE HandleHelloVerifyRequest
  <2>1. UNCHANGED socketVars /\ \E type : TakeFlight(type)
    BY <1>5, Zenon DEF HandleHelloVerifyRequest
  <2>2. Settled'
    BY <1>0, <1>1, <2>1, Zenon DEF socketVars, Settled, Kept
  <2> QED
    BY <1>2, <2>1, <2>2
<1>6. ASSUME NEW type, TakeFlight(type), FinishAlert, expectedResponses' = Undefined
      PROVE  Settled' /\ Heard'
  <2>1. /\ handshakeFinished' = handshakeFinished /\ isClosed' = isClosed
        /\ bufferedMessages' = bufferedMessages /\ events' = events
    BY <1>6, Zenon DEF FinishAlert
  <2>2. Heard'
    BY <2>1, Zenon DEF Heard, IsData
  <2>3. Settled'
    BY <1>0, <1>1, <1>6, <2>1, Zenon DEF Settled, Kept
  <2> QED
    BY <2>2, <2>3
<1>7. ASSUME NEW type, TakeFlight(type), FinishThrown, expectedResponses' = Undefined
      PROVE  Settled' /\ Heard'
  <2>1. /\ TellsError /\ isClosed' = TRUE /\ alertCallback' = alertCallback
        /\ handshakeFinished' = handshakeFinished
    BY <1>7, Zenon DEF FinishThrown, TellsError, Kill
  <2>2. Heard'
    BY <1>1, <1>7, <2>1, HeardError
  <2>3. Settled'
    BY <1>1, <1>7, <2>1, Zenon DEF Settled
  <2> QED
    BY <2>2, <2>3
<1>8. CASE HandleServerHelloDone
  <2>1. TakeFlight("server_hello_done")
    BY <1>8, Zenon DEF HandleServerHelloDone
  <2>2. \/ UNCHANGED socketVars
        \/ (FinishAlert /\ expectedResponses' = Undefined)
        \/ (FinishThrown /\ expectedResponses' = Undefined)
    BY <1>8, Zenon DEF HandleServerHelloDone
  <2>3. CASE UNCHANGED socketVars
    <3>1. Settled'
      BY <1>0, <1>1, <2>1, <2>3, Zenon DEF socketVars, Settled, Kept
    <3> QED
      BY <1>2, <2>3, <3>1
  <2> QED
    BY <1>6, <1>7, <2>1, <2>2, <2>3
<1>9. CASE HandleFinished
  <2>1. /\ TakeFlight("finished") /\ expectedResponses' = Undefined
        /\ FinishThrown \/ FinishConnected \/ FinishAlert
        /\ UNCHANGED serverVars
    BY <1>9, Zenon DEF HandleFinished
  <2>2. CASE FinishConnected
    <3>1. srv.phase = "done" /\ srv' = srv
      BY <2>1, FinishedIsHonest DEF serverVars
    <3>2. ~ isClosed /\ ~ handshakeFinished /\ ~ alertCallback
      BY <1>1, <2>1, <3>1
    <3>3. isClosed' = isClosed /\ alertCallback' = alertCallback
      BY <2>2, Zenon DEF FinishConnected
    <3>4. Settled'
      BY <2>1, <3>1, <3>2, <3>3, Zenon DEF Settled
    <3> QED
      BY <2>2, <3>2, <3>4, HeardConnected
  <2> QED
    BY <1>6, <1>7, <2>1, <2>2
<1>10. CASE HandleFatalAlert
  <2>1. Incoming("alert") /\ UNCHANGED <<alertCallback, serverVars, handlerVars>>
        /\ TellsError /\ isClosed' = TRUE /\ handshakeFinished' = handshakeFinished
    BY <1>10, Zenon DEF HandleFatalAlert, TellsError, Kill
  <2>2. srv.phase = "failed" /\ srv' = srv
    BY <2>1, AlertIsHonest DEF serverVars
  <2>3. ~ handshakeFinished
    BY <2>2 DEF Settled
  <2>4. Settled'
    BY <2>1, <2>2, <2>3, Zenon DEF Settled, handlerVars
  <2> QED
    BY <2>1, <2>3, <2>4, HeardError
<1>11. CASE HandleApplicationData
  <2>1. TakesData
    <3> DEFINE data == <<"message", Head(messages).data>>
    <3>1. /\ data[1] = "message"
          /\ UNCHANGED handshakeFinished
          /\ received' = Append(received, data)
          /\ IF handshakeFinished
             THEN events' = Append(events, data) /\ UNCHANGED bufferedMessages
             ELSE /\ bufferedMessages' = Append(bufferedMessages, data)
                  /\ UNCHANGED events
      BY <1>11, Zenon DEF HandleApplicationData
    <3> QED
      BY <3>1, Zenon DEF TakesData
  <2>2. /\ messages # <<>>
        /\ UNCHANGED <<handshakeFinished, isClosed, alertCallback, expectedResponses>>
    BY <1>11, Zenon DEF HandleApplicationData, Incoming, handlerVars
  <2> QED
    BY <1>3, <2>1, <2>2, HeardData
<1>12. CASE Filter \/ MarkOne
  <2>1. UNCHANGED socketVars /\ UNCHANGED expectedResponses /\ Receiving
    BY <1>12, Zenon
    DEF Filter, MarkOne, Discard, Decipher, Mark, Receiving, othersUnchanged,
        handlerVars
  <2> QED
    BY <1>2, <1>3, <2>1, Zenon DEF socketVars
<1>13. CASE ReceiveDatagram
  <2>1. UNCHANGED socketVars /\ UNCHANGED expectedResponses /\ ~ isClosed
    BY <1>13, Zenon DEF ReceiveDatagram, othersUnchanged, handlerVars
  <2> QED
    BY <1>2, <1>3, <2>1, Zenon DEF socketVars
<1>14. CASE \/ ProcessOutgoing \/ SendDatagram \/ Disturb \/ ServerReceive
            \/ ServerRetransmit \/ ServerSendData \/ UNCHANGED vars
  <2>1. /\ UNCHANGED socketVars /\ UNCHANGED expectedResponses
        /\ UNCHANGED receiveVars
    BY <1>14, Zenon
    DEF ProcessOutgoing, processOutgoingMessage, SendDatagram, Transmit, Disturb,
        ServerReceive, ServerRetransmit, ServerSendData, othersUnchanged,
        handlerVars, recordVars, vars
  <2>2. isClosed => \/ messages # <<>> \/ Receiving
                    \/ (messages' = <<>> /\ ~ Receiving')
    BY <2>1, Zenon DEF receiveVars, Receiving
  <2> QED
    BY <1>2, <1>3, <2>1, <2>2, Zenon DEF socketVars
<1>15. CASE AlertSent \/ Timeout
  <2>1. /\ TellsError /\ isClosed' = TRUE /\ handshakeFinished' = handshakeFinished
        /\ alertCallback \/ ~ handshakeFinished
        /\ alertCallback' = FALSE \/ alertCallback' = alertCallback
        /\ messages = <<>> /\ ~ Receiving
        /\ UNCHANGED <<recordVars, handlerVars>>
    <3>1. /\ ~ Busy /\ Kill /\ UNCHANGED <<recordVars, handlerVars>>
          /\ UNCHANGED <<bufferedMessages, handshakeFinished>>
      BY <1>15, Zenon DEF AlertSent, Timeout
    <3>2. \/ (alertCallback /\ alertCallback' = FALSE)
          \/ (~ handshakeFinished /\ alertCallback' = alertCallback)
      BY <1>15, Zenon DEF AlertSent, Timeout
    <3>3. messages = <<>> /\ ~ Receiving
      BY <3>1, Zenon DEF Busy
    <3>4. TellsError /\ isClosed' = TRUE
      BY <3>1, Zenon DEF TellsError, Kill
    <3>5. handshakeFinished' = handshakeFinished
      BY <3>1, Zenon
    <3>6. /\ alertCallback \/ ~ handshakeFinished
          /\ alertCallback' = FALSE \/ alertCallback' = alertCallback
      BY <3>2, Zenon
    <3> QED
      BY <3>1, <3>3, <3>4, <3>5, <3>6, Zenon
  <2>2. ~ handshakeFinished
    BY <2>1, Zenon DEF Settled
  <2>3. messages' = <<>> /\ ~ Receiving' /\ expectedResponses' = expectedResponses
    BY <2>1, Zenon DEF recordVars, receiveVars, handlerVars, Receiving
  <2>4. alertCallback' => expectedResponses' = Undefined
    <3>1. CASE alertCallback' = FALSE
      BY <3>1, Zenon
    <3>2. CASE alertCallback' = alertCallback
      BY <2>3, <3>2, Zenon DEF Settled
    <3> QED
      BY <2>1, <3>1, <3>2, Zenon
  <2>5. ~ handshakeFinished'
    BY <2>1, <2>2, Zenon
  <2>6. Settled'
    BY <2>3, <2>4, <2>5, Zenon DEF Settled
  <2> QED
    BY <2>1, <2>2, <2>6, HeardError
<1> QED
  BY <1>4, <1>5, <1>8, <1>9, <1>10, <1>11, <1>12, <1>13, <1>14, <1>15, Zenon
  DEF Next, Internal

VerdictInv == OrderInv /\ SrvInv /\ NetInv /\ Settled /\ Heard

LEMMA VerdictInit == Init => VerdictInv
<1> SUFFICES ASSUME Init PROVE VerdictInv
  OBVIOUS
<1>1. /\ toClient = <<>> /\ datagram = <<>> /\ unmarked = <<>> /\ messages = <<>>
      /\ completeMessages = <<>> /\ events = <<>> /\ bufferedMessages = <<>>
      /\ handshakeFinished = FALSE /\ isClosed = FALSE /\ alertCallback = FALSE
      /\ srv = [phase |-> "listen", transcript |-> <<>>, next |-> 0,
                retransmits |-> 0, data |-> 0]
  BY Zenon DEF Init, RecordInit
<1>2. SrvInv
  BY <1>1 DEF SrvInv, ServerFields
<1>3. NetInv
  <2> DEFINE none == {}
  <2>1. /\ <<>> \in Seq(Seq(none)) /\ <<>> \in Seq(none)
        /\ \A x \in none : HonestRecord(srv.phase, x) /\ Honest(srv.phase, x)
    OBVIOUS
  <2> HIDE DEF none
  <2>2. InNetwork(srv.phase, toClient, datagram)
    BY <1>1, <2>1, Zenon DEF InNetwork
  <2>3. InRecordLayer(srv.phase, unmarked, messages)
    BY <1>1, <2>1, Zenon DEF InRecordLayer
  <2>4. InHandler(srv.phase, completeMessages)
    BY <1>1 DEF InHandler
  <2> QED
    BY <2>2, <2>3, <2>4 DEF NetInv
<1>4. Settled
  BY <1>1, Zenon DEF Settled
<1>5. Heard
  BY <1>1 DEF Heard
<1> QED
  BY <1>2, <1>3, <1>4, <1>5, OrderInit DEF VerdictInv

LEMMA VerdictKept == VerdictInv /\ [Next]_vars => VerdictInv'
<1> SUFFICES ASSUME VerdictInv, [Next]_vars PROVE VerdictInv'
  OBVIOUS
<1>1. OrderInv /\ SrvInv /\ NetInv /\ Settled /\ Heard
  BY DEF VerdictInv
<1>2. OrderInv' /\ SrvInv' /\ NetInv'
  BY <1>1, OrderNext, ServerKept, NetNext
<1>3. Settled' /\ Heard'
  BY <1>1, VerdictNext
<1> QED
  BY <1>2, <1>3 DEF VerdictInv

\* The user hears of the end of the handshake once, whatever the server answers
\* and whatever the network does with it: no error after `connected' and no
\* `connected' after an error, with the timer, the alert's callback and late
\* flights all at work.
THEOREM VerdictIsOne == Spec => []OneVerdict
<1>1. VerdictInv /\ [Next]_vars => VerdictInv'
  BY VerdictKept
<1>2. VerdictInv => OneVerdict
  <2> SUFFICES ASSUME VerdictInv PROVE OneVerdict
    OBVIOUS
  <2> DEFINE verdicts == {i \in DOMAIN events : ~ IsData(events[i])}
  <2>1. PICK k : \A i \in DOMAIN events : ~ IsData(events[i]) => i = k
    BY DEF VerdictInv, Heard
  <2>2. verdicts \in SUBSET {k}
    BY <2>1
  <2>3. IsFiniteSet({k}) /\ Cardinality({k}) = 1
    BY FS_Singleton
  <2> HIDE DEF verdicts
  <2>4. Cardinality(verdicts) <= 1
    BY <2>2, <2>3, FS_Subset
  <2> QED
    BY <2>4 DEF OneVerdict, verdicts
<1> QED
  BY <1>1, <1>2, VerdictInit, PTL DEF Spec

-----------------------------------------------------------------------------
(* The data.                                                                *)

\* Once the handshake is finished nothing is buffered any more, and before it
\* is nothing but data.
BufferInv ==
    /\ DataInOrder
    /\ handshakeFinished => bufferedMessages = <<>>
    /\ \A i \in DOMAIN bufferedMessages : IsData(bufferedMessages[i])

DataAt(s) == {i \in DOMAIN s : IsData(s[i])}

\* What the data told is when more is told.
LEMMA TellsMore ==
    ASSUME NEW S, NEW s \in Seq(S), NEW e
    PROVE  Filtered(Append(s, e), DataAt(Append(s, e))) =
               IF IsData(e) THEN Append(Filtered(s, DataAt(s)), e)
                            ELSE Filtered(s, DataAt(s))
<1> DEFINE T == S \cup {e}
           t == Append(s, e)
<1>1. s \in Seq(T) /\ e \in T
  OBVIOUS
<1>2. /\ DOMAIN t = 1 .. Len(s) + 1 /\ DOMAIN s = 1 .. Len(s)
      /\ \A i \in DOMAIN s : t[i] = s[i]
      /\ t[Len(s) + 1] = e
      /\ Len(s) \in Nat
  OBVIOUS
<1> HIDE DEF T, t
<1> DEFINE I == DataAt(s)
           J == I \cup {Len(s) + 1}
<1>3. I \in SUBSET DOMAIN s /\ J = I \cup {Len(s) + 1}
  BY DEF DataAt
<1> HIDE DEF I, J
<1>6. /\ Filtered(t, I) = Filtered(s, I)
      /\ Filtered(t, J) = Append(Filtered(s, I), e)
  <2>1. /\ Filtered(Append(s, e), I) = Filtered(s, I)
        /\ Filtered(Append(s, e), J) = Append(Filtered(s, I), e)
    BY <1>1, <1>3, FilteredAppend
  <2> QED
    BY <2>1 DEF t
<1>4. CASE IsData(e)
  <2>1. DataAt(t) = DataAt(s) \cup {Len(s) + 1}
    BY <1>2, <1>4 DEF DataAt, IsData
  <2> QED
    BY <1>4, <1>6, <2>1, Zenon DEF I, J, t
<1>5. CASE ~ IsData(e)
  <2>1. DataAt(t) = DataAt(s)
    BY <1>2, <1>5 DEF DataAt, IsData
  <2> QED
    BY <1>5, <1>6, <2>1, Zenon DEF I, t
<1> QED
  BY <1>4, <1>5 DEF t

\* The buffer is handed over whole and in its order.
LEMMA TellsBuffer ==
    ASSUME NEW S, NEW s \in Seq(S), NEW later \in Seq(S), NEW c \in S,
           DataAt(s) = {}, ~ IsData(c), DataAt(later) = DOMAIN later
    PROVE  Filtered(s \o <<c>> \o later, DataAt(s \o <<c>> \o later)) = later
<1> DEFINE t == s \o <<c>> \o later
           a == Len(s) + 2
           n == Len(later)
<1>1. /\ t \in Seq(S) /\ a \in Nat \ {0} /\ n \in Nat /\ Len(t) = a + n - 1
      /\ DOMAIN t = 1 .. a + n - 1
      /\ \A i \in 1 .. a - 2 : t[i] = s[i] /\ i \in DOMAIN s
      /\ t[a - 1] = c
      /\ \A i \in 1 .. n : t[a + i - 1] = later[i] /\ i \in DOMAIN later
  OBVIOUS
<1>2. later = [i \in 1 .. n |-> later[i]]
  OBVIOUS
<1> HIDE DEF t, a, n
<1>3. DataAt(t) = a .. a + n - 1
  <2>1. ASSUME NEW i \in DOMAIN t, IsData(t[i]) PROVE i \in a .. a + n - 1
    <3>1. i \notin 1 .. a - 2
      BY <1>1, <2>1 DEF DataAt, IsData
    <3>2. i # a - 1
      BY <1>1, <2>1 DEF IsData
    <3> QED
      BY <1>1, <3>1, <3>2
  <2>2. ASSUME NEW i \in a .. a + n - 1 PROVE i \in DOMAIN t /\ IsData(t[i])
    <3>1. i - a + 1 \in 1 .. n /\ a + (i - a + 1) - 1 = i /\ i \in DOMAIN t
      BY <1>1
    <3>2. t[i] = later[i - a + 1] /\ i - a + 1 \in DOMAIN later
      BY <1>1, <3>1
    <3> QED
      BY <3>1, <3>2 DEF DataAt, IsData
  <2> QED
    BY <2>1, <2>2 DEF DataAt
<1>4. PICK m \in Nat : m = a - 1
  BY <1>1
<1>5. PICK I : I = DataAt(t)
  OBVIOUS
<1>6. /\ I = (m + 1) .. (m + n) /\ m + 1 \in Int /\ m + n \in Int
      /\ m + n \in Nat /\ I \in SUBSET (1 .. m + n)
  BY <1>1, <1>3, <1>4, <1>5
<1>7. Cardinality(I) = n
  <2>1. Cardinality((m + 1) .. (m + n)) = n
    BY <1>1, <1>6, FS_Interval
  <2> QED
    BY <1>6, <2>1
<1>8. ASSUME NEW k \in 1 .. n PROVE Nth(I, k) = m + k
  <2> DEFINE i == m + k
             j == Nth(I, k)
  <2>1. k \in 1 .. Cardinality(I)
    BY <1>7
  <2>2. j \in I /\ Cardinality(I \cap 1 .. j) = k
    BY <1>6, <2>1, NthIsThere, Zenon
  <2>3. i \in I /\ I \cap 1 .. i = (m + 1) .. i /\ i \in Int
    BY <1>1, <1>6
  <2>4. Cardinality((m + 1) .. i) = k
    BY <1>6, <2>3, FS_Interval
  <2> HIDE DEF i, j
  <2>5. i = j
    <3>1. j \in I /\ i \in I /\ Cardinality(I \cap 1 .. j) = Cardinality(I \cap 1 .. i)
      BY <2>2, <2>3, <2>4, Zenon
    <3>2. I \in SUBSET (1 .. m + n) /\ m + n \in Nat
      BY <1>6
    <3> QED
      BY <3>1, <3>2, NthIsOne
  <2> QED
    BY <2>5 DEF i, j
<1> DEFINE u == Filtered(t, I)
<1>9. u = [k \in 1 .. n |-> t[Nth(I, k)]]
  BY <1>7, Zenon DEF Filtered
<1> HIDE DEF u
<1>10. u = [k \in 1 .. n |-> later[k]]
  <2>1. ASSUME NEW k \in 1 .. n PROVE t[Nth(I, k)] = later[k]
    <3>1. t[a + k - 1] = later[k]
      BY <1>1
    <3>2. Nth(I, k) = a + k - 1
      BY <1>1, <1>4, <1>8
    <3> QED
      BY <3>1, <3>2, Zenon
  <2> QED
    BY <1>9, <2>1
<1> QED
  BY <1>2, <1>5, <1>10, Zenon DEF t, u

LEMMA BufferNext ==
    ASSUME OrderInv, BufferInv, [Next]_vars
    PROVE  BufferInv'
<1>1. PICK S : events \in Seq(S) /\ bufferedMessages \in Seq(S)
  BY DEF OrderInv
<1>2. Filtered(events, DataAt(events)) \o bufferedMessages = received
  BY Zenon DEF BufferInv, DataInOrder, DataAt
<1>3. DataAt(events) \in SUBSET DOMAIN events
  BY DEF DataAt
<1>4. Filtered(events, DataAt(events)) \in Seq(S)
  BY <1>1, <1>3, FilteredFrom
<1>5. SUFFICES /\ Filtered(events', DataAt(events')) \o bufferedMessages' = received'
               /\ handshakeFinished' => bufferedMessages' = <<>>
               /\ \A i \in DOMAIN bufferedMessages' : IsData(bufferedMessages'[i])
  BY Zenon DEF BufferInv, DataInOrder, DataAt, IsData
<1>6. CASE UNCHANGED received /\ TellsNothing
  BY <1>2, <1>6 DEF TellsNothing, told, BufferInv
<1>7. CASE UNCHANGED received /\ TellsError
  <2> DEFINE e == <<"error">>
  <2>1. /\ events' = IF isClosed THEN events ELSE Append(events, e)
        /\ bufferedMessages' = bufferedMessages
        /\ handshakeFinished' = handshakeFinished
    BY <1>7, Zenon DEF TellsError, Kill
  <2>2. ~ IsData(e)
    BY DEF IsData
  <2> HIDE DEF e
  <2>3. Filtered(events', DataAt(events')) = Filtered(events, DataAt(events))
    BY <1>1, <2>1, <2>2, TellsMore
  <2> QED
    BY <1>2, <1>7, <2>1, <2>3 DEF BufferInv
<1>8. CASE UNCHANGED received /\ FinishConnected
  <2> DEFINE c == <<"connected">>
             T == S \cup {c}
             none == <<>>
  <2>1. /\ events' = events \o <<c>> \o bufferedMessages
        /\ bufferedMessages' = none
    BY <1>8, Zenon DEF FinishConnected
  <2>2. ~ IsData(c)
    BY DEF IsData
  <2>3. events \in Seq(T) /\ bufferedMessages \in Seq(T) /\ c \in T
    BY <1>1
  <2>4. /\ \A s \in Seq(S) : s \o none = s /\ none \o s = s
        /\ DOMAIN none = {}
    OBVIOUS
  <2> HIDE DEF c, T
  <2>5. Filtered(events', DataAt(events')) = received
    <3>1. CASE handshakeFinished
      <4>1. bufferedMessages = none
        BY <3>1 DEF BufferInv
      <4>2. events' = Append(events, c)
        BY <2>1, <2>3, <4>1
      <4>3. Filtered(events', DataAt(events')) = Filtered(events, DataAt(events))
        BY <1>1, <2>2, <4>2, TellsMore
      <4> QED
        BY <1>2, <1>4, <2>4, <4>1, <4>3
    <3>2. CASE ~ handshakeFinished
      <4>1. DataAt(events) = {}
        BY <3>2 DEF OrderInv, DataAt
      <4>2. DataAt(bufferedMessages) = DOMAIN bufferedMessages
        BY DEF BufferInv, DataAt
      <4>3. Filtered(events', DataAt(events')) = bufferedMessages
        BY <2>1, <2>2, <2>3, <4>1, <4>2, TellsBuffer
      <4>4. Filtered(events, DataAt(events)) = none
        BY <4>1, FilteredNone, Zenon
      <4> QED
        BY <1>1, <1>2, <2>4, <4>3, <4>4
    <3> QED
      BY <3>1, <3>2
  <2>6. received \in Seq(S)
    <3> DEFINE u == Filtered(events, DataAt(events))
    <3>1. u \in Seq(S) /\ u \o bufferedMessages = received
      BY <1>2, <1>4, Zenon
    <3> HIDE DEF u
    <3>2. \A v, w \in Seq(S) : v \o w \in Seq(S)
      BY ConcatProperties
    <3> QED
      BY <1>1, <3>1, <3>2, Zenon
  <2>7. received' = received \o none
    BY <1>8, <2>4, <2>6
  <2>8. \A i \in DOMAIN bufferedMessages' : IsData(bufferedMessages'[i])
    BY <2>1, <2>4
  <2> QED
    BY <2>1, <2>5, <2>7, <2>8, <1>8 DEF none
<1>9. CASE TakesData
  <2>1. PICK data :
            /\ data[1] = "message"
            /\ UNCHANGED handshakeFinished
            /\ received' = Append(received, data)
            /\ IF handshakeFinished
               THEN events' = Append(events, data) /\ UNCHANGED bufferedMessages
               ELSE /\ bufferedMessages' = Append(bufferedMessages, data)
                    /\ UNCHANGED events
    BY <1>9 DEF TakesData
  <2>2. IsData(data)
    BY <2>1 DEF IsData
  <2> DEFINE told1 == Filtered(events, DataAt(events))
             T == S \cup {data}
  <2> HIDE DEF told1
  <2>3. told1 \in Seq(T) /\ bufferedMessages \in Seq(T) /\ data \in T
        /\ told1 \o bufferedMessages = received
    BY <1>1, <1>2, <1>4 DEF told1
  <2> HIDE DEF T
  <2>4. CASE handshakeFinished
    <3>1. bufferedMessages = <<>> /\ bufferedMessages' = <<>>
      BY <2>1, <2>4 DEF BufferInv
    <3>2. Filtered(events', DataAt(events')) = Append(told1, data)
      BY <1>1, <2>1, <2>2, <2>4, TellsMore DEF told1
    <3>3. Append(told1, data) \o <<>> = Append(told1 \o <<>>, data)
      BY <2>3
    <3>4. DOMAIN bufferedMessages' = {}
      BY <3>1
    <3> QED
      BY <2>1, <2>3, <3>1, <3>2, <3>3, <3>4
  <2>5. CASE ~ handshakeFinished
    <3>1. /\ events' = events /\ bufferedMessages' = Append(bufferedMessages, data)
          /\ ~ handshakeFinished'
      BY <2>1, <2>5
    <3>2. told1 \o Append(bufferedMessages, data) = Append(told1 \o bufferedMessages, data)
      <4>1. \A u \in Seq(T) : \A v \in Seq(T) :
               u \o Append(v, data) = Append(u \o v, data)
        BY <2>3
      <4> QED
        BY <2>3, <4>1, Zenon
    <3>3. \A i \in DOMAIN bufferedMessages' : IsData(bufferedMessages'[i])
      BY <2>2, <2>3, <3>1 DEF BufferInv, IsData
    <3> QED
      BY <2>1, <2>3, <3>1, <3>2, <3>3 DEF told1
  <2> QED
    BY <2>4, <2>5
<1> QED
  BY <1>6, <1>7, <1>8, <1>9, StepTells

\* Application data reaches the user once each and in the order it was received,
\* whether the handshake was finished by then or not.
THEOREM DataIsInOrder == Spec => []DataInOrder
<1>1. Init => BufferInv
  <2> SUFFICES ASSUME Init PROVE BufferInv
    OBVIOUS
  <2>1. events = <<>> /\ bufferedMessages = <<>> /\ received = <<>>
    BY Zenon DEF Init
  <2>2. DOMAIN events = {} /\ DOMAIN bufferedMessages = {}
    BY <2>1
  <2>3. Filtered(events, {}) = <<>>
    BY FilteredNone
  <2>4. {i \in DOMAIN events : IsData(events[i])} = {}
    BY <2>2
  <2>5. DataInOrder
    BY <2>1, <2>3, <2>4 DEF DataInOrder
  <2> QED
    BY <2>1, <2>2, <2>5 DEF BufferInv
<1>2. OrderInv /\ BufferInv /\ [Next]_vars => BufferInv'
  BY BufferNext
<1>3. BufferInv => DataInOrder
  BY Zenon DEF BufferInv
<1> QED
  BY <1>1, <1>2, <1>3, OrderInit, OrderNext, PTL DEF Spec

-----------------------------------------------------------------------------
(* Keys.  A connected client uses the session keys in both directions, for   *)
(* every scenario, server and network: the epochs are switched once each,    *)
(* the write epoch first, and no content is read under the wrong keys.       *)
(* Types and the two ends finishing on one transcript rest on the same       *)
(* invariant.                                                                *)

IsCcs(m) == m.type = "change_cipher_spec"
NoCcs(s)  == \A i \in DOMAIN s : ~ IsCcs(s[i])
OneCcs(s) == \A i, j \in DOMAIN s : IsCcs(s[i]) /\ IsCcs(s[j]) => i = j

Flights(S) == {s \in Seq(S) : OneCcs(s)}

\* A message of a server, and a record with one in it: a server switches epochs
\* when it is done, and once, and its Finished is over its transcript.
Proper(server, m) ==
    /\ IsCcs(m) => server.phase = "done"
    /\ (m.type = "handshake") =>
          /\ m.data.message_seq \in Nat /\ m.data.total_length \in Nat
          /\ m.data.msg_type = "finished" =>
                /\ server.phase = "done"
                /\ m.data.body = VerifyData("server", server.transcript)

ProperRecord(server, r) ==
    /\ Proper(server, r) /\ {"type", "data"} \subseteq DOMAIN r
    /\ \/ (r.epoch = 0 /\ r.keys = NullKeys)
       \/ (r.epoch = 1 /\ r.keys = SessionKeys /\ ~ IsCcs(r) /\ server.phase = "done")

OnItsWay(server, sent, read) ==
    \E S : /\ sent \in Seq(Flights(S)) /\ read \in Flights(S)
           /\ \A r \in S : ProperRecord(server, r)

Passed(server, passed, returned) ==
    \E S : /\ passed \in Flights(S) /\ returned \in Flights(S)
           /\ \A m \in S : Proper(server, m)

-----------------------------------------------------------------------------
(* At most one ChangeCipherSpec.                                            *)

LEMMA TailCcs ==
    ASSUME NEW S, NEW s \in Seq(S), s # <<>>
    PROVE  /\ Tail(s) \in Seq(S) /\ Head(s) \in S
           /\ OneCcs(s) => OneCcs(Tail(s))
           /\ NoCcs(s) => NoCcs(Tail(s)) /\ ~ IsCcs(Head(s))
           /\ OneCcs(s) /\ IsCcs(Head(s)) => NoCcs(Tail(s))
<1>1. /\ Tail(s) \in Seq(S) /\ Head(s) \in S /\ Head(s) = s[1] /\ 1 \in DOMAIN s
      /\ \A i \in DOMAIN Tail(s) : /\ i + 1 \in DOMAIN s /\ Tail(s)[i] = s[i + 1]
                                   /\ i \in Nat \ {0}
  OBVIOUS
<1>2. OneCcs(s) => OneCcs(Tail(s))
  <2> SUFFICES ASSUME OneCcs(s), NEW i \in DOMAIN Tail(s), NEW j \in DOMAIN Tail(s),
                      IsCcs(Tail(s)[i]), IsCcs(Tail(s)[j])
               PROVE  i = j
    BY DEF OneCcs
  <2>1. i + 1 = j + 1
    BY <1>1 DEF OneCcs
  <2> QED
    BY <1>1, <2>1
<1>3. NoCcs(s) => NoCcs(Tail(s)) /\ ~ IsCcs(Head(s))
  BY <1>1 DEF NoCcs
<1>4. OneCcs(s) /\ IsCcs(Head(s)) => NoCcs(Tail(s))
  <2> SUFFICES ASSUME OneCcs(s), IsCcs(s[1]), NEW i \in DOMAIN Tail(s),
                      IsCcs(Tail(s)[i])
               PROVE  FALSE
    BY <1>1 DEF NoCcs
  <2>1. i + 1 = 1
    BY <1>1 DEF OneCcs
  <2> QED
    BY <1>1, <2>1
<1> QED
  BY <1>1, <1>2, <1>3, <1>4

LEMMA AppendCcs ==
    ASSUME NEW S, NEW s \in Seq(S), NEW m \in S
    PROVE  /\ Append(s, m) \in Seq(S)
           /\ ~ IsCcs(m) => /\ NoCcs(s) => NoCcs(Append(s, m))
                            /\ OneCcs(s) => OneCcs(Append(s, m))
           /\ NoCcs(s) => OneCcs(Append(s, m))
<1>1. /\ Append(s, m) \in Seq(S)
      /\ \A i \in DOMAIN Append(s, m) :
            \/ (i \in DOMAIN s /\ Append(s, m)[i] = s[i])
            \/ (i = Len(s) + 1 /\ Append(s, m)[i] = m)
  OBVIOUS
<1> QED
  BY <1>1 DEF NoCcs, OneCcs

LEMMA NoneIsOne ==
    ASSUME NEW s, NoCcs(s)
    PROVE  OneCcs(s)
  BY DEF NoCcs, OneCcs

LEMMA ShortCcs ==
    /\ \A S : <<>> \in Flights(S)
    /\ NoCcs(<<>>)
    /\ \A S : \A m \in S : <<m>> \in Flights(S)
<1>1. NoCcs(<<>>) /\ OneCcs(<<>>)
  BY DEF NoCcs, OneCcs
<1>2. ASSUME NEW S, NEW m \in S
      PROVE  <<m>> \in Flights(S)
  <2>1. <<m>> \in Seq(S) /\ OneCcs(<<m>>)
    BY <1>2 DEF OneCcs
  <2> QED
    BY <2>1 DEF Flights
<1>3. \A S : <<>> \in Seq(S)
  OBVIOUS
<1> QED
  BY <1>1, <1>2, <1>3, Zenon DEF Flights

LEMMA LargerFlights ==
    ASSUME NEW S, NEW T, S \subseteq T
    PROVE  Flights(S) \subseteq Flights(T)
  BY DEF Flights

-----------------------------------------------------------------------------
(* The server's records.                                                    *)

LEMMA RecordsAreProper ==
    ASSUME NEW server, NEW epoch, NEW n, NEW M, NEW msgs \in Flights(M),
           \A m \in M : Proper(server, m),
           \/ epoch = 0
           \/ (epoch = 1 /\ server.phase = "done" /\ NoCcs(msgs))
    PROVE  \E S : /\ Records(epoch, n, msgs) \in Flights(S)
                  /\ \A r \in S : ProperRecord(server, r)
                  /\ NoCcs(msgs) => NoCcs(Records(epoch, n, msgs))
<1> DEFINE f == Records(epoch, n, msgs)
           S == {f[i] : i \in DOMAIN msgs}
<1>1. DOMAIN msgs = 1 .. Len(msgs) /\ Len(msgs) \in Nat /\ msgs \in Seq(M)
  BY DEF Flights
<1>2. ASSUME NEW i \in DOMAIN msgs
      PROVE  /\ f[i].type = msgs[i].type /\ f[i].data = msgs[i].data
             /\ {"type", "data"} \subseteq DOMAIN f[i]
             /\ f[i].epoch = epoch
             /\ f[i].keys = IF epoch = 0 THEN NullKeys ELSE SessionKeys
  <2> DEFINE m == msgs[i]
  <2>1. f[i] = [epoch |-> epoch, sequence_number |-> n + i - 1,
                keys |-> IF epoch = 0 THEN NullKeys ELSE SessionKeys,
                type |-> m.type, data |-> m.data]
    BY Zenon DEF Records
  <2> HIDE DEF m, f
  <2>2. /\ f[i].type = m.type /\ f[i].data = m.data
        /\ {"type", "data"} \subseteq DOMAIN f[i]
        /\ f[i].epoch = epoch
        /\ f[i].keys = IF epoch = 0 THEN NullKeys ELSE SessionKeys
    BY <2>1
  <2> QED
    BY <2>2 DEF m
<1>3. f = [i \in 1 .. Len(msgs) |-> f[i]]
  BY <1>1 DEF Records
<1> HIDE DEF f
<1>4. f \in Seq(S)
  <2>1. \A i \in 1 .. Len(msgs) : f[i] \in S
    BY <1>1
  <2> HIDE DEF S
  <2> QED
    BY <1>1, <1>3, <2>1, IsASeq
<1>5. DOMAIN f = DOMAIN msgs
  BY <1>1, <1>3
<1>6. OneCcs(f)
  BY <1>2, <1>5 DEF OneCcs, IsCcs, Flights
<1>7. ASSUME NEW i \in DOMAIN msgs
      PROVE  ProperRecord(server, f[i])
  <2>1. Proper(server, msgs[i])
    BY <1>1
  <2>2. Proper(server, f[i])
    BY <1>2, <2>1, Zenon DEF Proper, IsCcs
  <2>3. epoch = 1 => f[i].keys = SessionKeys /\ ~ IsCcs(f[i])
    BY <1>2 DEF NoCcs, IsCcs
  <2>4. epoch = 0 => f[i].keys = NullKeys
    BY <1>2
  <2>5. f[i].epoch = epoch /\ {"type", "data"} \subseteq DOMAIN f[i]
    BY <1>2
  <2>6. epoch = 1 => server.phase = "done"
    OBVIOUS
  <2> QED
    BY <2>2, <2>3, <2>4, <2>5, <2>6 DEF ProperRecord
<1>8. \A r \in S : ProperRecord(server, r)
  BY <1>7
<1>9. f \in Flights(S)
  BY <1>4, <1>6 DEF Flights
<1>10. NoCcs(msgs) => NoCcs(f)
  BY <1>2, <1>5 DEF NoCcs, IsCcs
<1> HIDE DEF S
<1> QED
  BY <1>8, <1>9, <1>10 DEF f

LEMMA ProperReplies ==
    ASSUME NEW server, OnItsWay(server, toClient, datagram), UNCHANGED datagram,
           NEW S, NEW records \in Flights(S), ServerReplies(records),
           \A r \in S : ProperRecord(server, r)
    PROVE  OnItsWay(server, toClient', datagram')
<1>1. PICK R : /\ toClient \in Seq(Flights(R)) /\ datagram \in Flights(R)
               /\ \A r \in R : ProperRecord(server, r)
  BY Zenon DEF OnItsWay
<1> DEFINE T == R \cup S
           Q == Flights(T)
           one == <<records>>
           single == [i \in DOMAIN records |-> <<records[i]>>]
<1>2. Flights(R) \subseteq Q /\ Flights(S) \subseteq Q
  BY LargerFlights
<1>3. \A r \in T : ProperRecord(server, r)
  BY <1>1, Zenon
<1>4. /\ DOMAIN records = 1 .. Len(records) /\ Len(records) \in Nat
      /\ \A i \in DOMAIN records : records[i] \in T
  BY DEF Flights
<1>5. \A i \in DOMAIN records : <<records[i]>> \in Q
  BY <1>4, ShortCcs, Zenon
<1> HIDE DEF T
<1>6. datagram' \in Q /\ toClient \in Seq(Q) /\ one \in Seq(Q)
  <2> HIDE DEF Q
  <2> QED
    BY <1>1, <1>2
<1>7. single \in Seq(Q)
  <2> HIDE DEF Q
  <2> QED
    BY <1>4, <1>5
<1> HIDE DEF one, single, Q
<1>8. toClient' = toClient \o one \/ toClient' = toClient \o single
  BY Zenon DEF ServerReplies, single, one
<1>9. toClient' \in Seq(Q)
  BY <1>6, <1>7, <1>8, ConcatProperties
<1> QED
  BY <1>3, <1>6, <1>9, Zenon DEF OnItsWay, Q

LEMMA Flight4IsProper ==
    ASSUME NEW server, NEW n
    PROVE  \E S : /\ Flight4(n) \in Flights(S)
                  /\ \A r \in S : ProperRecord(server, r)
<1>1. PICK M : \E msgs \in Seq(M) :
          /\ Flight4(n) = Records(0, n, msgs)
          /\ \A m \in M : /\ m.type = "handshake" /\ m.data.msg_type # "finished"
                          /\ m.data.message_seq \in Nat /\ m.data.total_length \in Nat
  BY Flight4IsRecords
<1>2. PICK msgs \in Seq(M) :
          /\ Flight4(n) = Records(0, n, msgs)
          /\ \A m \in M : /\ m.type = "handshake" /\ m.data.msg_type # "finished"
                          /\ m.data.message_seq \in Nat /\ m.data.total_length \in Nat
  BY <1>1
<1>3. \A m \in M : ~ IsCcs(m) /\ Proper(server, m)
  BY <1>2 DEF Proper, IsCcs
<1>4. msgs \in Flights(M)
  BY <1>3 DEF Flights, OneCcs
<1> QED
  BY <1>2, <1>3, <1>4, RecordsAreProper

-----------------------------------------------------------------------------
(* Epochs.                                                                  *)

EpochShape(eps) == /\ {0, 1} \subseteq DOMAIN eps
                   /\ \A e \in {0, 1} : {"keys", "decipher"} \subseteq DOMAIN eps[e]

\* Epoch 1 has the session keys once it has any, and nothing is deciphered in
\* an epoch before it has its keys.
EpochsInv ==
    /\ EpochShape(epochs)
    /\ epochs[0].keys = NullKeys
    /\ epochs[1].keys \in {NullKeys, SessionKeys}
    /\ epochs[0].decipher \in {Undefined, NullKeys}
    /\ epochs[1].decipher \in {Undefined, SessionKeys}
    /\ readEpochNr \in {0, 1} /\ writeEpochNr \in {0, 1}

\* The write epoch is switched before the server is done, that before the read
\* epoch is, and that before the handshake is finished.
SwitchInv ==
    /\ srv.phase = "done" => writeEpochNr = 1
    /\ readEpochNr = 1 => srv.phase = "done"
    /\ handshakeFinished => readEpochNr = 1

\* Flight 4 is still to come.
Early == /\ expectedResponses # Undefined
         /\ \/ "server_hello_done" \in expectedResponses
            \/ "hello_verify_request" \in expectedResponses

SentUnder(write, made, sent) ==
    \E S : /\ made \in Seq(S) /\ sent \in Seq(Seq(S))
           /\ \A r \in S : r.keys # NullKeys => write = 1

\* The ChangeCipherSpec is sent once and with the session keys in place, and
\* what is encrypted leaves after it.
SendInv ==
    /\ \E S : outgoing \in Flights(S)
    /\ ~ NoCcs(outgoing) => epochs[1].keys = SessionKeys
    /\ writeEpochNr = 1 => epochs[1].keys = SessionKeys /\ NoCcs(outgoing)
    /\ Early => writeEpochNr = 0 /\ NoCcs(outgoing)
    /\ SentUnder(writeEpochNr, flight, toServer)

\* A ChangeCipherSpec between its datagram and the handler is the only one.
CcsAlone(read, records, passed, returned) ==
    /\ ~ NoCcs(passed) => read = 0 /\ NoCcs(records) /\ NoCcs(returned)
    /\ ~ NoCcs(returned) => read = 0 /\ NoCcs(records) /\ NoCcs(passed)

\* The server's ChangeCipherSpec is handled once.
PipeInv ==
    /\ OnItsWay(srv, toClient, datagram)
    /\ Passed(srv, unmarked, messages)
    /\ CcsAlone(readEpochNr, datagram, unmarked, messages)

KeysInv == EpochsInv /\ SwitchInv /\ SendInv /\ PipeInv

KeysKept == /\ EpochShape(epochs')
            /\ \A e \in {0, 1} : epochs'[e].keys = epochs[e].keys

LEMMA NextEpochEnsured ==
    ASSUME NEW eps, EpochShape(eps), NEW read, NEW write
    PROVE  /\ EpochShape(ensureNextEpoch(eps, read, write))
           /\ \A n \in {0, 1} : ensureNextEpoch(eps, read, write)[n] = eps[n]
  BY DEF EpochShape, ensureNextEpoch

\* The other steps of the record layer and the handler leave keys and cached
\* delegates alone.
LEMMA EpochsAlone ==
    ASSUME EpochsInv,
           \/ UNCHANGED epochs \/ Mark \/ HandleHelloVerifyRequest
           \/ processOutgoingMessage \/ advanceReadEpoch
    PROVE  /\ KeysKept
           /\ \A e \in {0, 1} : epochs'[e].decipher = epochs[e].decipher
<1>0. EpochShape(epochs)
  BY DEF EpochsInv
<1> SUFFICES /\ EpochShape(epochs')
             /\ \A n \in {0, 1} : /\ epochs'[n].keys = epochs[n].keys
                                  /\ epochs'[n].decipher = epochs[n].decipher
  BY DEF KeysKept
<1>1. CASE UNCHANGED epochs
  BY <1>0, <1>1
<1>2. CASE Mark
  <2>1. PICK e, x : epochs' = [epochs EXCEPT ![e].antiReplayWindow = x]
    BY <1>2 DEF Mark
  <2> QED
    BY <1>0, <2>1 DEF EpochShape
<1>3. CASE HandleHelloVerifyRequest
  <2>1. \/ epochs' = epochs
        \/ \E e, x : epochs' = [epochs EXCEPT ![e].antiReplayWindow = x]
    BY <1>3, Zenon DEF HandleHelloVerifyRequest, WithWindowReset
  <2>2. CASE epochs' = epochs
    BY <1>0, <2>2
  <2>3. ASSUME NEW e, NEW x, epochs' = [epochs EXCEPT ![e].antiReplayWindow = x]
        PROVE  /\ EpochShape(epochs')
               /\ \A n \in {0, 1} : /\ epochs'[n].keys = epochs[n].keys
                                    /\ epochs'[n].decipher = epochs[n].decipher
    BY <1>0, <2>3 DEF EpochShape
  <2> QED
    BY <2>1, <2>2, <2>3, Zenon
<1>4. CASE processOutgoingMessage
  <2>1. PICK x : LET c == [epochs EXCEPT ![writeEpochNr].writeSequenceNumber = x]
                 IN  epochs' \in {c, ensureNextEpoch(c, readEpochNr, writeEpochNr + 1)}
    BY <1>4 DEF processOutgoingMessage
  <2> DEFINE c == [epochs EXCEPT ![writeEpochNr].writeSequenceNumber = x]
  <2>2. /\ EpochShape(c)
        /\ \A n \in {0, 1} : /\ c[n].keys = epochs[n].keys
                             /\ c[n].decipher = epochs[n].decipher
    BY <1>0 DEF EpochShape
  <2>3. epochs' \in {c, ensureNextEpoch(c, readEpochNr, writeEpochNr + 1)}
    BY <2>1
  <2> HIDE DEF c
  <2> QED
    BY <2>2, <2>3, NextEpochEnsured
<1>5. CASE advanceReadEpoch
  BY <1>0, <1>5, NextEpochEnsured DEF advanceReadEpoch
<1> QED
  BY <1>1, <1>2, <1>3, <1>4, <1>5

\* A record that passes the filter is read under the keys it was written under,
\* and a ChangeCipherSpec that does is the first.
LEMMA RecordFits ==
    ASSUME KeysInv, datagram # <<>>, PassesFilter(Head(datagram))
    PROVE  LET p == Head(datagram)
           IN  /\ p.epoch \in {0, 1} /\ p.keys = epochs[p.epoch].keys
               /\ DecipherOf(p.epoch) = p.keys
               /\ Proper(srv, p) /\ {"type", "data"} \subseteq DOMAIN p
               /\ IsCcs(p) => readEpochNr = 0
<1> DEFINE p == Head(datagram)
<1>1. PICK R : /\ datagram \in Flights(R)
               /\ \A r \in R : ProperRecord(srv, r)
  BY Zenon DEF KeysInv, PipeInv, OnItsWay
<1>2. ProperRecord(srv, p)
  <2>1. p \in R
    BY <1>1 DEF Flights
  <2> QED
    BY <1>1, <2>1
<1>3. readEpochNr \in {0, 1} /\ p.epoch >= readEpochNr
  BY Zenon DEF KeysInv, EpochsInv, PassesFilter
<1> HIDE DEF p
<1>4. Proper(srv, p) /\ {"type", "data"} \subseteq DOMAIN p
  BY <1>2 DEF ProperRecord
<1>5. CASE p.epoch = 0 /\ p.keys = NullKeys
  BY <1>3, <1>4, <1>5 DEF KeysInv, EpochsInv, DecipherOf, p
<1>6. CASE p.epoch = 1 /\ p.keys = SessionKeys /\ ~ IsCcs(p) /\ srv.phase = "done"
  <2>1. epochs[1].keys = SessionKeys
    BY <1>6 DEF KeysInv, SwitchInv, SendInv
  <2> QED
    BY <1>4, <1>6, <2>1 DEF KeysInv, EpochsInv, DecipherOf, p
<1> QED
  BY <1>2, <1>5, <1>6 DEF ProperRecord

\* Session keys stay, and the epochs keep their shape.
LEMMA EpochsNext ==
    ASSUME KeysInv, [Next]_vars
    PROVE  /\ EpochsInv'
           /\ epochs[1].keys = SessionKeys => epochs'[1].keys = SessionKeys
<1>1. /\ EpochShape(epochs) /\ readEpochNr \in {0, 1} /\ writeEpochNr \in {0, 1}
      /\ EpochsInv
  BY DEF KeysInv, EpochsInv
<1>2. ASSUME \/ UNCHANGED epochs \/ Mark \/ HandleHelloVerifyRequest
             \/ processOutgoingMessage \/ advanceReadEpoch,
             readEpochNr' \in {0, 1}, writeEpochNr' \in {0, 1}
      PROVE  /\ EpochsInv'
             /\ epochs[1].keys = SessionKeys => epochs'[1].keys = SessionKeys
  <2>1. KeysKept /\ \A e \in {0, 1} : epochs'[e].decipher = epochs[e].decipher
    BY <1>1, <1>2, EpochsAlone
  <2> QED
    BY <1>1, <1>2, <2>1 DEF EpochsInv, KeysKept
<1>3. CASE HandleServerHelloDone
  <2>1. /\ UNCHANGED <<readEpochNr, writeEpochNr>>
        /\ \/ UNCHANGED epochs
           \/ epochs' = [epochs EXCEPT
                  ![nextEpochNr(readEpochNr, writeEpochNr)].keys = SessionKeys]
    BY <1>3, Zenon DEF HandleServerHelloDone
  <2> DEFINE n == nextEpochNr(readEpochNr, writeEpochNr)
  <2>2. n # 0
    BY <1>1 DEF nextEpochNr, Larger
  <2> HIDE DEF n
  <2>3. CASE epochs' = [epochs EXCEPT ![n].keys = SessionKeys]
    <3>1. EpochShape(epochs') /\ epochs'[0] = epochs[0]
          /\ epochs'[1].decipher = epochs[1].decipher
          /\ epochs'[1].keys \in {epochs[1].keys, SessionKeys}
      BY <1>1, <2>2, <2>3 DEF EpochShape
    <3> QED
      BY <1>1, <2>1, <3>1 DEF EpochsInv
  <2> QED
    BY <1>1, <1>2, <2>1, <2>3 DEF n
<1>4. CASE Decipher
  <2> DEFINE p == Head(datagram)
             x == DecipherOf(p.epoch)
  <2>1. /\ datagram # <<>> /\ PassesFilter(p)
        /\ epochs' = [epochs EXCEPT ![p.epoch].decipher = x]
        /\ UNCHANGED <<readEpochNr, writeEpochNr>>
    BY <1>4, Zenon DEF Decipher
  <2>2. p.epoch \in {0, 1} /\ p.keys = epochs[p.epoch].keys /\ x = p.keys
    BY <2>1, RecordFits
  <2>3. p.epoch = 1 => x = SessionKeys
    <3>1. PICK R : /\ datagram \in Flights(R)
                   /\ \A r \in R : ProperRecord(srv, r)
      BY Zenon DEF KeysInv, PipeInv, OnItsWay
    <3>2. p \in R
      BY <2>1, <3>1 DEF Flights
    <3>3. ProperRecord(srv, p)
      BY <3>1, <3>2
    <3> HIDE DEF p, x
    <3> QED
      BY <2>2, <3>3 DEF ProperRecord
  <2> DEFINE e == p.epoch
  <2>4. e = 0 => x = NullKeys
    BY <1>1, <2>2 DEF EpochsInv
  <2> HIDE DEF p, x, e
  <2>5. /\ EpochShape(epochs') /\ epochs'[0].keys = epochs[0].keys
        /\ epochs'[1].keys = epochs[1].keys
        /\ epochs'[0].decipher \in {epochs[0].decipher, NullKeys}
        /\ epochs'[1].decipher \in {epochs[1].decipher, SessionKeys}
    BY <1>1, <2>1, <2>2, <2>3, <2>4 DEF EpochShape, e
  <2> QED
    BY <1>1, <2>1, <2>5 DEF EpochsInv
<1>5. CASE ProcessOutgoing
  <2>1. /\ processOutgoingMessage /\ outgoing # <<>> /\ UNCHANGED readEpochNr
        /\ \/ writeEpochNr' = writeEpochNr
           \/ writeEpochNr' = writeEpochNr + 1 /\ IsCcs(Head(outgoing))
    BY <1>5, Zenon DEF ProcessOutgoing, processOutgoingMessage, IsCcs
  <2>2. IsCcs(Head(outgoing)) => writeEpochNr = 0
    <3>1. PICK S : outgoing \in Seq(S)
      BY DEF KeysInv, SendInv, Flights
    <3> QED
      BY <1>1, <2>1, <3>1, TailCcs DEF KeysInv, SendInv
  <2>3. writeEpochNr' \in {0, 1}
    BY <1>1, <2>1, <2>2
  <2> QED
    BY <1>1, <1>2, <2>1, <2>3
<1>6. CASE HandleChangeCipherSpec
  <2>1. /\ advanceReadEpoch /\ UNCHANGED writeEpochNr /\ messages # <<>>
        /\ readEpochNr' = readEpochNr + 1 /\ IsCcs(Head(messages))
    BY <1>6, Zenon DEF HandleChangeCipherSpec, Incoming, advanceReadEpoch, IsCcs
  <2>2. PICK S : messages \in Seq(S)
    BY DEF KeysInv, PipeInv, Passed, Flights
  <2>3. readEpochNr = 0
    BY <2>1, <2>2, TailCcs DEF KeysInv, PipeInv, CcsAlone
  <2> QED
    BY <1>1, <1>2, <2>1, <2>3
<1>7. CASE \/ Collect \/ HandleFinished \/ HandleFatalAlert \/ HandleApplicationData
           \/ (Discard /\ Filter) \/ SendDatagram \/ ReceiveDatagram \/ AlertSent
           \/ Disturb \/ ServerReceive \/ ServerRetransmit \/ ServerSendData
           \/ Timeout \/ UNCHANGED vars
  <2>1. UNCHANGED layerVars
    BY <1>7, Zenon
    DEF Collect, HandleFinished, HandleFatalAlert, HandleApplicationData, Discard,
        SendDatagram, Transmit, ReceiveDatagram, Receive, AlertSent, Disturb,
        ServerReceive, ServerRetransmit, ServerSendData, Timeout, recordVars, vars
  <2> QED
    BY <1>1, <1>2, <2>1 DEF layerVars
<1>8. CASE HandleHelloVerifyRequest \/ MarkOne
  <2>1. /\ Mark \/ HandleHelloVerifyRequest
        /\ UNCHANGED <<readEpochNr, writeEpochNr>>
    BY <1>8, Zenon DEF HandleHelloVerifyRequest, MarkOne, Mark
  <2> QED
    BY <1>1, <1>2, <2>1
<1> QED
  BY <1>3, <1>4, <1>5, <1>6, <1>7, <1>8, Zenon DEF Next, Internal, Filter

-----------------------------------------------------------------------------
(* Sending.                                                                 *)

LEMMA ConcatCcs ==
    ASSUME NEW S, NEW T, NEW s \in Flights(S), NEW t \in Flights(T),
           NoCcs(s) \/ NoCcs(t)
    PROVE  s \o t \in Flights(S \cup T)
<1> DEFINE U == S \cup T
<1>1. s \in Seq(U) /\ t \in Seq(U)
  BY DEF Flights
<1> HIDE DEF U
<1>2. /\ s \o t \in Seq(U)
      /\ \A i \in DOMAIN (s \o t) :
            \/ (i \in DOMAIN s /\ (s \o t)[i] = s[i])
            \/ (i - Len(s) \in DOMAIN t /\ (s \o t)[i] = t[i - Len(s)])
      /\ DOMAIN (s \o t) \subseteq Int /\ Len(s) \in Int
  BY <1>1
<1>3. OneCcs(s \o t)
  <2> SUFFICES ASSUME NEW i \in DOMAIN (s \o t), NEW j \in DOMAIN (s \o t),
                      IsCcs((s \o t)[i]), IsCcs((s \o t)[j])
               PROVE  i = j
    BY DEF OneCcs
  <2>1. CASE NoCcs(s)
    <3>1. /\ i - Len(s) \in DOMAIN t /\ IsCcs(t[i - Len(s)])
          /\ j - Len(s) \in DOMAIN t /\ IsCcs(t[j - Len(s)])
      BY <1>2, <2>1 DEF NoCcs
    <3>2. i - Len(s) = j - Len(s)
      BY <3>1, Zenon DEF Flights, OneCcs
    <3> QED
      BY <1>2, <3>2
  <2>2. CASE NoCcs(t)
    <3>1. i \in DOMAIN s /\ IsCcs(s[i]) /\ j \in DOMAIN s /\ IsCcs(s[j])
      BY <1>2, <2>2 DEF NoCcs
    <3> QED
      BY <3>1, Zenon DEF Flights, OneCcs
  <2> QED
    BY <2>1, <2>2
<1> QED
  BY <1>2, <1>3 DEF Flights, U

\* What a message becomes has a ChangeCipherSpec in it for a Finished only, and
\* one.
LEMMA WireCcs ==
    ASSUME NEW m
    PROVE  \E S : /\ Wire(m) \in Flights(S)
                  /\ m.msg_type # "finished" => NoCcs(Wire(m))
<1> DEFINE w  == Whole(m)
           fs == split(w, MTU)
           f  == Fragment(w, 0, Shorter(MTU, w.length))
           h  == HandshakeMessage(f)
           S  == {h}
           one == <<h>>
<1>1. Fragments(m) = <<>> \/ Fragments(m) = one
  <2>1. fs = <<>> \/ fs = <<f>>
    BY Zenon DEF split
  <2>2. Fragments(m) = [i \in DOMAIN fs |-> HandshakeMessage(fs[i])]
    BY Zenon DEF Fragments
  <2> HIDE DEF fs, f
  <2> QED
    BY <2>1, <2>2
<1>2. h.type = "handshake"
  BY DEF HandshakeMessage
<1> HIDE DEF h
<1>3. one \in Flights(S) /\ NoCcs(one)
  BY <1>2, ShortCcs DEF NoCcs, IsCcs
<1> HIDE DEF one, S
<1>4. Fragments(m) \in Flights(S) /\ NoCcs(Fragments(m))
  BY <1>1, <1>3, ShortCcs
<1>5. \/ Wire(m) = Fragments(m)
      \/ Wire(m) = <<CCS>> \o Fragments(m) /\ m.msg_type = "finished"
  BY Zenon DEF Wire
<1> DEFINE T == {CCS}
           c == <<CCS>>
<1>6. c \in Flights(T)
  BY ShortCcs
<1> HIDE DEF T, c
<1>7. c \o Fragments(m) \in Flights(T \cup S)
  BY <1>4, <1>6, ConcatCcs
<1>8. \/ Wire(m) = Fragments(m)
      \/ Wire(m) = c \o Fragments(m) /\ m.msg_type = "finished"
  BY <1>5, Zenon DEF c
<1> QED
  BY <1>4, <1>7, <1>8

\* A flight is sent under the keys of the write epoch, and the network makes up
\* nothing.
LEMMA SentNext ==
    ASSUME KeysInv, [Next]_vars, writeEpochNr = 1 => writeEpochNr' = 1
    PROVE  SentUnder(writeEpochNr', flight', toServer')
<1> DEFINE write == writeEpochNr'
<1>1. PICK S : /\ flight \in Seq(S) /\ toServer \in Seq(Seq(S))
               /\ \A r \in S : r.keys # NullKeys => write = 1
  BY DEF KeysInv, SendInv, SentUnder
<1>0. SUFFICES SentUnder(write, flight', toServer')
  OBVIOUS
<1> HIDE DEF write
<1>2. ASSUME NEW f \in Seq(S), NEW t \in Seq(Seq(S)), flight' = f, toServer' = t
      PROVE  SentUnder(write, flight', toServer')
  BY <1>1, <1>2, Zenon DEF SentUnder
<1>3. CASE UNCHANGED <<flight, toServer>>
  BY <1>1, <1>2, <1>3
<1>4. CASE ProcessOutgoing
  <2> DEFINE r == Stamp(Head(outgoing))
             T == S \cup {r}
  <2>1. flight' = Append(flight, r) /\ toServer' = toServer
    BY <1>4, Zenon DEF ProcessOutgoing, processOutgoingMessage, netVars
  <2>2. r.keys = epochs[writeEpochNr].keys
    BY DEF Stamp
  <2>3. r.keys # NullKeys => write = 1
    BY <2>2 DEF KeysInv, EpochsInv, write
  <2>4. \A x \in T : x.keys # NullKeys => write = 1
    BY <1>1, <2>3
  <2> HIDE DEF r
  <2>5. flight \in Seq(T) /\ r \in T
    BY <1>1
  <2>6. Seq(S) \subseteq Seq(T)
    OBVIOUS
  <2> HIDE DEF T
  <2>7. toServer' \in Seq(Seq(T))
    BY <1>1, <2>1, <2>6
  <2>8. flight' \in Seq(T)
    BY <2>1, <2>5
  <2> QED
    BY <2>4, <2>7, <2>8, Zenon DEF SentUnder
<1>5. CASE SendDatagram
  <2>1. flight' = <<>> /\ toServer' = Append(toServer, flight)
    BY <1>5, Zenon DEF SendDatagram, Transmit
  <2>2. flight' \in Seq(S)
    BY <2>1
  <2>3. toServer' \in Seq(Seq(S))
    BY <1>1, <2>1, AppendProperties
  <2> QED
    BY <1>2, <2>2, <2>3
<1>6. CASE Disturb \/ ServerReceive
  <2>1. /\ \/ toServer' = toServer
           \/ \E i \in DOMAIN toServer :
                 \/ toServer' = RemoveAt(toServer, i)
                 \/ toServer' = Append(toServer, toServer[i])
        /\ flight' = flight
    BY <1>6, Zenon DEF Disturb, Disturbed, ServerReceive, recordVars, sendVars
  <2> DEFINE Q == Seq(S)
  <2>2. toServer \in Seq(Q)
    BY <1>1
  <2> HIDE DEF Q
  <2>3. ASSUME NEW i \in DOMAIN toServer
        PROVE  /\ RemoveAt(toServer, i) \in Seq(Q)
               /\ Append(toServer, toServer[i]) \in Seq(Q)
    <3>1. toServer[i] \in Q /\ RemoveAt(toServer, i) \in Seq(Q)
      BY <2>2, RemovedFrom
    <3> QED
      BY <2>2, <3>1, AppendProperties
  <2>4. toServer' \in Seq(Q)
    BY <2>1, <2>2, <2>3, Zenon
  <2> QED
    BY <1>1, <1>2, <2>1, <2>4 DEF Q
<1>7. CASE \/ Collect \/ HandleHelloVerifyRequest \/ HandleServerHelloDone
           \/ HandleFinished \/ HandleChangeCipherSpec \/ HandleFatalAlert
           \/ HandleApplicationData \/ Filter \/ MarkOne \/ ReceiveDatagram
           \/ AlertSent \/ ServerRetransmit \/ ServerSendData \/ Timeout
           \/ UNCHANGED vars
  <2>1. UNCHANGED <<flight, toServer>>
    BY <1>7, Zenon
    DEF Collect, HandleHelloVerifyRequest, HandleServerHelloDone, HandleFinished,
        HandleChangeCipherSpec, HandleFatalAlert, HandleApplicationData, Filter,
        Discard, Decipher, MarkOne, Mark, ReceiveDatagram, Receive, AlertSent,
        ServerRetransmit, ServerSendData, Timeout, sendVars, netVars, recordVars,
        vars
  <2> QED
    BY <1>3, <2>1
<1> QED
  BY <1>4, <1>5, <1>6, <1>7, Zenon DEF Next, Internal

\* An epoch is not left once switched to.
LEMMA SwitchedOnce ==
    ASSUME KeysInv, [Next]_vars
    PROVE  /\ writeEpochNr = 1 => writeEpochNr' = 1
           /\ readEpochNr = 1 => readEpochNr' = 1
<1>1. writeEpochNr' \in {0, 1} /\ readEpochNr' \in {0, 1}
  BY EpochsNext DEF EpochsInv
<1>2. CASE ProcessOutgoing
  <2>1. /\ readEpochNr' = readEpochNr
        /\ writeEpochNr' = writeEpochNr \/ writeEpochNr' = writeEpochNr + 1
    BY <1>2, Zenon DEF ProcessOutgoing, processOutgoingMessage
  <2> QED
    BY <1>1, <2>1
<1>3. CASE HandleChangeCipherSpec
  <2>1. readEpochNr' = readEpochNr + 1 /\ writeEpochNr' = writeEpochNr
    BY <1>3, Zenon DEF HandleChangeCipherSpec, advanceReadEpoch
  <2> QED
    BY <1>1, <2>1
<1>4. CASE \/ Collect \/ HandleHelloVerifyRequest \/ HandleServerHelloDone
           \/ HandleFinished \/ HandleFatalAlert \/ HandleApplicationData
           \/ Filter \/ MarkOne \/ SendDatagram \/ ReceiveDatagram \/ AlertSent
           \/ Disturb \/ ServerReceive \/ ServerRetransmit \/ ServerSendData
           \/ Timeout \/ UNCHANGED vars
  <2>1. UNCHANGED <<readEpochNr, writeEpochNr>>
    BY <1>4, Zenon
    DEF Collect, HandleHelloVerifyRequest, HandleServerHelloDone, HandleFinished,
        HandleFatalAlert, HandleApplicationData, Filter, Discard, Decipher,
        MarkOne, Mark, SendDatagram, Transmit, ReceiveDatagram, Receive,
        AlertSent, Disturb, ServerReceive, ServerRetransmit, ServerSendData,
        Timeout, layerVars, recordVars, vars
  <2> QED
    BY <2>1
<1> QED
  BY <1>2, <1>3, <1>4, Zenon DEF Next, Internal

\* The flight the handler expects next decides what it may have sent.
LEMMA SendNext ==
    ASSUME KeysInv, [Next]_vars
    PROVE  SendInv'
<1>1. /\ epochs[1].keys = SessionKeys => epochs'[1].keys = SessionKeys
      /\ writeEpochNr = 1 => writeEpochNr' = 1
      /\ writeEpochNr' \in {0, 1} /\ writeEpochNr \in {0, 1}
  BY EpochsNext, SwitchedOnce DEF KeysInv, EpochsInv
<1>2. SentUnder(writeEpochNr', flight', toServer')
  BY <1>1, SentNext
<1>3. PICK S : outgoing \in Flights(S)
  BY DEF KeysInv, SendInv
<1>4. SendInv
  BY DEF KeysInv
<1>5. CASE UNCHANGED <<outgoing, writeEpochNr, expectedResponses>>
  BY <1>1, <1>2, <1>4, <1>5 DEF SendInv, Early
<1>6. CASE ProcessOutgoing
  <2> DEFINE msg == Head(outgoing)
  <2>1. /\ outgoing # <<>> /\ outgoing' = Tail(outgoing)
        /\ IF IsCcs(msg) THEN writeEpochNr' = writeEpochNr + 1
                         ELSE writeEpochNr' = writeEpochNr
        /\ expectedResponses' = expectedResponses
    BY <1>6, Zenon
    DEF ProcessOutgoing, processOutgoingMessage, IsCcs, othersUnchanged, handlerVars
  <2>2. /\ outgoing \in Seq(S) /\ OneCcs(outgoing)
    BY <1>3 DEF Flights
  <2>3. /\ outgoing' \in Flights(S)
        /\ NoCcs(outgoing) => NoCcs(outgoing') /\ ~ IsCcs(msg)
        /\ IsCcs(msg) => NoCcs(outgoing')
    BY <2>1, <2>2, TailCcs DEF Flights
  <2>4. CASE IsCcs(msg)
    <3>1. ~ NoCcs(outgoing) /\ NoCcs(outgoing') /\ epochs'[1].keys = SessionKeys
      BY <1>1, <1>4, <2>3, <2>4 DEF SendInv
    <3>2. ~ Early'
      BY <1>4, <2>1, <3>1 DEF SendInv, Early
    <3> QED
      BY <1>2, <2>3, <3>1, <3>2 DEF SendInv
  <2>5. CASE ~ IsCcs(msg)
    <3>1. writeEpochNr' = writeEpochNr /\ (~ NoCcs(outgoing') => ~ NoCcs(outgoing))
          /\ (Early' => Early)
      BY <2>1, <2>3, <2>5 DEF Early
    <3> QED
      BY <1>1, <1>2, <1>4, <2>3, <3>1 DEF SendInv
  <2> QED
    BY <2>4, <2>5
<1>7. ASSUME NEW type, TakeFlight(type)
      PROVE  expectedResponses # Undefined /\ type \in expectedResponses
  BY <1>7, Zenon DEF TakeFlight, FlightEndsAt
<1>8. CASE HandleHelloVerifyRequest
  <2> DEFINE hello == Hello(lastSentSeqNum + 1, Cookie)
  <2>1. /\ TakeFlight("hello_verify_request") /\ outgoing' = Wire(hello)
        /\ UNCHANGED writeEpochNr
    BY <1>8, Zenon DEF HandleHelloVerifyRequest, sendFlight
  <2>2. writeEpochNr = 0
    BY <1>4, <1>7, <2>1 DEF SendInv, Early
  <2>3. hello.msg_type # "finished"
    BY DEF Hello, Msg
  <2> HIDE DEF hello
  <2>4. PICK T : outgoing' \in Flights(T) /\ NoCcs(outgoing')
    BY <2>1, <2>3, WireCcs
  <2> QED
    BY <1>2, <2>1, <2>2, <2>4 DEF SendInv
<1>9. ASSUME outgoing' = <<Alert>> \/ outgoing' = outgoing,
             expectedResponses' = Undefined, UNCHANGED writeEpochNr
      PROVE  SendInv'
  <2> DEFINE T == {Alert}
             a == <<Alert>>
  <2>1. a \in Flights(T) /\ NoCcs(a)
    BY ShortCcs DEF NoCcs, IsCcs, Alert
  <2> HIDE DEF T, a
  <2>2. ~ Early'
    BY <1>9 DEF Early
  <2>3. outgoing' = a \/ outgoing' = outgoing
    BY <1>9 DEF a
  <2> QED
    BY <1>1, <1>2, <1>4, <1>9, <2>1, <2>2, <2>3 DEF SendInv
<1>10. CASE HandleFinished
  <2>1. /\ outgoing' = <<Alert>> \/ outgoing' = outgoing
        /\ expectedResponses' = Undefined /\ UNCHANGED writeEpochNr
    BY <1>10, Zenon DEF HandleFinished, layerVars
  <2> QED
    BY <1>9, <2>1
<1>11. CASE HandleServerHelloDone
  <2>1. TakeFlight("server_hello_done") /\ UNCHANGED <<readEpochNr, writeEpochNr>>
    BY <1>11, Zenon DEF HandleServerHelloDone
  <2>2. writeEpochNr = 0
    BY <1>4, <1>7, <2>1 DEF SendInv, Early
  <2>3. readEpochNr = 0
    BY <2>2 DEF KeysInv, EpochsInv, SwitchInv
  <2>4. \/ /\ outgoing' = <<Alert>> \/ outgoing' = outgoing
           /\ expectedResponses' = Undefined
        \/ \E cke, fin :
             /\ outgoing' = Wire(cke) \o Wire(fin) /\ cke.msg_type # "finished"
             /\ epochs' = [epochs EXCEPT
                    ![nextEpochNr(readEpochNr, writeEpochNr)].keys = SessionKeys]
             /\ expectedResponses' = {"finished"}
    <3> DEFINE next == nextEpochNr(readEpochNr, writeEpochNr)
    <3>1. \A q, b : Msg("client_key_exchange", q, b).msg_type # "finished"
      BY DEF Msg
    <3>2. \E hashed :
             \/ /\ \E cke, fin :
                     /\ \E q, b : cke = Msg("client_key_exchange", q, b)
                     /\ sendFlight(<<cke, fin>>, Wire(cke) \o Wire(fin), hashed,
                                   {"finished"})
                /\ epochs' = [epochs EXCEPT ![next].keys = SessionKeys]
             \/ /\ outgoing' = <<Alert>> \/ outgoing' = outgoing
                /\ expectedResponses' = Undefined
      BY <1>11, Zenon DEF HandleServerHelloDone
    <3> HIDE DEF next
    <3> QED
      BY <3>1, <3>2, Zenon DEF sendFlight, next
  <2>5. ASSUME NEW cke, NEW fin, cke.msg_type # "finished",
               outgoing' = Wire(cke) \o Wire(fin),
               epochs' = [epochs EXCEPT
                    ![nextEpochNr(readEpochNr, writeEpochNr)].keys = SessionKeys],
               expectedResponses' = {"finished"}
        PROVE  SendInv'
    <3>1. PICK T1 : Wire(cke) \in Flights(T1) /\ NoCcs(Wire(cke))
      BY <2>5, WireCcs
    <3>2. PICK T2 : Wire(fin) \in Flights(T2)
      BY WireCcs
    <3>3. outgoing' \in Flights(T1 \cup T2)
      BY <2>5, <3>1, <3>2, ConcatCcs
    <3>4. nextEpochNr(readEpochNr, writeEpochNr) = 1
      BY <2>2, <2>3 DEF nextEpochNr, Larger
    <3>5. epochs'[1].keys = SessionKeys
      BY <2>5, <3>4 DEF KeysInv, EpochsInv, EpochShape
    <3>6. ~ Early'
      BY <2>5 DEF Early
    <3> QED
      BY <1>2, <2>1, <2>2, <3>3, <3>5, <3>6 DEF SendInv
  <2> QED
    BY <1>9, <2>1, <2>4, <2>5, Zenon
<1>12. CASE \/ Collect \/ HandleChangeCipherSpec \/ HandleFatalAlert
            \/ HandleApplicationData \/ Filter \/ MarkOne \/ SendDatagram
            \/ ReceiveDatagram \/ AlertSent \/ Disturb \/ ServerReceive
            \/ ServerRetransmit \/ ServerSendData \/ Timeout \/ UNCHANGED vars
  <2>1. UNCHANGED <<outgoing, writeEpochNr, expectedResponses>>
    BY <1>12, Zenon
    DEF Collect, HandleChangeCipherSpec, advanceReadEpoch, HandleFatalAlert,
        HandleApplicationData, Filter, Discard, Decipher, MarkOne, Mark,
        SendDatagram, Transmit, ReceiveDatagram, Receive, AlertSent, Disturb,
        ServerReceive, ServerRetransmit, ServerSendData, Timeout,
        othersUnchanged, handlerVars, layerVars, sendVars, recordVars, vars
  <2> QED
    BY <1>5, <2>1
<1> QED
  BY <1>6, <1>8, <1>10, <1>11, <1>12, Zenon DEF Next, Internal

-----------------------------------------------------------------------------
(* The order of the switches.                                               *)

\* The server is done after it took an encrypted Finished, the read epoch is
\* switched by the ChangeCipherSpec of a server that is done, and the handshake
\* is finished under keys.
LEMMA SwitchNext ==
    ASSUME KeysInv, SrvInv, [Next]_vars
    PROVE  SwitchInv'
<1>1. /\ writeEpochNr = 1 => writeEpochNr' = 1
      /\ readEpochNr = 1 => readEpochNr' = 1
      /\ Kept /\ SwitchInv
  BY SwitchedOnce, ServerKept DEF KeysInv
<1>2. srv'.phase = "done" => writeEpochNr' = 1
  <2> SUFFICES ASSUME srv'.phase = "done", srv.phase # "done"
               PROVE  writeEpochNr = 1
    BY <1>1 DEF SwitchInv
  <2>1. PICK i \in DOMAIN toServer : IsFlight5(toServer[i]) /\ ServerFinishPhase(toServer[i])
    <3>1. CASE ServerReceive
      <4>1. PICK i \in DOMAIN toServer :
                ServerTakes(toServer[i]) \/ ServerIgnores(toServer[i])
        BY <3>1, Zenon DEF ServerReceive
      <4>2. ASSUME NEW r, ServerHelloPhase(r) PROVE FALSE
        <5>1. srv' # srv
          BY <1>1
        <5>2. \E x, y : srv' = [srv EXCEPT !.phase = "negotiating", !.next = x,
                                           !.transcript = y]
          BY <4>2, <5>1, Zenon DEF ServerHelloPhase
        <5> QED
          BY <5>2 DEF SrvInv, ServerFields
      <4> QED
        BY <4>1, <4>2, Zenon DEF ServerTakes, ServerIgnores
    <3>2. CASE ServerRetransmit
      <4>1. \E x, y : srv' = [srv EXCEPT !.retransmits = x, !.next = y]
        BY <3>2, Zenon DEF ServerRetransmit
      <4> QED
        BY <4>1 DEF SrvInv, ServerFields
    <3>3. CASE ServerSendData
      BY <3>3, Zenon DEF ServerSendData
    <3>4. CASE Internal \/ ReceiveDatagram \/ AlertSent \/ Disturb \/ Timeout
               \/ UNCHANGED vars
      <4>1. srv' = srv
        BY <3>4, Zenon
        DEF Internal, Collect, HandleHelloVerifyRequest, HandleServerHelloDone,
            HandleFinished, HandleChangeCipherSpec, HandleFatalAlert,
            HandleApplicationData, Filter, MarkOne, ProcessOutgoing, SendDatagram,
            ReceiveDatagram, AlertSent, Disturb, Timeout, othersUnchanged,
            serverVars, vars
      <4> QED
        BY <4>1
    <3> QED
      BY <3>1, <3>2, <3>3, <3>4, Zenon DEF Next
  <2> DEFINE d == toServer[i]
  <2>2. Len(d) = 3 /\ d[3].keys = SessionKeys
    BY <2>1, Zenon DEF IsFlight5, ServerFinishPhase
  <2>3. PICK S : /\ toServer \in Seq(Seq(S))
                 /\ \A r \in S : r.keys # NullKeys => writeEpochNr = 1
    BY DEF KeysInv, SendInv, SentUnder
  <2>4. d \in Seq(S)
    BY <2>1, <2>3
  <2>5. d[3] \in S
    <3> HIDE DEF d
    <3>1. Len(d) = 3
      BY <2>2, Zenon
    <3> QED
      BY <2>4, <3>1
  <2> QED
    BY <2>2, <2>3, <2>5, KeysAssumption
<1>3. readEpochNr' = 1 => srv'.phase = "done"
  <2>1. CASE HandleChangeCipherSpec
    <3>1. messages # <<>> /\ IsCcs(Head(messages))
      BY <2>1, Zenon DEF HandleChangeCipherSpec, Incoming, IsCcs
    <3>2. PICK S : messages \in Seq(S) /\ \A m \in S : Proper(srv, m)
      BY DEF KeysInv, PipeInv, Passed, Flights
    <3>3. Head(messages) \in S
      BY <3>1, <3>2
    <3>4. srv.phase = "done"
      BY <3>1, <3>2, <3>3, Zenon DEF Proper
    <3> QED
      BY <1>1, <3>4 DEF Kept
  <2>2. CASE readEpochNr' = readEpochNr
    BY <1>1, <2>2 DEF Kept, SwitchInv
  <2>3. HandleChangeCipherSpec \/ readEpochNr' = readEpochNr
    BY Zenon
    DEF Next, Internal, Collect, HandleHelloVerifyRequest, HandleServerHelloDone,
        HandleFinished, HandleFatalAlert, HandleApplicationData, Filter, Discard,
        Decipher, MarkOne, Mark, ProcessOutgoing, processOutgoingMessage,
        SendDatagram, Transmit, ReceiveDatagram, Receive, AlertSent, Disturb,
        ServerReceive, ServerRetransmit, ServerSendData, Timeout, layerVars,
        recordVars, vars
  <2> QED
    BY <2>1, <2>2, <2>3
<1>4. handshakeFinished' => readEpochNr' = 1
  <2>1. CASE FinishConnected /\ HandleFinished
    <3>1. ServerKeys # NullKeys /\ readEpochNr' = readEpochNr
      <4>1. readEpochNr' = readEpochNr
        BY <2>1, Zenon DEF HandleFinished, layerVars
      <4>2. CASE ServerKeys # NullKeys
        BY <4>1, <4>2
      <4>3. CASE ServerKeys = NullKeys
        <5>1. FinishThrown
          BY <2>1, <4>3, Zenon DEF HandleFinished
        <5>2. handshakeFinished
          <6>1. handshakeFinished' = handshakeFinished
            BY <5>1, Zenon DEF FinishThrown
          <6>2. handshakeFinished' = TRUE
            BY <2>1, Zenon DEF FinishConnected
          <6>3. handshakeFinished = TRUE
            BY <6>1, <6>2
          <6> QED
            BY <6>3, Zenon
        <5>3. readEpochNr = 1
          BY <1>1, <5>2, Zenon DEF SwitchInv
        <5>4. srv.phase = "done" /\ epochs[1].keys = SessionKeys
          BY <1>1, <5>3 DEF SwitchInv, KeysInv, SendInv
        <5> QED
          BY <4>3, <5>3, <5>4, KeysAssumption DEF ServerKeys
      <4> QED
        BY <4>2, <4>3
    <3> QED
      BY <3>1 DEF ServerKeys, KeysInv, EpochsInv
  <2>2. CASE handshakeFinished' = handshakeFinished
    <3>1. CASE handshakeFinished
      BY <1>1, <3>1, Zenon DEF SwitchInv
    <3>2. CASE ~ handshakeFinished
      BY <2>2, <3>2, Zenon
    <3> QED
      BY <3>1, <3>2
  <2>3. \/ FinishConnected /\ HandleFinished
        \/ handshakeFinished' = handshakeFinished
    BY Zenon
    DEF Next, Internal, Collect, HandleHelloVerifyRequest, HandleServerHelloDone,
        HandleFinished, FinishThrown, FinishAlert, HandleChangeCipherSpec,
        HandleFatalAlert, HandleApplicationData, Filter, MarkOne, ProcessOutgoing,
        SendDatagram, ReceiveDatagram, AlertSent, Disturb, ServerReceive,
        ServerRetransmit, ServerSendData, Timeout, othersUnchanged, socketVars, vars
  <2> QED
    BY <2>1, <2>2, <2>3
<1> QED
  BY <1>2, <1>3, <1>4, Zenon DEF SwitchInv

-----------------------------------------------------------------------------
(* The way of the server's messages.                                        *)

\* A server that is done stays so, and its transcript is not changed any more.
DoneStays == srv.phase = "done" => /\ srv'.phase = "done"
                                   /\ srv'.transcript = srv.transcript

LEMMA TranscriptKept ==
    ASSUME SrvInv, [Next]_vars
    PROVE  DoneStays
<1>1. CASE srv' = srv
  BY <1>1 DEF DoneStays
<1>2. CASE ServerReceive
  <2>1. PICK i \in DOMAIN toServer :
            ServerTakes(toServer[i]) \/ ServerIgnores(toServer[i])
    BY <1>2, Zenon DEF ServerReceive
  <2>2. ASSUME NEW d, ServerFinishPhase(d) \/ (ServerHelloPhase(d) /\ srv' # srv)
        PROVE  DoneStays
    <3>1. srv.phase \in {"listen", "negotiating"}
      BY <2>2, Zenon DEF ServerFinishPhase, ServerHelloPhase
    <3> QED
      BY <3>1 DEF DoneStays
  <2> QED
    BY <1>1, <2>1, <2>2, Zenon DEF ServerTakes, ServerIgnores
<1>3. CASE ServerRetransmit \/ ServerSendData
  <2>1. \E x, y, z : \/ srv' = [srv EXCEPT !.retransmits = x, !.next = y]
                    \/ srv' = [srv EXCEPT !.data = z]
    BY <1>3, Zenon DEF ServerRetransmit, ServerSendData
  <2> QED
    BY <2>1 DEF DoneStays, SrvInv, ServerFields
<1>4. CASE Internal \/ ReceiveDatagram \/ AlertSent \/ Disturb \/ Timeout
           \/ UNCHANGED vars
  <2>1. UNCHANGED serverVars
    BY <1>4, Zenon
    DEF Internal, Collect, HandleHelloVerifyRequest, HandleServerHelloDone,
        HandleFinished, HandleChangeCipherSpec, HandleFatalAlert,
        HandleApplicationData, Filter, MarkOne, ProcessOutgoing, SendDatagram,
        ReceiveDatagram, AlertSent, Disturb, Timeout, othersUnchanged, vars
  <2> QED
    BY <1>1, <2>1, Zenon DEF serverVars
<1> QED
  BY <1>2, <1>3, <1>4, Zenon DEF Next

LEMMA ProperStays ==
    ASSUME DoneStays, PipeInv
    PROVE  /\ OnItsWay(srv', toClient, datagram)
           /\ Passed(srv', unmarked, messages)
<1>1. \A m : Proper(srv, m) => Proper(srv', m)
  BY DEF Proper, DoneStays, VerifyData
<1>2. \A r : ProperRecord(srv, r) => ProperRecord(srv', r)
  BY <1>1 DEF ProperRecord, DoneStays
<1>3. OnItsWay(srv', toClient, datagram)
  BY <1>2, Zenon DEF PipeInv, OnItsWay
<1>4. Passed(srv', unmarked, messages)
  BY <1>1, Zenon DEF PipeInv, Passed
<1> QED
  BY <1>3, <1>4

\* What is deciphered is the record itself, and a ChangeCipherSpec among the
\* records read is the only one.
LEMMA DecipherProper ==
    ASSUME KeysInv, DoneStays, Decipher, UNCHANGED toClient
    PROVE  /\ OnItsWay(srv', toClient', datagram')
           /\ Passed(srv', unmarked', messages')
           /\ CcsAlone(readEpochNr', datagram', unmarked', messages')
<1> DEFINE server == srv'
           p == Head(datagram)
<1>1. PICK R : /\ toClient \in Seq(Flights(R)) /\ datagram \in Flights(R)
               /\ \A r \in R : ProperRecord(server, r)
  BY ProperStays, Zenon DEF KeysInv, OnItsWay
<1>2. PICK M : /\ unmarked \in Flights(M) /\ messages \in Flights(M)
               /\ \A m \in M : Proper(server, m)
  BY ProperStays, Zenon DEF KeysInv, Passed
<1>3. /\ datagram # <<>> /\ datagram' = Tail(datagram) /\ PassesFilter(p)
      /\ unmarked' = IF Deciphers(p) THEN Append(unmarked, Plain(p)) ELSE unmarked
      /\ messages' = messages /\ readEpochNr' = readEpochNr
  BY Zenon DEF Decipher
<1>4. /\ DecipherOf(p.epoch) = p.keys
      /\ IsCcs(p) => readEpochNr = 0
  BY <1>3, RecordFits
<1>5. Plain(p) = p
  BY <1>4, Zenon DEF Plain
<1>6. /\ datagram' \in Flights(R) /\ p \in R
      /\ NoCcs(datagram) => NoCcs(datagram') /\ ~ IsCcs(p)
      /\ IsCcs(p) => NoCcs(datagram')
  BY <1>1, <1>3, TailCcs DEF Flights
<1>7. Proper(server, p)
  BY <1>1, <1>6 DEF ProperRecord
<1>8. CcsAlone(readEpochNr, datagram, unmarked, messages)
  BY DEF KeysInv, PipeInv
<1>9. OnItsWay(server, toClient', datagram')
  BY <1>1, <1>6 DEF OnItsWay
<1> HIDE DEF p, server
<1>10. CASE unmarked' = unmarked
  <2>1. Passed(server, unmarked', messages')
    BY <1>2, <1>3, <1>10, Zenon DEF Passed
  <2>2. CcsAlone(readEpochNr', datagram', unmarked', messages')
    BY <1>3, <1>6, <1>8, <1>10 DEF CcsAlone
  <2> QED
    BY <1>9, <2>1, <2>2 DEF server
<1>11. CASE unmarked' = Append(unmarked, p)
  <2> DEFINE N == M \cup {p}
  <2>1. \A m \in N : Proper(server, m)
    BY <1>2, <1>7
  <2>2. p \in N /\ M \subseteq N
    OBVIOUS
  <2> HIDE DEF N
  <2>3. unmarked \in Flights(N) /\ messages' \in Flights(N)
    BY <1>2, <1>3, <2>2, LargerFlights
  <2>4. IsCcs(p) => NoCcs(unmarked) /\ NoCcs(messages)
    BY <1>6, <1>8 DEF CcsAlone
  <2>5. /\ unmarked' \in Flights(N)
        /\ NoCcs(unmarked) /\ ~ IsCcs(p) => NoCcs(unmarked')
    <3>1. unmarked \in Seq(N) /\ OneCcs(unmarked)
      BY <2>3 DEF Flights
    <3> QED
      BY <1>11, <2>2, <2>4, <3>1, AppendCcs DEF Flights
  <2>6. Passed(server, unmarked', messages')
    BY <2>1, <2>3, <2>5, Zenon DEF Passed
  <2>7. CcsAlone(readEpochNr', datagram', unmarked', messages')
    BY <1>3, <1>4, <1>6, <1>8, <2>4, <2>5 DEF CcsAlone
  <2> QED
    BY <1>9, <2>6, <2>7 DEF server
<1> QED
  BY <1>3, <1>5, <1>10, <1>11

LEMMA MarkProper ==
    ASSUME KeysInv, DoneStays, Mark
    PROVE  /\ Passed(srv', unmarked', messages')
           /\ CcsAlone(readEpochNr', datagram', unmarked', messages')
<1> DEFINE server == srv'
           p == Head(unmarked)
           q == [type |-> p.type, data |-> p.data]
           N == {q}
<1>1. PICK M : /\ unmarked \in Flights(M) /\ messages \in Flights(M)
               /\ \A m \in M : Proper(server, m)
  BY ProperStays, Zenon DEF KeysInv, Passed
<1>2. /\ unmarked # <<>> /\ unmarked' = Tail(unmarked)
      /\ messages' = Append(messages, q)
      /\ datagram' = datagram /\ readEpochNr' = readEpochNr
  BY Zenon DEF Mark
<1>3. /\ unmarked' \in Flights(M) /\ p \in M
      /\ NoCcs(unmarked) => NoCcs(unmarked') /\ ~ IsCcs(p)
      /\ IsCcs(p) => NoCcs(unmarked')
  BY <1>1, <1>2, TailCcs DEF Flights
<1> HIDE DEF p
<1>4. q.type = p.type /\ q.data = p.data
  OBVIOUS
<1> HIDE DEF q
<1>5. Proper(server, p)
  BY <1>1, <1>3
<1> HIDE DEF server
<1>6. Proper(server, q) /\ (IsCcs(q) <=> IsCcs(p))
  BY <1>4, <1>5, Zenon DEF Proper, IsCcs
<1>7. CcsAlone(readEpochNr, datagram, unmarked, messages)
  BY DEF KeysInv, PipeInv
<1> DEFINE U == M \cup N
<1>8. /\ q \in U /\ M \subseteq U /\ \A m \in U : Proper(server, m)
  BY <1>1, <1>6
<1> HIDE DEF U
<1>9. messages \in Flights(U) /\ unmarked' \in Flights(U)
  BY <1>1, <1>3, <1>8, LargerFlights
<1>10. IsCcs(q) => NoCcs(messages) /\ readEpochNr = 0 /\ NoCcs(datagram)
  BY <1>3, <1>6, <1>7 DEF CcsAlone
<1>11. /\ messages' \in Flights(U)
       /\ NoCcs(messages) /\ ~ IsCcs(q) => NoCcs(messages')
  <2>1. messages \in Seq(U) /\ OneCcs(messages)
    BY <1>9 DEF Flights
  <2> QED
    BY <1>2, <1>8, <1>10, <2>1, AppendCcs DEF Flights
<1>12. Passed(server, unmarked', messages')
  BY <1>8, <1>9, <1>11, Zenon DEF Passed
<1>13. CcsAlone(readEpochNr', datagram', unmarked', messages')
  BY <1>2, <1>3, <1>6, <1>7, <1>10, <1>11 DEF CcsAlone
<1> QED
  BY <1>12, <1>13 DEF server

LEMMA PipeNext ==
    ASSUME KeysInv, SrvInv, [Next]_vars
    PROVE  PipeInv'
<1> DEFINE server == srv'
<1>1. Kept /\ DoneStays
  BY ServerKept, TranscriptKept
<1>2. /\ OnItsWay(server, toClient, datagram) /\ Passed(server, unmarked, messages)
      /\ CcsAlone(readEpochNr, datagram, unmarked, messages)
  BY <1>1, ProperStays DEF KeysInv, PipeInv
<1>3. PICK R : /\ toClient \in Seq(Flights(R)) /\ datagram \in Flights(R)
               /\ \A r \in R : ProperRecord(server, r)
  BY <1>2, Zenon DEF OnItsWay
<1>4. PICK M : /\ unmarked \in Flights(M) /\ messages \in Flights(M)
               /\ \A m \in M : Proper(server, m)
  BY <1>2, Zenon DEF Passed
<1>0. SUFFICES /\ OnItsWay(server, toClient', datagram')
               /\ Passed(server, unmarked', messages')
               /\ CcsAlone(readEpochNr', datagram', unmarked', messages')
  BY DEF PipeInv
<1>5. ASSUME UNCHANGED <<receiveVars, readEpochNr>>, OnItsWay(server, toClient', datagram')
      PROVE  /\ OnItsWay(server, toClient', datagram')
             /\ Passed(server, unmarked', messages')
             /\ CcsAlone(readEpochNr', datagram', unmarked', messages')
  <2>1. /\ datagram' = datagram /\ unmarked' = unmarked /\ messages' = messages
        /\ readEpochNr' = readEpochNr
    BY <1>5, Zenon DEF receiveVars
  <2> QED
    BY <1>2, <1>5, <2>1
<1>6. ASSUME NextMessage
      PROVE  /\ datagram' = datagram /\ unmarked' = unmarked
             /\ Passed(server, unmarked', messages')
             /\ NoCcs(messages) => NoCcs(messages')
             /\ IsCcs(Head(messages)) => NoCcs(messages') /\ ~ NoCcs(messages)
  <2>1. /\ messages # <<>> /\ messages' = Tail(messages)
        /\ unmarked' = unmarked /\ datagram' = datagram
    BY <1>6, Zenon DEF NextMessage
  <2>2. /\ messages' \in Flights(M)
        /\ NoCcs(messages) => NoCcs(messages') /\ ~ IsCcs(Head(messages))
        /\ IsCcs(Head(messages)) => NoCcs(messages')
    BY <1>4, <2>1, TailCcs DEF Flights
  <2>3. Passed(server, unmarked', messages')
    BY <1>4, <2>1, <2>2 DEF Passed
  <2> QED
    BY <2>1, <2>2, <2>3
<1> HIDE DEF server
<1>7. CASE HandleChangeCipherSpec
  <2>1. /\ NextMessage /\ IsCcs(Head(messages)) /\ toClient' = toClient
    BY <1>7, Zenon DEF HandleChangeCipherSpec, Incoming, IsCcs, netVars
  <2>2. CcsAlone(readEpochNr', datagram', unmarked', messages')
    BY <1>2, <1>6, <2>1 DEF CcsAlone
  <2> QED
    BY <1>2, <1>6, <2>1, <2>2
<1>8. CASE \/ Collect \/ HandleHelloVerifyRequest \/ HandleServerHelloDone
           \/ HandleFinished \/ HandleFatalAlert \/ HandleApplicationData
  <2>1. \/ Collect \/ HandleFatalAlert \/ HandleApplicationData
        \/ \E type : /\ TakeFlight(type)
                     /\ UNCHANGED <<readEpochNr, toClient>>
    BY <1>8, Zenon
    DEF HandleHelloVerifyRequest, HandleServerHelloDone, HandleFinished, layerVars,
        netVars
  <2>2. NextMessage /\ readEpochNr' = readEpochNr /\ toClient' = toClient
    BY <2>1, Zenon
    DEF TakeFlight, Collect, HandleFatalAlert, HandleApplicationData, Incoming,
        layerVars, netVars
  <2>3. CcsAlone(readEpochNr', datagram', unmarked', messages')
    BY <1>2, <1>6, <2>2 DEF CcsAlone
  <2> QED
    BY <1>2, <1>6, <2>2, <2>3
<1>9. CASE Filter \/ MarkOne
  <2>1. (Discard \/ Decipher \/ Mark) /\ toClient' = toClient
    BY <1>9, Zenon DEF Filter, MarkOne, netVars
  <2>2. CASE Discard
    <3>1. /\ datagram # <<>> /\ datagram' = Tail(datagram) /\ unmarked' = unmarked
          /\ messages' = messages /\ readEpochNr' = readEpochNr
      BY <2>2, Zenon DEF Discard, layerVars
    <3>2. datagram' \in Flights(R) /\ (NoCcs(datagram) => NoCcs(datagram'))
      BY <1>3, <3>1, TailCcs DEF Flights
    <3>3. OnItsWay(server, toClient', datagram')
      BY <1>3, <2>1, <3>2 DEF OnItsWay
    <3> QED
      BY <1>2, <3>1, <3>2, <3>3 DEF CcsAlone
  <2>3. CASE Decipher
    BY <1>1, <2>1, <2>3, DecipherProper DEF server
  <2>4. CASE Mark
    <3>1. datagram' = datagram
      BY <2>4, Zenon DEF Mark
    <3> QED
      BY <1>1, <1>2, <2>1, <2>4, <3>1, MarkProper DEF server
  <2> QED
    BY <2>1, <2>2, <2>3, <2>4
<1>10. CASE ReceiveDatagram
  <2>1. PICK i \in DOMAIN toClient : /\ Receive(toClient[i])
                                     /\ toClient' = RemoveAt(toClient, i)
    BY <1>10, Zenon DEF ReceiveDatagram
  <2>2. /\ datagram' = toClient[i] /\ unmarked' = unmarked /\ messages' = messages
        /\ unmarked = <<>> /\ messages = <<>>
    BY <2>1, Zenon DEF Receive, Busy, Receiving
  <2>3. datagram' \in Flights(R)
    BY <1>3, <2>1, <2>2
  <2>4. toClient' \in Seq(Flights(R))
    BY <1>3, <2>1, RemovedFrom
  <2>5. OnItsWay(server, toClient', datagram')
    BY <1>3, <2>3, <2>4, Zenon DEF OnItsWay
  <2>6. CcsAlone(readEpochNr', datagram', unmarked', messages')
    BY <2>2, ShortCcs DEF CcsAlone
  <2> QED
    BY <1>2, <2>2, <2>5, <2>6
<1>11. CASE Disturb
  <2>1. /\ \/ toClient' = toClient
           \/ \E i \in DOMAIN toClient :
                 \/ toClient' = RemoveAt(toClient, i)
                 \/ toClient' = Append(toClient, toClient[i])
        /\ UNCHANGED <<receiveVars, readEpochNr>> /\ datagram' = datagram
    BY <1>11, Zenon DEF Disturb, Disturbed, recordVars, receiveVars, layerVars
  <2> DEFINE Q == Flights(R)
  <2>2. toClient \in Seq(Q)
    BY <1>3
  <2> HIDE DEF Q
  <2>3. ASSUME NEW i \in DOMAIN toClient
        PROVE  /\ RemoveAt(toClient, i) \in Seq(Q)
               /\ Append(toClient, toClient[i]) \in Seq(Q)
    <3>1. toClient[i] \in Q /\ RemoveAt(toClient, i) \in Seq(Q)
      BY <2>2, RemovedFrom
    <3> QED
      BY <2>2, <3>1, AppendProperties
  <2>4. toClient' \in Seq(Q)
    BY <2>1, <2>2, <2>3, Zenon
  <2>5. OnItsWay(server, toClient', datagram')
    BY <1>3, <2>1, <2>4 DEF OnItsWay, Q
  <2> QED
    BY <1>5, <2>1, <2>5
<1>12. ASSUME NEW S, NEW records \in Flights(S), ServerReplies(records),
               \A r \in S : ProperRecord(server, r), UNCHANGED recordVars
       PROVE  /\ OnItsWay(server, toClient', datagram')
              /\ Passed(server, unmarked', messages')
              /\ CcsAlone(readEpochNr', datagram', unmarked', messages')
  <2>1. UNCHANGED <<receiveVars, readEpochNr>> /\ UNCHANGED datagram
    BY <1>12, Zenon DEF recordVars, receiveVars, layerVars
  <2>2. OnItsWay(server, toClient', datagram')
    BY <1>2, <1>12, <2>1, ProperReplies
  <2> QED
    BY <1>5, <2>1, <2>2
<1>13. ASSUME NEW epoch, NEW n, NEW m, Proper(server, m),
               epoch = 0 \/ (epoch = 1 /\ server.phase = "done" /\ ~ IsCcs(m))
       PROVE  \E S : /\ Records(epoch, n, <<m>>) \in Flights(S)
                     /\ \A r \in S : ProperRecord(server, r)
                     /\ ~ IsCcs(m) => NoCcs(Records(epoch, n, <<m>>))
  <2> DEFINE T == {m}
             one == <<m>>
  <2>1. one \in Flights(T) /\ \A x \in T : Proper(server, x)
    BY <1>13, ShortCcs
  <2>2. ~ IsCcs(m) => NoCcs(one)
    BY DEF NoCcs
  <2> HIDE DEF T, one
  <2>3. \E S : /\ Records(epoch, n, one) \in Flights(S)
               /\ \A r \in S : ProperRecord(server, r)
               /\ NoCcs(one) => NoCcs(Records(epoch, n, one))
    BY <1>13, <2>1, <2>2, RecordsAreProper
  <2> QED
    BY <2>2, <2>3 DEF one
<1>14. CASE ServerRetransmit
  <2>1. ServerReplies(Flight4(srv.next)) /\ UNCHANGED recordVars
    BY <1>14, Zenon DEF ServerRetransmit
  <2> QED
    BY <1>12, <2>1, Flight4IsProper
<1>15. CASE ServerSendData
  <2> DEFINE m == [type |-> "application_data", data |-> scenario.data[srv.data + 1]]
  <2>1. /\ ServerReplies(Records(1, srv.data + 1, <<m>>))
        /\ UNCHANGED recordVars /\ srv.phase = "done"
    BY <1>15, Zenon DEF ServerSendData
  <2>2. server.phase = "done"
    BY <1>1, <2>1 DEF Kept, server
  <2>3. Proper(server, m) /\ ~ IsCcs(m)
    BY DEF Proper, IsCcs
  <2> HIDE DEF m
  <2> QED
    BY <1>12, <1>13, <2>1, <2>2, <2>3
<1>16. CASE ServerReceive
  <2>1. PICK i \in DOMAIN toServer :
            ServerTakes(toServer[i]) \/ ServerIgnores(toServer[i])
    BY <1>16, Zenon DEF ServerReceive
  <2> DEFINE d == toServer[i]
  <2>2. UNCHANGED recordVars
    BY <1>16, Zenon DEF ServerReceive
  <2>3. ASSUME NEW type, NEW q \in Nat, NEW body,
               type = "finished" => /\ server.phase = "done"
                                    /\ body = VerifyData("server", server.transcript)
        PROVE  /\ Proper(server, HandshakeMessage(Whole(Msg(type, q, body))))
               /\ ~ IsCcs(HandshakeMessage(Whole(Msg(type, q, body))))
    <3>1. LengthOf(type) \in Nat
      BY DEF LengthOf
    <3> DEFINE m == HandshakeMessage(Whole(Msg(type, q, body)))
    <3>2. /\ m.type = "handshake" /\ m.data.msg_type = type
          /\ m.data.message_seq = q /\ m.data.total_length = LengthOf(type)
          /\ m.data.body = body
      BY DEF HandshakeMessage, Whole, Fragment, Msg
    <3> HIDE DEF m
    <3>3. Proper(server, m) /\ ~ IsCcs(m)
      BY <2>3, <3>1, <3>2 DEF Proper, IsCcs
    <3> QED
      BY <3>3 DEF m
  <2>4. CASE ServerIgnores(d)
    <3>1. /\ toClient' = toClient /\ datagram' = datagram
          /\ UNCHANGED <<receiveVars, readEpochNr>>
      BY <2>2, <2>4, Zenon DEF ServerIgnores, recordVars, receiveVars, layerVars
    <3>2. OnItsWay(server, toClient', datagram')
      BY <1>2, <3>1
    <3> QED
      BY <1>5, <3>1, <3>2
  <2>5. CASE ServerHelloPhase(d[1])
    <3> DEFINE hvr == HandshakeMessage(Whole(Msg("hello_verify_request", 0, Cookie)))
    <3>1. \/ ServerReplies(Records(0, d[1].sequence_number, <<hvr>>))
          \/ \E n : ServerReplies(Flight4(n))
      BY <2>5, Zenon DEF ServerHelloPhase
    <3>2. Proper(server, hvr)
      BY <2>3
    <3> HIDE DEF hvr
    <3>3. CASE ServerReplies(Records(0, d[1].sequence_number, <<hvr>>))
      BY <1>12, <1>13, <2>2, <3>2, <3>3
    <3>4. CASE \E n : ServerReplies(Flight4(n))
      BY <1>12, <2>2, <3>4, Flight4IsProper
    <3> QED
      BY <3>1, <3>3, <3>4
  <2>6. CASE ServerFinishPhase(d)
    <3>1. \/ ServerReplies(Records(0, srv.next, <<Alert>>))
          \/ \E t :
                /\ ServerReplies(Records(0, srv.next, <<CCS>>) \o
                      Records(1, 0, <<HandshakeMessage(Whole(Msg("finished",
                          FirstSeq + Len(Flight4Types), VerifyData("server", t))))>>))
                /\ srv' = [srv EXCEPT !.phase = "done", !.transcript = t]
      BY <2>6, Zenon DEF ServerFinishPhase
    <3>2. CASE ServerReplies(Records(0, srv.next, <<Alert>>))
      <4>1. Proper(server, Alert)
        BY DEF Proper, IsCcs, Alert
      <4> QED
        BY <1>12, <1>13, <2>2, <3>2, <4>1
    <3>3. ASSUME NEW t,
                 ServerReplies(Records(0, srv.next, <<CCS>>) \o
                   Records(1, 0, <<HandshakeMessage(Whole(Msg("finished",
                       FirstSeq + Len(Flight4Types), VerifyData("server", t))))>>)),
                 srv' = [srv EXCEPT !.phase = "done", !.transcript = t]
          PROVE  /\ OnItsWay(server, toClient', datagram')
                 /\ Passed(server, unmarked', messages')
                 /\ CcsAlone(readEpochNr', datagram', unmarked', messages')
      <4> DEFINE body == VerifyData("server", t)
                 fin == HandshakeMessage(Whole(Msg("finished",
                                           FirstSeq + Len(Flight4Types), body)))
                 first  == Records(0, srv.next, <<CCS>>)
                 second == Records(1, 0, <<fin>>)
      <4>1. server.phase = "done" /\ server.transcript = t
        BY <3>3 DEF SrvInv, ServerFields, server
      <4>2. FirstSeq + Len(Flight4Types) \in Nat
        BY DEF FirstSeq, Flight4Types
      <4>3. Proper(server, fin) /\ ~ IsCcs(fin)
        BY <2>3, <4>1, <4>2, Zenon
      <4>4. Proper(server, CCS)
        BY <4>1 DEF Proper, CCS
      <4> HIDE DEF fin
      <4>5. PICK S1 : first \in Flights(S1) /\ \A r \in S1 : ProperRecord(server, r)
        BY <1>13, <4>4
      <4>6. PICK S2 : /\ second \in Flights(S2) /\ \A r \in S2 : ProperRecord(server, r)
                      /\ NoCcs(second)
        BY <1>13, <4>1, <4>3
      <4>7. ServerReplies(first \o second)
        BY <3>3 DEF fin
      <4> HIDE DEF first, second
      <4>8. first \o second \in Flights(S1 \cup S2)
        BY <4>5, <4>6, ConcatCcs
      <4>9. \A r \in S1 \cup S2 : ProperRecord(server, r)
        BY <4>5, <4>6
      <4> QED
        BY <1>12, <2>2, <4>7, <4>8, <4>9
    <3> QED
      BY <3>1, <3>2, <3>3
  <2> QED
    BY <2>1, <2>4, <2>5, <2>6, Zenon DEF ServerTakes
<1>17. CASE \/ ProcessOutgoing \/ SendDatagram \/ AlertSent \/ Timeout
            \/ UNCHANGED vars
  <2>1. UNCHANGED <<receiveVars, readEpochNr>> /\ UNCHANGED <<toClient, datagram>>
    BY <1>17, Zenon
    DEF ProcessOutgoing, processOutgoingMessage, SendDatagram, Transmit, AlertSent,
        Timeout, recordVars, receiveVars, layerVars, netVars, vars
  <2>2. OnItsWay(server, toClient', datagram')
    BY <1>2, <2>1
  <2> QED
    BY <1>5, <2>1, <2>2
<1> QED
  BY <1>7, <1>8, <1>9, <1>10, <1>11, <1>14, <1>15, <1>16, <1>17, Zenon
  DEF Next, Internal

-----------------------------------------------------------------------------
LEMMA KeysInit == Init => KeysInv /\ SrvInv
<1> SUFFICES ASSUME Init PROVE KeysInv /\ SrvInv
  OBVIOUS
<1> DEFINE hello == Hello(0, NoCookie)
<1>1. /\ epochs = [e \in {0, 1} |-> createEpoch]
      /\ readEpochNr = 0 /\ writeEpochNr = 0
      /\ datagram = <<>> /\ unmarked = <<>> /\ messages = <<>>
      /\ outgoing = Fragments(hello) /\ flight = <<>>
      /\ toServer = <<>> /\ toClient = <<>>
      /\ handshakeFinished = FALSE
      /\ srv = [phase |-> "listen", transcript |-> <<>>, next |-> 0,
                retransmits |-> 0, data |-> 0]
  BY Zenon DEF Init, RecordInit
<1>2. SrvInv
  BY <1>1 DEF SrvInv, ServerFields
<1>3. EpochsInv
  BY <1>1 DEF EpochsInv, EpochShape, createEpoch
<1>4. SwitchInv
  <2>1. srv.phase = "listen"
    BY <1>1
  <2> QED
    BY <1>1, <2>1 DEF SwitchInv
<1>5. SendInv
  <2>1. hello.msg_type # "finished"
    BY DEF Hello, Msg
  <2>2. outgoing = Wire(hello)
    BY <1>1, <2>1, Zenon DEF Wire
  <2> HIDE DEF hello
  <2>3. PICK S : outgoing \in Flights(S) /\ NoCcs(outgoing)
    BY <2>1, <2>2, WireCcs
  <2> DEFINE none == {}
  <2>4. /\ flight \in Seq(none) /\ toServer \in Seq(Seq(none))
        /\ \A r \in none : r.keys # NullKeys => writeEpochNr = 1
    BY <1>1
  <2> HIDE DEF none
  <2>5. SentUnder(writeEpochNr, flight, toServer)
    BY <2>4, Zenon DEF SentUnder
  <2> QED
    BY <1>1, <2>3, <2>5 DEF SendInv
<1>6. PipeInv
  <2> DEFINE none == {}
  <2>1. /\ \A x \in none : ProperRecord(srv, x) /\ Proper(srv, x)
        /\ <<>> \in Flights(none) /\ NoCcs(<<>>)
    BY ShortCcs
  <2> HIDE DEF none
  <2>2. toClient \in Seq(Flights(none))
    BY <1>1
  <2>3. OnItsWay(srv, toClient, datagram)
    BY <1>1, <2>1, <2>2, Zenon DEF OnItsWay
  <2>4. Passed(srv, unmarked, messages)
    BY <1>1, <2>1, Zenon DEF Passed
  <2>5. CcsAlone(readEpochNr, datagram, unmarked, messages)
    BY <1>1, <2>1 DEF CcsAlone
  <2> QED
    BY <2>3, <2>4, <2>5 DEF PipeInv
<1> QED
  BY <1>2, <1>3, <1>4, <1>5, <1>6 DEF KeysInv

LEMMA KeysKeep ==
    ASSUME KeysInv, SrvInv, [Next]_vars
    PROVE  (KeysInv /\ SrvInv)'
<1>1. EpochsInv' /\ SwitchInv'
  BY EpochsNext, SwitchNext
<1>2. SendInv' /\ PipeInv'
  BY SendNext, PipeNext
<1>3. SrvInv'
  BY ServerKept
<1> QED
  BY <1>1, <1>2, <1>3 DEF KeysInv

\* A connected Socket reads and writes under the session keys, whatever the
\* server answers and the network does to the ChangeCipherSpecs and Finisheds of
\* both sides.
THEOREM ConnectedUnderKeys == Spec => []ConnectedIsEncrypted
<1>1. (KeysInv /\ SrvInv) /\ [Next]_vars => (KeysInv /\ SrvInv)'
  BY KeysKeep
<1>2. KeysInv => ConnectedIsEncrypted
  BY DEF KeysInv, SwitchInv, SendInv, ConnectedIsEncrypted
<1> QED
  BY <1>1, <1>2, KeysInit, PTL DEF Spec

-----------------------------------------------------------------------------
(* Types.                                                                   *)

KeptMessage(complete, n) == /\ n \in Nat
                            /\ ~ isFragmented(complete[n])
                            /\ complete[n].message_seq = n

\* What is kept is whole, and kept under its number.
LEMMA StoredWhole ==
    ASSUME PipeInv, messages # <<>>, Head(messages).type = "handshake",
           \A n \in DOMAIN completeMessages : KeptMessage(completeMessages, n)
    PROVE  \A n \in DOMAIN NextStored.complete : KeptMessage(NextStored.complete, n)
<1> DEFINE f == Head(messages).data
           Added == [s \in DOMAIN completeMessages \cup {f.message_seq} |->
                       IF s = f.message_seq THEN Whole(f) ELSE completeMessages[s]]
<1>1. NextStored.complete = Added \/ NextStored.complete = completeMessages
  BY DEF NextStored, Stored
<1>2. f.message_seq \in Nat /\ f.total_length \in Nat
  <2>1. PICK S : messages \in Seq(S) /\ \A m \in S : Proper(srv, m)
    BY DEF PipeInv, Passed, Flights
  <2>2. Proper(srv, Head(messages))
    BY <2>1
  <2> QED
    BY <2>2 DEF Proper
<1>3. ~ isFragmented(Whole(f)) /\ Whole(f).message_seq = f.message_seq
  BY <1>2 DEF Whole, Fragment, isFragmented
<1> HIDE DEF f
<1>4. ASSUME NEW n \in DOMAIN Added
      PROVE  KeptMessage(Added, n)
  <2>1. Added[n] = IF n = f.message_seq THEN Whole(f) ELSE completeMessages[n]
    OBVIOUS
  <2>2. n = f.message_seq \/ n \in DOMAIN completeMessages
    OBVIOUS
  <2> HIDE DEF Added
  <2>3. CASE n = f.message_seq
    <3>1. Added[n] = Whole(f)
      BY <2>1, <2>3
    <3> QED
      BY <1>2, <1>3, <2>3, <3>1 DEF KeptMessage
  <2>4. CASE n # f.message_seq
    <3>1. Added[n] = completeMessages[n] /\ KeptMessage(completeMessages, n)
      BY <2>1, <2>2, <2>4
    <3> QED
      BY <3>1 DEF KeptMessage
  <2> QED
    BY <2>3, <2>4
<1> HIDE DEF Added
<1> QED
  BY <1>1, <1>4

LEMMA TypesNext ==
    ASSUME TypeOK, PipeInv, [Next]_vars
    PROVE  TypeOK'
<1>1. /\ isHandshaking \in BOOLEAN
      /\ handshakeFinished \in BOOLEAN /\ isClosed \in BOOLEAN
      /\ lastProcessedSeqNum \in Nat \cup {-1} /\ lastSentSeqNum \in Nat
      /\ \A n \in DOMAIN completeMessages : KeptMessage(completeMessages, n)
      /\ \/ expectedResponses = Undefined
         \/ expectedResponses \subseteq {"hello_verify_request",
                                         "server_hello_done", "finished"}
  BY DEF TypeOK, KeptMessage
<1>2. /\ isHandshaking' \in BOOLEAN
      /\ handshakeFinished' \in BOOLEAN /\ isClosed' \in BOOLEAN
  <2>1. /\ isHandshaking' \in {isHandshaking, FALSE}
        /\ handshakeFinished' \in {handshakeFinished, TRUE}
        /\ isClosed' \in {isClosed, TRUE}
    BY Zenon
    DEF Next, Internal, Collect, HandleHelloVerifyRequest, HandleServerHelloDone,
        HandleFinished, FinishConnected, FinishThrown, FinishAlert, Kill,
        HandleChangeCipherSpec, HandleFatalAlert, HandleApplicationData, Filter,
        MarkOne, ProcessOutgoing, SendDatagram, ReceiveDatagram, AlertSent,
        Disturb, ServerReceive, ServerRetransmit, ServerSendData, Timeout,
        othersUnchanged, socketVars, handlerVars, vars
  <2> QED
    BY <1>1, <2>1
<1>3. SUFFICES /\ lastProcessedSeqNum' \in Nat \cup {-1} /\ lastSentSeqNum' \in Nat
               /\ \A n \in DOMAIN completeMessages' : KeptMessage(completeMessages', n)
               /\ \/ expectedResponses' = Undefined
                  \/ expectedResponses' \subseteq {"hello_verify_request",
                                                   "server_hello_done", "finished"}
  <2>1. /\ DOMAIN completeMessages' \subseteq Nat
        /\ \A s \in DOMAIN completeMessages' :
              ~ isFragmented(completeMessages'[s]) /\ completeMessages'[s].message_seq = s
    BY <1>3 DEF KeptMessage
  <2> QED
    BY <1>2, <1>3, <2>1 DEF TypeOK, isFragmented
<1>4. ASSUME NEW type, TakeFlight(type)
      PROVE  /\ lastProcessedSeqNum' \in Nat \cup {-1}
             /\ \A n \in DOMAIN completeMessages' : KeptMessage(completeMessages', n)
  <2>1. /\ messages # <<>> /\ Head(messages).type = "handshake"
        /\ completeMessages' = <<>>
    BY <1>4, Zenon DEF TakeFlight, Incoming
  <2>2. PICK last \in DOMAIN NextStored.complete :
            lastProcessedSeqNum' = NextStored.complete[last].message_seq
    BY <1>4, Zenon DEF TakeFlight
  <2>3. KeptMessage(NextStored.complete, last)
    BY <1>1, <2>1, StoredWhole
  <2> QED
    BY <2>1, <2>2, <2>3 DEF KeptMessage
<1>5. CASE HandleHelloVerifyRequest
  <2> DEFINE hello == Hello(lastSentSeqNum + 1, Cookie)
  <2>1. /\ TakeFlight("hello_verify_request")
        /\ lastSentSeqNum' = lastSentSeqNum + Len(<<hello>>)
        /\ expectedResponses' = {"server_hello_done"}
    BY <1>5, Zenon DEF HandleHelloVerifyRequest, sendFlight
  <2> HIDE DEF hello
  <2>2. lastSentSeqNum' \in Nat
    BY <1>1, <2>1
  <2> QED
    BY <1>4, <2>1, <2>2
<1>6. CASE HandleServerHelloDone
  <2>1. /\ TakeFlight("server_hello_done")
        /\ \/ /\ \E a, b : lastSentSeqNum' = lastSentSeqNum + Len(<<a, b>>)
              /\ expectedResponses' = {"finished"}
           \/ lastSentSeqNum' = lastSentSeqNum /\ expectedResponses' = Undefined
    BY <1>6, Zenon DEF HandleServerHelloDone, sendFlight
  <2>2. lastSentSeqNum' \in Nat
    BY <1>1, <2>1
  <2> QED
    BY <1>4, <2>1, <2>2
<1>7. CASE HandleFinished
  <2>1. /\ TakeFlight("finished") /\ expectedResponses' = Undefined
        /\ lastSentSeqNum' = lastSentSeqNum
    BY <1>7, Zenon DEF HandleFinished
  <2> QED
    BY <1>1, <1>4, <2>1
<1>8. CASE Collect
  <2>1. /\ messages # <<>> /\ Head(messages).type = "handshake"
        /\ completeMessages' = NextStored.complete
        /\ UNCHANGED <<lastProcessedSeqNum, lastSentSeqNum, expectedResponses>>
    BY <1>8, Zenon DEF Collect, Incoming
  <2>2. \A n \in DOMAIN NextStored.complete : KeptMessage(NextStored.complete, n)
    BY <1>1, <2>1, StoredWhole
  <2> QED
    BY <1>1, <2>1, <2>2
<1>9. CASE \/ HandleChangeCipherSpec \/ HandleFatalAlert \/ HandleApplicationData
           \/ Filter \/ MarkOne \/ ProcessOutgoing \/ SendDatagram
           \/ ReceiveDatagram \/ AlertSent \/ Disturb \/ ServerReceive
           \/ ServerRetransmit \/ ServerSendData \/ Timeout \/ UNCHANGED vars
  <2>1. UNCHANGED <<lastProcessedSeqNum, lastSentSeqNum, expectedResponses,
                    completeMessages>>
    BY <1>9, Zenon
    DEF HandleChangeCipherSpec, HandleFatalAlert, HandleApplicationData, Filter,
        MarkOne, ProcessOutgoing, SendDatagram, ReceiveDatagram, AlertSent,
        Disturb, ServerReceive, ServerRetransmit, ServerSendData, Timeout,
        othersUnchanged, handlerVars, vars
  <2> QED
    BY <1>1, <2>1
<1> QED
  BY <1>5, <1>6, <1>7, <1>8, <1>9, Zenon DEF Next, Internal

\* The handler's fields keep their types; what it keeps between flights are whole
\* messages, each under its own number.
THEOREM HandshakeTypes == Spec => []TypeOK
<1>1. Init => TypeOK
  <2> SUFFICES ASSUME Init PROVE TypeOK
    OBVIOUS
  <2>1. /\ isHandshaking = TRUE /\ lastProcessedSeqNum = -1 /\ lastSentSeqNum = 0
        /\ completeMessages = <<>> /\ handshakeFinished = FALSE /\ isClosed = FALSE
        /\ expectedResponses = {"server_hello_done", "hello_verify_request"}
    BY Zenon DEF Init
  <2>2. DOMAIN completeMessages = {}
    BY <2>1
  <2>3. expectedResponses \subseteq {"hello_verify_request", "server_hello_done",
                                     "finished"}
    BY <2>1
  <2>4. /\ isHandshaking \in BOOLEAN /\ lastProcessedSeqNum \in Nat \cup {-1}
        /\ handshakeFinished \in BOOLEAN /\ isClosed \in BOOLEAN
        /\ lastSentSeqNum \in Nat
    BY <2>1
  <2> QED
    BY <2>2, <2>3, <2>4 DEF TypeOK
<1>2. (KeysInv /\ SrvInv) /\ [Next]_vars => (KeysInv /\ SrvInv)'
  BY KeysKeep
<1>3. TypeOK /\ KeysInv /\ [Next]_vars => TypeOK'
  BY TypesNext DEF KeysInv
<1> QED
  BY <1>1, <1>2, <1>3, KeysInit, PTL DEF Spec

-----------------------------------------------------------------------------
(* The two ends finish on one transcript.                                   *)

\* A Finished that is kept is over the transcript of a server that is done.
KeptFinished(complete) ==
    \A n \in DOMAIN complete : complete[n].msg_type = "finished" =>
        /\ srv.phase = "done"
        /\ complete[n].body = VerifyData("server", srv.transcript)

FinishInv == /\ \E S : srv.transcript \in Seq(S)
             /\ KeptFinished(completeMessages)

\* What a server that takes a ClientHello hashes first.
LEMMA HelloTaken ==
    ASSUME NEW r, ServerHelloPhase(r), srv' # srv
    PROVE  \E x, y : srv' = [srv EXCEPT !.phase = "negotiating", !.next = x,
               !.transcript = <<y>> \o
                   [i \in DOMAIN Flight4Types |-> Entry(Flight4Messages[i])]]
  BY Zenon DEF ServerHelloPhase

\* The server's transcript is a sequence, and not empty when it is done.
LEMMA TranscriptNext ==
    ASSUME SrvInv, [Next]_vars, \E S : srv.transcript \in Seq(S)
    PROVE  /\ \E S : srv'.transcript \in Seq(S)
           /\ srv.phase # "done" /\ srv'.phase = "done" => srv'.transcript # <<>>
<1>1. CASE srv' = srv
  BY <1>1
<1>2. CASE ServerReceive
  <2>1. PICK n \in DOMAIN toServer :
            ServerTakes(toServer[n]) \/ ServerIgnores(toServer[n])
    BY <1>2, Zenon DEF ServerReceive
  <2>2. ASSUME NEW r, ServerHelloPhase(r), srv' # srv
        PROVE  /\ \E S : srv'.transcript \in Seq(S)
               /\ srv'.phase # "done"
    <3> DEFINE rest == [i \in DOMAIN Flight4Types |-> Entry(Flight4Messages[i])]
    <3>1. PICK x, y : srv' = [srv EXCEPT !.phase = "negotiating", !.next = x,
                                         !.transcript = <<y>> \o rest]
      BY <2>2, HelloTaken
    <3> DEFINE T == {y} \cup {rest[i] : i \in DOMAIN Flight4Types}
    <3>2. DOMAIN Flight4Types = 1 .. Len(Flight4Types) /\ Len(Flight4Types) \in Nat
      <4>1. CASE scenario.hint
        <5>1. Flight4Types =
                  <<"server_hello", "server_key_exchange", "server_hello_done">>
          BY <4>1, Zenon DEF Flight4Types
        <5> QED
          BY <5>1
      <4>2. CASE ~ scenario.hint
        <5>1. Flight4Types = <<"server_hello", "server_hello_done">>
          BY <4>2, Zenon DEF Flight4Types
        <5> QED
          BY <5>1
      <4> QED
        BY <4>1, <4>2
    <3>3. rest = [i \in 1 .. Len(Flight4Types) |-> rest[i]]
      BY <3>2
    <3>4. \A i \in 1 .. Len(Flight4Types) : rest[i] \in T
      BY <3>2
    <3>5. <<y>> \in Seq(T)
      <4>1. y \in T
        OBVIOUS
      <4> HIDE DEF T
      <4> QED
        BY <4>1
    <3> HIDE DEF rest, T
    <3>6. rest \in Seq(T)
      BY <3>2, <3>3, <3>4, IsASeq
    <3>7. <<y>> \o rest \in Seq(T)
      BY <3>5, <3>6, ConcatProperties
    <3>8. srv'.transcript = <<y>> \o rest /\ srv'.phase = "negotiating"
      BY <3>1 DEF SrvInv, ServerFields
    <3> QED
      BY <3>7, <3>8
  <2>3. ASSUME NEW d, ServerFinishPhase(d)
        PROVE  /\ \E S : srv'.transcript \in Seq(S)
               /\ srv'.phase = "done" => srv'.transcript # <<>>
    <3>1. \/ \E x, y : srv' = [srv EXCEPT !.phase = "done",
                          !.transcript = Append(Append(srv.transcript, x), y)]
          \/ srv' = [srv EXCEPT !.phase = "failed"]
      BY <2>3, Zenon DEF ServerFinishPhase
    <3>2. CASE srv' = [srv EXCEPT !.phase = "failed"]
      BY <3>2 DEF SrvInv, ServerFields
    <3>3. ASSUME NEW x, NEW y, srv' = [srv EXCEPT !.phase = "done",
                              !.transcript = Append(Append(srv.transcript, x), y)]
          PROVE  /\ \E S : srv'.transcript \in Seq(S)
                 /\ srv'.transcript # <<>>
      <4> DEFINE t == Append(Append(srv.transcript, x), y)
      <4>1. srv'.transcript = t
        BY <3>3 DEF SrvInv, ServerFields
      <4>2. PICK S : srv.transcript \in Seq(S)
        OBVIOUS
      <4> DEFINE T == S \cup {x, y}
      <4>3. srv.transcript \in Seq(T) /\ x \in T /\ y \in T
        BY <4>2
      <4> HIDE DEF T
      <4>4. t \in Seq(T) /\ t # <<>>
        BY <4>3
      <4> HIDE DEF t
      <4> QED
        BY <4>1, <4>4
    <3> QED
      BY <3>1, <3>2, <3>3
  <2> QED
    BY <1>1, <2>1, <2>2, <2>3, Zenon DEF ServerTakes, ServerIgnores
<1>3. CASE ServerRetransmit \/ ServerSendData
  <2>1. \E x, y, z : \/ srv' = [srv EXCEPT !.retransmits = x, !.next = y]
                    \/ srv' = [srv EXCEPT !.data = z]
    BY <1>3, Zenon DEF ServerRetransmit, ServerSendData
  <2> QED
    BY <2>1 DEF SrvInv, ServerFields
<1>4. CASE Internal \/ ReceiveDatagram \/ AlertSent \/ Disturb \/ Timeout
           \/ UNCHANGED vars
  <2>1. UNCHANGED serverVars
    BY <1>4, Zenon
    DEF Internal, Collect, HandleHelloVerifyRequest, HandleServerHelloDone,
        HandleFinished, HandleChangeCipherSpec, HandleFatalAlert,
        HandleApplicationData, Filter, MarkOne, ProcessOutgoing, SendDatagram,
        ReceiveDatagram, AlertSent, Disturb, Timeout, othersUnchanged, vars
  <2> QED
    BY <1>1, <2>1, Zenon DEF serverVars
<1> QED
  BY <1>2, <1>3, <1>4, Zenon DEF Next

\* Storing a message, or the one its fragment completes, keeps that.
LEMMA StoredFinished ==
    ASSUME PipeInv, messages # <<>>, Head(messages).type = "handshake",
           KeptFinished(completeMessages)
    PROVE  KeptFinished(NextStored.complete)
<1> DEFINE f == Head(messages).data
           Added == [s \in DOMAIN completeMessages \cup {f.message_seq} |->
                       IF s = f.message_seq THEN Whole(f) ELSE completeMessages[s]]
<1>1. NextStored.complete = Added \/ NextStored.complete = completeMessages
  BY DEF NextStored, Stored
<1>2. f.msg_type = "finished" =>
          /\ srv.phase = "done"
          /\ f.body = VerifyData("server", srv.transcript)
  <2>1. PICK S : messages \in Seq(S) /\ \A m \in S : Proper(srv, m)
    BY DEF PipeInv, Passed, Flights
  <2>2. Proper(srv, Head(messages))
    BY <2>1
  <2> QED
    BY <2>2, Zenon DEF Proper
<1>3. Whole(f).msg_type = f.msg_type /\ Whole(f).body = f.body
  BY DEF Whole, Fragment
<1> HIDE DEF f
<1>4. ASSUME NEW n \in DOMAIN Added, Added[n].msg_type = "finished"
      PROVE  /\ srv.phase = "done"
             /\ Added[n].body = VerifyData("server", srv.transcript)
  <2>1. \/ Added[n] = Whole(f)
        \/ n \in DOMAIN completeMessages /\ Added[n] = completeMessages[n]
    OBVIOUS
  <2> HIDE DEF Added
  <2> QED
    BY <1>2, <1>3, <1>4, <2>1, Zenon DEF KeptFinished
<1> HIDE DEF Added
<1> QED
  BY <1>1, <1>4, Zenon DEF KeptFinished

LEMMA FinishNext ==
    ASSUME FinishInv, KeysInv, SrvInv, [Next]_vars
    PROVE  FinishInv'
<1>1. DoneStays /\ PipeInv
  BY TranscriptKept DEF KeysInv
<1>2. \E S : srv'.transcript \in Seq(S)
  BY TranscriptNext DEF FinishInv
<1>3. \A complete : KeptFinished(complete) =>
          \A n \in DOMAIN complete : complete[n].msg_type = "finished" =>
              /\ srv'.phase = "done"
              /\ complete[n].body = VerifyData("server", srv'.transcript)
  BY <1>1 DEF KeptFinished, DoneStays
<1>4. KeptFinished(completeMessages)
  BY DEF FinishInv
<1>5. \/ completeMessages' = completeMessages
      \/ DOMAIN completeMessages' = {}
      \/ KeptFinished(completeMessages')
  <2>1. ASSUME NEW type, TakeFlight(type) PROVE DOMAIN completeMessages' = {}
    <3>1. completeMessages' = <<>>
      BY <2>1, Zenon DEF TakeFlight
    <3> QED
      BY <3>1
  <2>2. CASE \/ HandleHelloVerifyRequest \/ HandleServerHelloDone \/ HandleFinished
    BY <2>1, <2>2, Zenon
    DEF HandleHelloVerifyRequest, HandleServerHelloDone, HandleFinished
  <2>3. CASE Collect
    <3>1. /\ messages # <<>> /\ Head(messages).type = "handshake"
          /\ completeMessages' = NextStored.complete
      BY <2>3, Zenon DEF Collect, Incoming
    <3>2. /\ KeptFinished(NextStored.complete)
      BY <1>1, <1>4, <3>1, StoredFinished
    <3>3. UNCHANGED srv
      BY <2>3, Zenon DEF Collect, serverVars
    <3> QED
      BY <3>1, <3>2
  <2>4. CASE \/ HandleChangeCipherSpec \/ HandleFatalAlert \/ HandleApplicationData
             \/ Filter \/ MarkOne \/ ProcessOutgoing \/ SendDatagram
             \/ ReceiveDatagram \/ AlertSent \/ Disturb \/ ServerReceive
             \/ ServerRetransmit \/ ServerSendData \/ Timeout \/ UNCHANGED vars
    <3>1. completeMessages' = completeMessages
      BY <2>4, Zenon
      DEF HandleChangeCipherSpec, HandleFatalAlert, HandleApplicationData, Filter,
          MarkOne, ProcessOutgoing, SendDatagram, ReceiveDatagram, AlertSent,
          Disturb, ServerReceive, ServerRetransmit, ServerSendData, Timeout,
          othersUnchanged, handlerVars, vars
    <3> QED
      BY <3>1
  <2> QED
    BY <2>2, <2>3, <2>4, Zenon DEF Next, Internal
<1>6. \A n \in DOMAIN completeMessages' : completeMessages'[n].msg_type = "finished" =>
          /\ srv'.phase = "done"
          /\ completeMessages'[n].body = VerifyData("server", srv'.transcript)
  BY <1>3, <1>4, <1>5, Zenon
<1> QED
  BY <1>2, <1>6 DEF FinishInv, KeptFinished, VerifyData

\* The Finished that ends a flight is over the server's transcript.
LEMMA FinishedOfServer ==
    ASSUME FinishInv, TypeOK, PipeInv, TakeFlight("finished")
    PROVE  /\ srv.phase = "done"
           /\ Last(CurrentFlight).body = VerifyData("server", srv.transcript)
<1>1. /\ messages # <<>> /\ Head(messages).type = "handshake"
      /\ \E last \in DOMAIN NextStored.complete :
            /\ DOMAIN NextStored.complete = lastProcessedSeqNum + 1 .. last
            /\ NextStored.complete[last].msg_type = "finished"
  BY Zenon DEF TakeFlight, Incoming, FlightEndsAt
<1> DEFINE complete == NextStored.complete
<1>2. PICK last \in DOMAIN complete :
          /\ DOMAIN complete = lastProcessedSeqNum + 1 .. last
          /\ complete[last].msg_type = "finished"
  BY <1>1
<1>3. lastProcessedSeqNum \in Int
  BY DEF TypeOK
<1>4. KeptFinished(complete)
  BY <1>1, StoredFinished DEF FinishInv
<1>5. CurrentFlight = [i \in 1 .. Cardinality(DOMAIN complete) |->
                          complete[lastProcessedSeqNum + i]]
  BY Zenon DEF CurrentFlight, FlightMessages
<1> HIDE DEF complete
<1>6. last \in Int /\ lastProcessedSeqNum + 1 <= last
  BY <1>2, <1>3
<1>7. Cardinality(DOMAIN complete) = last - lastProcessedSeqNum
  BY <1>2, <1>3, <1>6, FS_Interval
<1>8. Len(CurrentFlight) = last - lastProcessedSeqNum
  BY <1>3, <1>5, <1>6, <1>7
<1>9. Last(CurrentFlight) = complete[last]
  BY <1>3, <1>5, <1>6, <1>7, <1>8 DEF Last
<1> QED
  BY <1>2, <1>4, <1>9 DEF KeptFinished

\* A handshake that succeeds does so on the server's transcript.
LEMMA FinishedTogether ==
    ASSUME FinishInv, TypeOK, PipeInv, Settled, HandleFinished,
           handshakeFinished' # handshakeFinished
    PROVE  Front(allHandshakeData') = srv.transcript
<1> DEFINE hashed == allHandshakeData \o Entries(Front(CurrentFlight))
           fin    == Last(CurrentFlight)
<1>1. /\ TakeFlight("finished")
      /\ fin.body = VerifyData("server", hashed)
      /\ allHandshakeData' = Append(hashed, Entry(fin))
  BY Zenon DEF HandleFinished, FinishThrown, FinishAlert
<1>2. fin.body = VerifyData("server", srv.transcript)
  BY <1>1, FinishedOfServer
<1>3. hashed = srv.transcript
  BY <1>1, <1>2 DEF VerifyData
<1>4. PICK S : srv.transcript \in Seq(S)
  BY DEF FinishInv
<1>5. ASSUME NEW t \in Seq(S), NEW e
      PROVE  Front(Append(t, e)) = t
  BY <1>5 DEF Front
<1> HIDE DEF hashed
<1> QED
  BY <1>1, <1>3, <1>4, <1>5

\* Of the two ends one moves at a time.
LEMMA MutualNext ==
    ASSUME VerdictInv, VerdictInv', FinishInv, KeysInv, TypeOK, [Next]_vars
    PROVE  [Mutual!Next]_(Mutual!vars)
<1>1. /\ SrvInv /\ Settled /\ Settled' /\ PipeInv
      /\ DoneStays /\ Kept
  BY TranscriptKept, ServerKept DEF VerdictInv, KeysInv
<1>2. /\ handshakeFinished \in BOOLEAN /\ handshakeFinished' \in {handshakeFinished, TRUE}
      /\ isClosed \in BOOLEAN /\ isClosed' \in {isClosed, TRUE}
  <2>1. /\ handshakeFinished' \in {handshakeFinished, TRUE}
        /\ isClosed' \in {isClosed, TRUE}
    BY Zenon
    DEF Next, Internal, Collect, HandleHelloVerifyRequest, HandleServerHelloDone,
        HandleFinished, FinishConnected, FinishThrown, FinishAlert, Kill,
        HandleChangeCipherSpec, HandleFatalAlert, HandleApplicationData, Filter,
        MarkOne, ProcessOutgoing, SendDatagram, ReceiveDatagram, AlertSent,
        Disturb, ServerReceive, ServerRetransmit, ServerSendData, Timeout,
        othersUnchanged, socketVars, vars
  <2> QED
    BY <2>1 DEF TypeOK
<1>3. CASE ServerReceive \/ ServerRetransmit \/ ServerSendData
  <2>1. UNCHANGED <<handshakeFinished, isClosed, allHandshakeData>>
    BY <1>3, Zenon
    DEF ServerReceive, ServerRetransmit, ServerSendData, handlerVars, socketVars
  <2>2. CASE srv.phase \in {"done", "failed"}
    BY <1>1, <2>1, <2>2 DEF Mutual!vars, DoneStays, Kept
  <2>3. CASE srv.phase \notin {"done", "failed"} /\ srv'.phase = "done"
    <3>1. srv'.transcript # <<>>
      BY <1>1, <2>3, TranscriptNext DEF FinishInv
    <3>2. Mutual!ServerFinishes
      BY <2>1, <2>3, <3>1 DEF Mutual!ServerFinishes
    <3> QED
      BY <3>2 DEF Mutual!Next
  <2>4. CASE srv.phase \notin {"done", "failed"} /\ srv'.phase = "failed"
    <3>1. Mutual!ServerFails
      BY <2>1, <2>4 DEF Mutual!ServerFails
    <3> QED
      BY <3>1 DEF Mutual!Next
  <2>5. CASE srv.phase \notin {"done", "failed"} /\ srv'.phase \notin {"done", "failed"}
    BY <2>1, <2>5 DEF Mutual!vars
  <2> QED
    BY <2>2, <2>3, <2>4, <2>5
<1>4. CASE Internal \/ ReceiveDatagram \/ AlertSent \/ Disturb \/ Timeout
           \/ UNCHANGED vars
  <2>1. srv' = srv
    BY <1>4, Zenon
    DEF Internal, Collect, HandleHelloVerifyRequest, HandleServerHelloDone,
        HandleFinished, HandleChangeCipherSpec, HandleFatalAlert,
        HandleApplicationData, Filter, MarkOne, ProcessOutgoing, SendDatagram,
        ReceiveDatagram, AlertSent, Disturb, Timeout, othersUnchanged,
        serverVars, vars
  <2>2. CASE handshakeFinished
    <3>1. expectedResponses = Undefined
      BY <1>1, <2>2, Zenon DEF Settled
    <3>2. allHandshakeData' = allHandshakeData
      <4>1. ASSUME NEW type PROVE ~ TakeFlight(type)
        BY <3>1, Zenon DEF TakeFlight, FlightEndsAt
      <4> QED
        BY <1>4, <4>1, Zenon
        DEF Internal, Collect, HandleHelloVerifyRequest, HandleServerHelloDone,
            HandleFinished, HandleChangeCipherSpec, HandleFatalAlert,
            HandleApplicationData, Filter, MarkOne, ProcessOutgoing, SendDatagram,
            ReceiveDatagram, AlertSent, Disturb, Timeout, othersUnchanged,
            handlerVars, vars
    <3> QED
      BY <1>2, <2>1, <2>2, <3>2 DEF Mutual!vars
  <2>3. CASE ~ handshakeFinished /\ handshakeFinished'
    <3>1. HandleFinished
      BY <1>4, <2>3, Zenon
      DEF Internal, Collect, HandleHelloVerifyRequest, HandleServerHelloDone,
          FinishThrown, FinishAlert, HandleChangeCipherSpec, HandleFatalAlert,
          HandleApplicationData, Filter, MarkOne, ProcessOutgoing, SendDatagram,
          ReceiveDatagram, AlertSent, Disturb, Timeout, othersUnchanged,
          socketVars, vars
    <3>2. Front(allHandshakeData') = srv.transcript
      BY <1>1, <2>3, <3>1, FinishedTogether
    <3>3. ~ isClosed /\ srv.phase = "done"
      BY <1>1, <1>2, <2>1, <2>3 DEF Settled
    <3>4. Mutual!ClientFinishes
      BY <2>1, <2>3, <3>2, <3>3 DEF Mutual!ClientFinishes
    <3> QED
      BY <3>4 DEF Mutual!Next
  <2>4. CASE ~ handshakeFinished /\ ~ handshakeFinished' /\ isClosed' /\ ~ isClosed
    <3>1. Mutual!ClientFails
      BY <2>1, <2>4 DEF Mutual!ClientFails
    <3> QED
      BY <3>1 DEF Mutual!Next
  <2>5. CASE ~ handshakeFinished /\ ~ handshakeFinished' /\ isClosed' = isClosed
    BY <2>1, <2>5 DEF Mutual!vars
  <2> QED
    BY <1>2, <2>2, <2>3, <2>4, <2>5
<1> QED
  BY <1>3, <1>4 DEF Next

\* The client finishes after the server only, and on the transcript the server
\* finished on, whatever is lost, repeated or overtaken.
THEOREM MutuallyFinished == Spec => FinishesMutually
<1>1. Init => Mutual!Init
  <2> SUFFICES ASSUME Init PROVE Mutual!Init
    OBVIOUS
  <2>1. /\ handshakeFinished = FALSE /\ isClosed = FALSE
        /\ srv.phase = "listen"
    BY DEF Init
  <2> QED
    BY <2>1 DEF Mutual!Init
<1>2. Init => FinishInv
  <2> SUFFICES ASSUME Init PROVE FinishInv
    OBVIOUS
  <2>1. srv.transcript = <<>> /\ completeMessages = <<>>
    BY DEF Init
  <2>2. DOMAIN completeMessages = {} /\ \A S : <<>> \in Seq(S)
    BY <2>1
  <2> QED
    BY <2>1, <2>2, Zenon DEF FinishInv, KeptFinished
<1>3. (KeysInv /\ SrvInv) /\ [Next]_vars => (KeysInv /\ SrvInv)'
  BY KeysKeep
<1>4. FinishInv /\ (KeysInv /\ SrvInv) /\ [Next]_vars => FinishInv'
  BY FinishNext
<1>5. VerdictInv /\ VerdictInv' /\ FinishInv /\ (KeysInv /\ SrvInv) /\ TypeOK
          /\ [Next]_vars => [Mutual!Next]_(Mutual!vars)
  BY MutualNext
<1> QED
  BY <1>1, <1>2, <1>3, <1>4, <1>5, KeysInit, HandshakeTypes, VerdictInit,
     VerdictKept, PTL DEF Spec, Mutual!Spec, FinishesMutually

-----------------------------------------------------------------------------
(* What the server sends.                                                   *)

\* The numbers of the first and the last message of flight 4, and the type of
\* the server's message with a number.
FirstOf(plan) == IF plan.cookie THEN 1 ELSE 0
LastOf(plan)  == FirstOf(plan) + (IF plan.hint THEN 2 ELSE 1)

TypeAt(plan, n) ==
    IF n < FirstOf(plan) THEN "hello_verify_request"
    ELSE IF n = FirstOf(plan) THEN "server_hello"
    ELSE IF n < LastOf(plan) THEN "server_key_exchange"
    ELSE IF n = LastOf(plan) THEN "server_hello_done" ELSE "finished"

\* A fragment, or a whole message, of the server.
OfServer(plan, f) ==
    /\ f.message_seq \in 0 .. LastOf(plan) + 1
    /\ f.msg_type = TypeAt(plan, f.message_seq)
    /\ f.total_length = LengthOf(f.msg_type)
    /\ f.fragment_offset \in Nat

\* A server that has sent it is in one of the phases after that.
Came(plan, phase, f) ==
    /\ OfServer(plan, f)
    /\ f.message_seq >= FirstOf(plan) => phase # "listen"
    /\ f.message_seq > LastOf(plan) => phase = "done"

LEMMA PlanNumbers ==
    ASSUME NEW plan
    PROVE  /\ FirstOf(plan) \in {0, 1}
           /\ FirstOf(plan) = 1 <=> plan.cookie
           /\ LastOf(plan) \in {FirstOf(plan) + 1, FirstOf(plan) + 2}
           /\ LastOf(plan) = FirstOf(plan) + 2 <=> plan.hint
  BY DEF FirstOf, LastOf

LEMMA TypeNumbers ==
    ASSUME NEW plan, NEW n \in 0 .. LastOf(plan) + 1
    PROVE  /\ TypeAt(plan, n) = "hello_verify_request" <=> n < FirstOf(plan)
           /\ TypeAt(plan, n) = "server_hello" <=> n = FirstOf(plan)
           /\ TypeAt(plan, n) = "server_hello_done" <=> n = LastOf(plan)
           /\ TypeAt(plan, n) = "finished" <=> n = LastOf(plan) + 1
           /\ TypeAt(plan, n) \notin {"client_hello", "hello_request"}
<1> DEFINE a == FirstOf(plan)
           b == LastOf(plan)
<1>1. a \in {0, 1} /\ b \in {a + 1, a + 2}
  BY PlanNumbers
<1>2. TypeAt(plan, n) = IF n < a THEN "hello_verify_request"
                        ELSE IF n = a THEN "server_hello"
                        ELSE IF n < b THEN "server_key_exchange"
                        ELSE IF n = b THEN "server_hello_done" ELSE "finished"
  BY Zenon DEF TypeAt
<1>3. n \in Int /\ n <= b + 1
  BY <1>1
<1> HIDE DEF a, b
<1>4. /\ TypeAt(plan, n) = "hello_verify_request" <=> n < a
      /\ TypeAt(plan, n) = "server_hello" <=> n = a
      /\ TypeAt(plan, n) = "server_hello_done" <=> n = b
      /\ TypeAt(plan, n) = "finished" <=> n = b + 1
      /\ TypeAt(plan, n) \notin {"client_hello", "hello_request"}
  BY <1>1, <1>2, <1>3
<1> QED
  BY <1>4 DEF a, b

\* The fragments of a message have its header, and the first of them only
\* begins it.
LEMMA FragmentsBegin ==
    ASSUME NEW m, m.total_length \in Nat
    PROVE  /\ \E F : FragmentsOf(m) \in Seq(F)
           /\ \A k \in DOMAIN FragmentsOf(m) :
                 /\ SameHeader(FragmentsOf(m)[k], m)
                 /\ FragmentsOf(m)[k].fragment_offset \in Nat
                 /\ FragmentsOf(m)[k].fragment_offset = 0 => k = 1
<1>0. \E F : FragmentsOf(m) \in Seq(F)
  BY FragmentsKeepHeader
<1>1. CASE m.total_length = 0
  <2>1. FragmentsOf(m) = <<Whole(m)>> /\ SameHeader(Whole(m), m)
        /\ Whole(m).fragment_offset = 0
    BY <1>1 DEF FragmentsOf, Whole, Fragment, SameHeader
  <2> QED
    BY <1>0, <2>1
<1>2. CASE m.total_length # 0
  <2> DEFINE K == (m.total_length + MTU - 1) \div MTU
             part(k) == Fragment(m, (k - 1) * MTU,
                                 Shorter(MTU, m.total_length - (k - 1) * MTU))
  <2>1. FragmentsOf(m) = [k \in 1 .. K |-> part(k)]
    BY <1>2, Zenon DEF FragmentsOf
  <2>2. ASSUME NEW k \in Int, k >= 1
        PROVE  /\ SameHeader(part(k), m)
               /\ part(k).fragment_offset \in Nat
               /\ part(k).fragment_offset = 0 => k = 1
    <3>1. SameHeader(part(k), m) /\ part(k).fragment_offset = (k - 1) * MTU
      BY DEF Fragment, SameHeader
    <3>2. \A a \in Nat, b \in Nat \ {0} : a * b \in Nat /\ (a * b = 0 => a = 0)
      BY SMTT(30)
    <3>3. k - 1 \in Nat
      BY <2>2
    <3>4. (k - 1) * MTU \in Nat /\ ((k - 1) * MTU = 0 => k - 1 = 0)
      BY <3>2, <3>3, MTUAssumption
    <3> HIDE DEF part
    <3> QED
      BY <2>2, <3>1, <3>4
  <2> HIDE DEF part, K
  <2>3. \A k \in DOMAIN FragmentsOf(m) :
            k \in Int /\ k >= 1 /\ FragmentsOf(m)[k] = part(k)
    <3>1. DOMAIN FragmentsOf(m) = 1 .. K
      BY <2>1
    <3> QED
      BY <2>1, <3>1
  <2> QED
    BY <1>0, <2>2, <2>3
<1> QED
  BY <1>1, <1>2

\* Flight 4 is made of handshake fragments numbered in one go.  Each of its
\* messages begins once, and the ServerHello with the first record.
LEMMA Flight4Content ==
    ASSUME NEW n
    PROVE  LET F    == Flight4(n)
               Starts(i) == F[i].data.fragment_offset = 0
           IN  /\ \E R : F \in Seq(R)
               /\ \A i \in DOMAIN F :
                     /\ F[i].epoch = 0 /\ F[i].sequence_number = n + i - 1
                     /\ OfServer(scenario, F[i].data)
                     /\ F[i].data.message_seq >= FirstOf(scenario)
                     /\ F[i].data.message_seq <= LastOf(scenario)
                     /\ Starts(i) /\ F[i].data.message_seq = FirstOf(scenario)
                           => i = 1
               /\ \A i, j \in DOMAIN F :
                     Starts(i) /\ Starts(j)
                         /\ F[i].data.message_seq = F[j].data.message_seq => i = j
<1> DEFINE a == FirstOf(scenario)
           z == LastOf(scenario)
           m1 == Flight4Messages[1]
           m2 == Flight4Messages[2]
           m3 == Last(Flight4Messages)
<1>1. a \in {0, 1} /\ z \in {a + 1, a + 2} /\ (z = a + 2 <=> scenario.hint)
  BY PlanNumbers DEF a, z
<1>2. FirstSeq = a
  BY DEF FirstSeq, FirstOf
<1>3. /\ m1.message_seq = a /\ m1.msg_type = "server_hello"
      /\ m3.message_seq = z /\ m3.msg_type = "server_hello_done"
      /\ scenario.hint => m2.message_seq = a + 1 /\ m2.msg_type = "server_key_exchange"
      /\ \A m \in {m1, m3} : m.total_length = LengthOf(m.msg_type)
      /\ scenario.hint => m2.total_length = LengthOf(m2.msg_type)
  <2>1. CASE scenario.hint
    <3>1. Flight4Types = <<"server_hello", "server_key_exchange", "server_hello_done">>
      BY <2>1, Zenon DEF Flight4Types
    <3>2. z = a + 2
      BY <1>1, <2>1
    <3> HIDE DEF a, z
    <3> QED
      BY <1>1, <1>2, <2>1, <3>1, <3>2 DEF Flight4Messages, Msg, Last
  <2>2. CASE ~ scenario.hint
    <3>1. Flight4Types = <<"server_hello", "server_hello_done">>
      BY <2>2, Zenon DEF Flight4Types
    <3>2. z = a + 1
      BY <1>1, <2>2
    <3> HIDE DEF a, z
    <3> QED
      BY <1>1, <1>2, <2>2, <3>1, <3>2 DEF Flight4Messages, Msg, Last
  <2> QED
    BY <2>1, <2>2
<1> DEFINE Of(f, q, t) == /\ f.message_seq = q /\ f.msg_type = t
                          /\ f.total_length = LengthOf(t) /\ f.fragment_offset \in Nat
           hello == FragmentsOf(m1)
           hint  == IF scenario.hint THEN FragmentsOf(m2) ELSE <<>>
           done  == FragmentsOf(m3)
           frags == hello \o hint \o done
<1>4. \A t : LengthOf(t) \in Nat
  BY DEF LengthOf
<1>5. ASSUME NEW m, NEW q, NEW t, m.message_seq = q, m.msg_type = t,
             m.total_length = LengthOf(t)
      PROVE  /\ \E F : FragmentsOf(m) \in Seq(F)
             /\ \A k \in DOMAIN FragmentsOf(m) :
                   /\ Of(FragmentsOf(m)[k], q, t)
                   /\ FragmentsOf(m)[k].fragment_offset = 0 => k = 1
  <2>1. m.total_length \in Nat
    BY <1>4, <1>5
  <2>2. /\ \E F : FragmentsOf(m) \in Seq(F)
        /\ \A k \in DOMAIN FragmentsOf(m) :
              /\ SameHeader(FragmentsOf(m)[k], m)
              /\ FragmentsOf(m)[k].fragment_offset \in Nat
              /\ FragmentsOf(m)[k].fragment_offset = 0 => k = 1
    BY <2>1, FragmentsBegin
  <2> QED
    BY <1>5, <2>2 DEF SameHeader
<1> HIDE DEF m1, m2, m3, a, z
<1>6. /\ \E F : hello \in Seq(F)
      /\ \A k \in DOMAIN hello : /\ Of(hello[k], a, "server_hello")
                                 /\ hello[k].fragment_offset = 0 => k = 1
  BY <1>3, <1>5
<1>7. /\ \E F : done \in Seq(F)
      /\ \A k \in DOMAIN done : /\ Of(done[k], z, "server_hello_done")
                                /\ done[k].fragment_offset = 0 => k = 1
  BY <1>3, <1>5
<1>8. /\ \E F : hint \in Seq(F)
      /\ \A k \in DOMAIN hint : /\ Of(hint[k], a + 1, "server_key_exchange")
                                /\ hint[k].fragment_offset = 0 => k = 1
                                /\ z = a + 2
  <2>1. CASE scenario.hint
    BY <1>1, <1>3, <1>5, <2>1
  <2>2. CASE ~ scenario.hint
    <3>1. hint = <<>>
      BY <2>2, Zenon
    <3> HIDE DEF hint
    <3>2. hint \in Seq({}) /\ DOMAIN hint = {}
      BY <3>1
    <3> QED
      BY <3>2
  <2> QED
    BY <2>1, <2>2
<1>9. Flight4(n) = Records(0, n, [i \in DOMAIN frags |-> HandshakeMessage(frags[i])])
  BY Zenon DEF Flight4, m1, m2, m3
<1> HIDE DEF hello, hint, done
<1>10. PICK A, B, C : hello \in Seq(A) /\ hint \in Seq(B) /\ done \in Seq(C)
  BY <1>6, <1>7, <1>8
<1>11. PICK la \in Nat, lb \in Nat, lc \in Nat :
          la = Len(hello) /\ lb = Len(hint) /\ lc = Len(done)
  BY <1>10
<1> DEFINE U == A \cup B \cup C
<1>12. hello \in Seq(U) /\ hint \in Seq(U) /\ done \in Seq(U)
  BY <1>10
<1> HIDE DEF U
<1>13. /\ frags \in Seq(U) /\ DOMAIN frags = 1 .. la + lb + lc
       /\ \A i \in 1 .. la + lb + lc :
             \/ i <= la /\ i \in DOMAIN hello /\ frags[i] = hello[i]
             \/ i > la /\ i <= la + lb /\ i - la \in DOMAIN hint /\ frags[i] = hint[i - la]
             \/ i > la + lb /\ i - la - lb \in DOMAIN done
                  /\ frags[i] = done[i - la - lb]
  BY <1>11, <1>12
<1> DEFINE Place(i) ==
        \/ Of(frags[i], a, "server_hello") /\ (frags[i].fragment_offset = 0 => i = 1)
        \/ /\ Of(frags[i], a + 1, "server_key_exchange") /\ z = a + 2
           /\ frags[i].fragment_offset = 0 => i = la + 1
        \/ /\ Of(frags[i], z, "server_hello_done")
           /\ frags[i].fragment_offset = 0 => i = la + lb + 1
<1>14. ASSUME NEW i \in 1 .. la + lb + lc
       PROVE  Place(i)
  <2> HIDE DEF frags
  <2>1. CASE i <= la /\ i \in DOMAIN hello /\ frags[i] = hello[i]
    BY <1>6, <2>1
  <2>2. CASE i > la /\ i - la \in DOMAIN hint /\ frags[i] = hint[i - la]
    <3>1. /\ Of(hint[i - la], a + 1, "server_key_exchange") /\ z = a + 2
          /\ hint[i - la].fragment_offset = 0 => i - la = 1
      BY <1>8, <2>2
    <3> QED
      BY <2>2, <3>1, <1>11
  <2>3. CASE i - la - lb \in DOMAIN done /\ frags[i] = done[i - la - lb]
    <3>1. /\ Of(done[i - la - lb], z, "server_hello_done")
          /\ done[i - la - lb].fragment_offset = 0 => i - la - lb = 1
      BY <1>7, <2>3
    <3> QED
      BY <2>3, <3>1, <1>11
  <2> QED
    BY <1>13, <2>1, <2>2, <2>3
<1>15. PICK N, frs : N \in Nat /\ frs = frags /\ N = la + lb + lc
  <2>1. la + lb + lc \in Nat
    BY <1>11
  <2> HIDE DEF frags
  <2> QED
    BY <2>1
<1>16. ASSUME NEW i \in 1 .. N
       PROVE  /\ OfServer(scenario, frs[i])
              /\ frs[i].message_seq >= a /\ frs[i].message_seq <= z
              /\ frs[i].fragment_offset = 0 /\ frs[i].message_seq = a => i = 1
  <2>1. Place(i)
    BY <1>14, <1>15
  <2> HIDE DEF frags
  <2>2. /\ frs[i].message_seq \in {a, a + 1, z}
        /\ frs[i].fragment_offset \in Nat
        /\ frs[i].total_length = LengthOf(frs[i].msg_type)
        /\ frs[i].message_seq = a => frs[i].msg_type = "server_hello"
        /\ frs[i].message_seq = z => frs[i].msg_type = "server_hello_done"
        /\ frs[i].message_seq = a + 1 /\ z # a + 1
              => frs[i].msg_type = "server_key_exchange"
        /\ frs[i].fragment_offset = 0 /\ frs[i].message_seq = a => i = 1
    BY <1>1, <1>15, <2>1
  <2>3. frs[i].msg_type = TypeAt(scenario, frs[i].message_seq)
    BY <1>1, <2>2 DEF TypeAt, a, z
  <2> QED
    BY <1>1, <2>2, <2>3 DEF OfServer, a, z
<1>17. ASSUME NEW i \in 1 .. N, NEW j \in 1 .. N,
              frs[i].fragment_offset = 0, frs[j].fragment_offset = 0,
              frs[i].message_seq = frs[j].message_seq
       PROVE  i = j
  <2>1. Place(i) /\ Place(j)
    BY <1>14, <1>15
  <2> HIDE DEF frags
  <2> QED
    BY <1>1, <1>11, <1>15, <1>17, <2>1
<1> DEFINE F == Flight4(n)
<1>18. DOMAIN F = 1 .. N
  BY <1>9, <1>13, <1>15 DEF Records
<1>19. ASSUME NEW i \in 1 .. N
       PROVE  F[i] = [epoch |-> 0, sequence_number |-> n + i - 1, keys |-> NullKeys,
                      type |-> "handshake", data |-> frs[i]]
  <2>1. i \in DOMAIN frags
    BY <1>13, <1>15
  <2> HIDE DEF frags
  <2> DEFINE msgs == [k \in DOMAIN frags |-> HandshakeMessage(frags[k])]
  <2>2. DOMAIN msgs = DOMAIN frags /\ msgs[i] = HandshakeMessage(frags[i])
    BY <2>1
  <2> HIDE DEF msgs
  <2>3. F = Records(0, n, msgs)
    BY <1>9 DEF msgs
  <2>4. F[i] = [epoch |-> 0, sequence_number |-> n + i - 1,
                keys |-> IF 0 = 0 THEN NullKeys ELSE SessionKeys,
                type |-> msgs[i].type, data |-> msgs[i].data]
    BY <2>1, <2>2, <2>3, Zenon DEF Records
  <2>5. msgs[i].type = "handshake" /\ msgs[i].data = frs[i]
    BY <1>15, <2>2 DEF HandshakeMessage
  <2> QED
    BY <2>4, <2>5
<1> HIDE DEF F
<1>20. ASSUME NEW i \in 1 .. N
       PROVE  /\ F[i].epoch = 0 /\ F[i].sequence_number = n + i - 1
              /\ F[i].data = frs[i]
  <2>1. PICK r, q : r = F[i] /\ q = n + i - 1
    OBVIOUS
  <2>2. r = [epoch |-> 0, sequence_number |-> q, keys |-> NullKeys,
             type |-> "handshake", data |-> frs[i]]
    BY <1>19, <2>1, Zenon
  <2>3. r.epoch = 0 /\ r.sequence_number = q /\ r.data = frs[i]
    BY <2>2
  <2> QED
    BY <2>1, <2>3
<1>21. \E R : F \in Seq(R)
  <2> DEFINE R == {F[i] : i \in 1 .. N}
  <2>1. \A i \in 1 .. N : F[i] \in R
    OBVIOUS
  <2>2. F = [i \in 1 .. N |-> F[i]]
    BY <1>18 DEF F, Flight4, Records
  <2> HIDE DEF R
  <2>3. F \in [1 .. N -> R]
    BY <2>1, <2>2
  <2> QED
    BY <1>15, <2>3, FromFunction
<1>22. ASSUME NEW i \in DOMAIN F
       PROVE  /\ F[i].epoch = 0 /\ F[i].sequence_number = n + i - 1
              /\ OfServer(scenario, F[i].data)
              /\ F[i].data.message_seq >= FirstOf(scenario)
              /\ F[i].data.message_seq <= LastOf(scenario)
              /\ F[i].data.fragment_offset = 0
                    /\ F[i].data.message_seq = FirstOf(scenario) => i = 1
  <2>1. i \in 1 .. N
    BY <1>18
  <2>2. F[i].data = frs[i]
    BY <1>20, <2>1
  <2>3. F[i].epoch = 0 /\ F[i].sequence_number = n + i - 1
    BY <1>20, <2>1
  <2>4. /\ OfServer(scenario, frs[i])
        /\ frs[i].message_seq >= a /\ frs[i].message_seq <= z
        /\ frs[i].fragment_offset = 0 /\ frs[i].message_seq = a => i = 1
    BY <1>16, <2>1
  <2> QED
    BY <2>2, <2>3, <2>4 DEF a, z
<1>23. ASSUME NEW i \in DOMAIN F, NEW j \in DOMAIN F,
              F[i].data.fragment_offset = 0, F[j].data.fragment_offset = 0,
              F[i].data.message_seq = F[j].data.message_seq
       PROVE  i = j
  BY <1>17, <1>18, <1>20, <1>23
<1> QED
  BY <1>21, <1>22, <1>23 DEF F

-----------------------------------------------------------------------------
(* What the server says in a step, and when.                                *)

AskAgain(records) ==
    /\ scenario.cookie /\ UNCHANGED srv
    /\ \E i \in DOMAIN toServer :
          LET r == toServer[i][1]
          IN  /\ IsHello(toServer[i]) /\ r.data.body # Cookie
              /\ records = Records(0, r.sequence_number,
                     <<HandshakeMessage(Whole(Msg("hello_verify_request", 0,
                                                  Cookie)))>>)

Answer(records) ==
    \E i \in DOMAIN toServer :
        LET r == toServer[i][1]
            n == IF scenario.restarts THEN 0 ELSE r.sequence_number
        IN  /\ IsHello(toServer[i])
            /\ ~ (scenario.cookie /\ r.data.body # Cookie)
            /\ srv.phase = "listen"
            /\ records = Flight4(n)
            /\ srv' = [srv EXCEPT
                   !.phase = "negotiating",
                   !.next = n + Len(records),
                   !.transcript =
                       <<Entry(r.data)>> \o
                       [k \in DOMAIN Flight4Types |-> Entry(Flight4Messages[k])]]

Repeat(records) ==
    /\ srv.phase = "negotiating" /\ srv.retransmits < scenario.retransmits
    /\ records = Flight4(srv.next)
    /\ \E x, y : srv' = [srv EXCEPT !.retransmits = x, !.next = y]

Finish(records) ==
    /\ srv.phase = "negotiating"
    /\ \E x, t :
          /\ records = Records(0, srv.next, <<CCS>>) \o
                Records(1, 0, <<HandshakeMessage(Whole(
                    Msg("finished", FirstSeq + Len(Flight4Types), x)))>>)
          /\ srv' = [srv EXCEPT !.phase = "done", !.transcript = t]

Refuse(records) ==
    /\ srv.phase = "negotiating"
    /\ \E i \in DOMAIN toServer :
          LET d == toServer[i]
          IN  /\ IsFlight5(d)
              /\ d[3].data.body #
                    VerifyData("client", Append(srv.transcript, Entry(d[1].data)))
    /\ records = Records(0, srv.next, <<Alert>>)
    /\ srv' = [srv EXCEPT !.phase = "failed"]

SendData(records) ==
    /\ srv.phase = "done"
    /\ \E d : records = Records(1, srv.data + 1,
                                <<[type |-> "application_data", data |-> d]>>)
    /\ srv' = [srv EXCEPT !.data = @ + 1]

Speaks(records) ==
    \/ AskAgain(records) \/ Answer(records) \/ Repeat(records)
    \/ Finish(records) \/ Refuse(records) \/ SendData(records)

LEMMA PlanKept ==
    ASSUME [Next]_vars
    PROVE  scenario' = scenario
<1>1. CASE Internal \/ ReceiveDatagram \/ AlertSent \/ Disturb \/ Timeout
           \/ UNCHANGED vars
  BY <1>1, Zenon
  DEF Internal, Collect, HandleHelloVerifyRequest, HandleServerHelloDone,
      HandleFinished, HandleChangeCipherSpec, HandleFatalAlert,
      HandleApplicationData, Filter, MarkOne, ProcessOutgoing, SendDatagram,
      ReceiveDatagram, AlertSent, Disturb, Timeout, othersUnchanged, vars,
      serverVars
<1>2. CASE ServerReceive \/ ServerRetransmit \/ ServerSendData
  BY <1>2, Zenon DEF ServerReceive, ServerRetransmit, ServerSendData
<1> QED
  BY <1>1, <1>2, Zenon DEF Next

\* A step either leaves the server alone, and then takes a datagram away from
\* the client's queue or repeats one at most, or the server says something.
LEMMA ServerSteps ==
    ASSUME [Next]_vars
    PROVE  \/ /\ UNCHANGED srv
              /\ \/ UNCHANGED toClient
                 \/ \E i \in DOMAIN toClient :
                       \/ toClient' = RemoveAt(toClient, i)
                       \/ toClient' = Append(toClient, toClient[i])
           \/ /\ \E records : ServerReplies(records) /\ Speaks(records)
              /\ UNCHANGED <<recordVars, handlerVars, socketVars>>
<1>1. CASE ServerReceive
  <2>1. PICK i \in DOMAIN toServer :
            ServerTakes(toServer[i]) \/ ServerIgnores(toServer[i])
    BY <1>1, Zenon DEF ServerReceive
  <2> DEFINE d == toServer[i]
  <2>2. UNCHANGED <<recordVars, handlerVars, socketVars>>
    BY <1>1, Zenon DEF ServerReceive
  <2>3. CASE IsHello(d) /\ ServerHelloPhase(d[1])
    <3> DEFINE r == d[1]
    <3>1. CASE scenario.cookie /\ r.data.body # Cookie
      <4> DEFINE records == Records(0, r.sequence_number,
                     <<HandshakeMessage(Whole(Msg("hello_verify_request", 0,
                                                  Cookie)))>>)
      <4>1. ServerReplies(records) /\ UNCHANGED srv
        BY <2>3, <3>1, Zenon DEF ServerHelloPhase
      <4>2. AskAgain(records)
        BY <2>3, <3>1, <4>1, Zenon DEF AskAgain
      <4> QED
        BY <2>2, <4>1, <4>2, Zenon DEF Speaks
    <3>2. CASE ~ (scenario.cookie /\ r.data.body # Cookie)
      <4> DEFINE n == IF scenario.restarts THEN 0 ELSE r.sequence_number
                 records == Flight4(n)
      <4>1. /\ srv.phase = "listen" /\ ServerReplies(records)
            /\ srv' = [srv EXCEPT
                   !.phase = "negotiating",
                   !.next = n + Len(records),
                   !.transcript =
                       <<Entry(r.data)>> \o
                       [k \in DOMAIN Flight4Types |-> Entry(Flight4Messages[k])]]
        BY <2>3, <3>2, Zenon DEF ServerHelloPhase
      <4>2. Answer(records)
        BY <2>3, <3>2, <4>1, Zenon DEF Answer
      <4> QED
        BY <2>2, <4>1, <4>2, Zenon DEF Speaks
    <3> QED
      BY <3>1, <3>2
  <2>4. CASE IsFlight5(d) /\ ServerFinishPhase(d)
    <3> DEFINE cke        == d[1].data
               fin        == d[3].data
               before     == Append(srv.transcript, Entry(cke))
               transcript == Append(before, Entry(fin))
               x          == VerifyData("server", transcript)
               finished   == Msg("finished", FirstSeq + Len(Flight4Types), x)
    <3>0. srv.phase = "negotiating"
      BY <2>4, Zenon DEF ServerFinishPhase
    <3>1. CASE scenario.lenient \/ fin.body = VerifyData("client", before)
      <4> DEFINE records == Records(0, srv.next, <<CCS>>) \o
                       Records(1, 0, <<HandshakeMessage(Whole(finished))>>)
      <4>1. /\ ServerReplies(records)
            /\ srv' = [srv EXCEPT !.phase = "done", !.transcript = transcript]
        BY <2>4, <3>1, Zenon DEF ServerFinishPhase
      <4>2. Finish(records)
        BY <3>0, <4>1, Zenon DEF Finish
      <4> QED
        BY <2>2, <4>1, <4>2, Zenon DEF Speaks
    <3>2. CASE ~ (scenario.lenient \/ fin.body = VerifyData("client", before))
      <4> DEFINE records == Records(0, srv.next, <<Alert>>)
      <4>1. ServerReplies(records) /\ srv' = [srv EXCEPT !.phase = "failed"]
        BY <2>4, <3>2, Zenon DEF ServerFinishPhase
      <4>2. Refuse(records)
        BY <2>4, <3>0, <3>2, <4>1, Zenon DEF Refuse
      <4> QED
        BY <2>2, <4>1, <4>2, Zenon DEF Speaks
    <3> QED
      BY <3>1, <3>2
  <2>5. CASE ServerIgnores(d)
    BY <2>5, Zenon DEF ServerIgnores
  <2> QED
    BY <2>1, <2>3, <2>4, <2>5, Zenon DEF ServerTakes
<1>2. CASE ServerRetransmit
  <2> DEFINE records == Flight4(srv.next)
  <2>1. /\ srv.phase = "negotiating" /\ srv.retransmits < scenario.retransmits
        /\ ServerReplies(records)
        /\ \E x, y : srv' = [srv EXCEPT !.retransmits = x, !.next = y]
        /\ UNCHANGED <<recordVars, handlerVars, socketVars>>
    BY <1>2, Zenon DEF ServerRetransmit
  <2>2. Repeat(records)
    BY <2>1, Zenon DEF Repeat
  <2> QED
    BY <2>1, <2>2, Zenon DEF Speaks
<1>3. CASE ServerSendData
  <2> DEFINE d == scenario.data[srv.data + 1]
             records == Records(1, srv.data + 1,
                                <<[type |-> "application_data", data |-> d]>>)
  <2>1. /\ srv.phase = "done" /\ ServerReplies(records)
        /\ srv' = [srv EXCEPT !.data = @ + 1]
        /\ UNCHANGED <<recordVars, handlerVars, socketVars>>
    BY <1>3, Zenon DEF ServerSendData
  <2>2. SendData(records)
    BY <2>1, Zenon DEF SendData
  <2> QED
    BY <2>1, <2>2, Zenon DEF Speaks
<1>4. CASE Internal \/ AlertSent \/ Timeout \/ UNCHANGED vars
  BY <1>4, Zenon
  DEF Internal, Collect, HandleHelloVerifyRequest, HandleServerHelloDone,
      HandleFinished, HandleChangeCipherSpec, HandleFatalAlert,
      HandleApplicationData, Filter, MarkOne, ProcessOutgoing, SendDatagram,
      AlertSent, Timeout, othersUnchanged, vars, serverVars, netVars
<1>5. CASE ReceiveDatagram
  BY <1>5, Zenon DEF ReceiveDatagram, othersUnchanged, serverVars
<1>6. CASE Disturb
  BY <1>6, Zenon DEF Disturb, Disturbed, serverVars
<1> QED
  BY <1>1, <1>2, <1>3, <1>4, <1>5, <1>6, Zenon DEF Next

-----------------------------------------------------------------------------
(* The way of the server's records: datagrams of D, made of records of S.   *)

Contents(S) == {[type |-> r.type, data |-> r.data] : r \in S}

Travels(D, S) ==
    /\ D \subseteq Seq(S) /\ toClient \in Seq(D)
    /\ datagram \in Seq(S) /\ unmarked \in Seq(S) /\ messages \in Seq(Contents(S))

\* The record layer hands on what it was sent: honest records only ever decipher
\* to what was written.
LEMMA TravelsOn ==
    ASSUME KeysInv, NEW D, NEW S, Travels(D, S), [Next]_vars,
           NEW E, NEW T, D \subseteq E, S \subseteq T, E \subseteq Seq(T),
           toClient' \in Seq(E)
    PROVE  Travels(E, T)'
<1>1. /\ datagram \in Seq(T) /\ unmarked \in Seq(T)
      /\ messages \in Seq(Contents(T))
  <2>1. Contents(S) \subseteq Contents(T)
    BY DEF Contents
  <2> QED
    BY <2>1 DEF Travels
<1> SUFFICES /\ datagram' \in Seq(T) /\ unmarked' \in Seq(T)
             /\ messages' \in Seq(Contents(T))
  BY DEF Travels
<1>2. CASE UNCHANGED receiveVars
  BY <1>1, <1>2 DEF receiveVars
<1>3. CASE NextMessage
  <2>1. /\ messages # <<>> /\ messages' = Tail(messages)
        /\ UNCHANGED <<datagram, unmarked>>
    BY <1>3, Zenon DEF NextMessage
  <2> QED
    BY <1>1, <2>1
<1>4. CASE Discard
  <2>1. /\ datagram # <<>> /\ datagram' = Tail(datagram)
        /\ UNCHANGED <<unmarked, messages>>
    BY <1>4, Zenon DEF Discard
  <2> QED
    BY <1>1, <2>1
<1>5. CASE Decipher
  <2> DEFINE p == Head(datagram)
  <2>1. /\ datagram # <<>> /\ PassesFilter(p)
        /\ datagram' = Tail(datagram) /\ messages' = messages
        /\ unmarked' \in {unmarked, Append(unmarked, Plain(p))}
    BY <1>5 DEF Decipher
  <2>2. p \in T /\ datagram' \in Seq(T)
    BY <1>1, <2>1
  <2>3. DecipherOf(p.epoch) = p.keys
    BY <2>1, RecordFits
  <2> HIDE DEF p
  <2>4. Plain(p) = p
    BY <2>3, Zenon DEF Plain
  <2>5. Append(unmarked, p) \in Seq(T)
    BY <1>1, <2>2
  <2>6. unmarked' \in Seq(T)
    BY <1>1, <2>1, <2>4, <2>5
  <2> QED
    BY <1>1, <2>1, <2>2, <2>6
<1>6. CASE Mark
  <2> DEFINE p == Head(unmarked)
             m == [type |-> p.type, data |-> p.data]
  <2>1. /\ unmarked # <<>> /\ unmarked' = Tail(unmarked)
        /\ datagram' = datagram /\ messages' = Append(messages, m)
    BY <1>6, Zenon DEF Mark
  <2>2. p \in T /\ unmarked' \in Seq(T)
    BY <1>1, <2>1
  <2>3. m \in Contents(T)
    BY <2>2 DEF Contents
  <2> HIDE DEF m
  <2> QED
    BY <1>1, <2>1, <2>2, <2>3
<1>7. CASE ReceiveDatagram
  <2>1. PICK i \in DOMAIN toClient : Receive(toClient[i])
    BY <1>7, Zenon DEF ReceiveDatagram
  <2>2. /\ datagram' = toClient[i] /\ UNCHANGED <<unmarked, messages>>
    BY <2>1, Zenon DEF Receive
  <2>3. toClient[i] \in E
    BY <2>1 DEF Travels
  <2> QED
    BY <1>1, <2>2, <2>3
<1>8. CASE Collect \/ HandleHelloVerifyRequest \/ HandleServerHelloDone
           \/ HandleFinished
  <2>1. NextMessage
    BY <1>8, Zenon DEF Collect, HandleHelloVerifyRequest, HandleServerHelloDone,
       HandleFinished, TakeFlight, Incoming
  <2> QED
    BY <1>3, <2>1
<1>9. CASE HandleChangeCipherSpec \/ HandleFatalAlert \/ HandleApplicationData
  <2>1. NextMessage
    BY <1>9, Zenon DEF HandleChangeCipherSpec, HandleFatalAlert,
       HandleApplicationData, Incoming
  <2> QED
    BY <1>3, <2>1
<1>10. CASE Filter \/ MarkOne
  BY <1>4, <1>5, <1>6, <1>10, Zenon DEF Filter, MarkOne
<1>11. CASE ProcessOutgoing \/ SendDatagram \/ AlertSent \/ Disturb
            \/ ServerReceive \/ ServerRetransmit \/ ServerSendData \/ Timeout
            \/ UNCHANGED vars
  <2>1. UNCHANGED receiveVars
    BY <1>11, Zenon
    DEF ProcessOutgoing, processOutgoingMessage, SendDatagram, Transmit,
        AlertSent, Disturb, ServerReceive, ServerRetransmit, ServerSendData,
        Timeout, recordVars, vars
  <2> QED
    BY <1>2, <2>1
<1> QED
  BY <1>7, <1>8, <1>9, <1>10, <1>11, Zenon DEF Next, Internal

\* What the server says leaves in one datagram, or in one per record.
LEMMA Posted ==
    ASSUME NEW E, toClient \in Seq(E), NEW R, NEW records \in Seq(R),
           ServerReplies(records), records \in E,
           \A r \in R : <<r>> \in E
    PROVE  toClient' \in Seq(E)
<1> DEFINE single == [i \in DOMAIN records |-> <<records[i]>>]
<1>1. single \in Seq(E)
  <2>1. DOMAIN records = 1 .. Len(records) /\ Len(records) \in Nat
    OBVIOUS
  <2>2. \A i \in 1 .. Len(records) : <<records[i]>> \in E
    BY <2>1
  <2>3. single \in [1 .. Len(records) -> E]
    BY <2>1, <2>2
  <2> HIDE DEF single
  <2> QED
    BY <2>1, <2>3, FromFunction
<1>2. <<records>> \in Seq(E)
  OBVIOUS
<1>3. toClient' = toClient \o <<records>> \/ toClient' = toClient \o single
  BY Zenon DEF ServerReplies, single
<1> HIDE DEF single
<1> DEFINE one == <<records>>
<1> HIDE DEF one
<1> QED
  BY <1>1, <1>2, <1>3, ConcatProperties, Zenon DEF one

\* A record of one message.
LEMMA OneRecord ==
    ASSUME NEW epoch, NEW n, NEW m
    PROVE  LET s == Records(epoch, n, <<m>>)
               r == [epoch |-> epoch, sequence_number |-> n + 1 - 1,
                     keys |-> IF epoch = 0 THEN NullKeys ELSE SessionKeys,
                     type |-> m.type, data |-> m.data]
           IN  s = <<r>>
<1> DEFINE msgs == <<m>>
           s == Records(epoch, n, msgs)
           r == [epoch |-> epoch, sequence_number |-> n + 1 - 1,
                 keys |-> IF epoch = 0 THEN NullKeys ELSE SessionKeys,
                 type |-> m.type, data |-> m.data]
<1>1. DOMAIN msgs = {1} /\ msgs[1] = m
  OBVIOUS
<1> HIDE DEF msgs
<1>2. DOMAIN s = {1} /\ s = [i \in {1} |-> s[i]]
  BY <1>1 DEF Records
<1>3. s[1] = r
  BY <1>1, Zenon DEF Records
<1> HIDE DEF s, r
<1>4. s = <<r>>
  BY <1>2, <1>3
<1> QED
  BY <1>4 DEF s, r, msgs

LEMMA TwoItems ==
    ASSUME NEW c, NEW f
    PROVE  <<c>> \o <<f>> = <<c, f>>
<1>1. <<c>> \in Seq({c, f}) /\ <<f>> \in Seq({c, f})
  OBVIOUS
<1>2. PICK T : T = {c, f}
  OBVIOUS
<1>3. PICK a \in Seq(T), b \in Seq(T) : a = <<c>> /\ b = <<f>>
  BY <1>1, <1>2, Zenon
<1>4. Len(a) = 1 /\ Len(b) = 1 /\ a[1] = c /\ b[1] = f
  BY <1>3
<1>5. a \o b \in Seq(T)
  BY <1>3
<1>6. PICK s : s \in Seq(T) /\ s = a \o b
  BY <1>5, Zenon
<1>7. Len(s) = 2 /\ s[1] = a[1] /\ s[2] = b[1]
  BY <1>3, <1>4, <1>6, SMT
<1>8. s \in Seq(T) /\ Len(s) = 2 /\ s[1] = c /\ s[2] = f
  BY <1>4, <1>6, <1>7, Zenon
<1>9. s = <<c, f>>
  BY <1>8
<1> QED
  BY <1>3, <1>6, <1>9, Zenon

\* The first record of the last flight is a ChangeCipherSpec, the second one
\* the Finished.
LEMMA FinishContent ==
    ASSUME NEW records, Finish(records)
    PROVE  \E c, f :
              /\ records = <<c, f>>
              /\ c.type = "change_cipher_spec" /\ c.sequence_number = srv.next + 1 - 1
              /\ c.epoch = 0
              /\ f.type = "handshake" /\ f.epoch = 1 /\ f.sequence_number = 0
              /\ OfServer(scenario, f.data)
              /\ f.data.message_seq = LastOf(scenario) + 1
              /\ f.data.fragment_offset = 0
<1>1. PICK x : records = Records(0, srv.next, <<CCS>>) \o
                Records(1, 0, <<HandshakeMessage(Whole(
                    Msg("finished", FirstSeq + Len(Flight4Types), x)))>>)
  BY Zenon DEF Finish
<1> DEFINE w == Whole(Msg("finished", FirstSeq + Len(Flight4Types), x))
           c == [epoch |-> 0, sequence_number |-> srv.next + 1 - 1,
                 keys |-> IF 0 = 0 THEN NullKeys ELSE SessionKeys,
                 type |-> CCS.type, data |-> CCS.data]
           f == [epoch |-> 1, sequence_number |-> 0 + 1 - 1,
                 keys |-> IF 1 = 0 THEN NullKeys ELSE SessionKeys,
                 type |-> HandshakeMessage(w).type, data |-> HandshakeMessage(w).data]
<1>2. Records(0, srv.next, <<CCS>>) = <<c>> /\ Records(1, 0, <<HandshakeMessage(w)>>) = <<f>>
  BY OneRecord, Zenon
<1>3. FirstSeq + Len(Flight4Types) = LastOf(scenario) + 1
  BY DEF FirstSeq, Flight4Types, LastOf, FirstOf
<1>4. /\ w.message_seq = LastOf(scenario) + 1 /\ w.fragment_offset = 0
      /\ w.msg_type = "finished" /\ w.total_length = LengthOf("finished")
  BY <1>3 DEF Whole, Fragment, Msg
<1> HIDE DEF w
<1>5. OfServer(scenario, w)
  BY <1>4, PlanNumbers DEF OfServer, TypeAt
<1>6. /\ c.type = "change_cipher_spec" /\ c.sequence_number = srv.next + 1 - 1
      /\ c.epoch = 0
      /\ f.type = "handshake" /\ f.data = w /\ f.epoch = 1 /\ f.sequence_number = 0
  BY DEF CCS, HandshakeMessage
<1>7. records = <<c, f>>
  <2> HIDE DEF c, f
  <2> QED
    BY <1>1, <1>2, TwoItems, Zenon DEF w
<1> HIDE DEF c, f
<1> QED
  BY <1>4, <1>5, <1>6, <1>7

LEMMA AskContent ==
    ASSUME NEW records, AskAgain(records)
    PROVE  \E r :
              /\ records = <<r>> /\ r.type = "handshake" /\ r.epoch = 0
              /\ OfServer(scenario, r.data) /\ r.data.message_seq = 0
              /\ r.data.fragment_offset = 0 /\ scenario.cookie
              /\ \E i \in DOMAIN toServer :
                    /\ IsHello(toServer[i]) /\ toServer[i][1].data.body # Cookie
                    /\ r.sequence_number = toServer[i][1].sequence_number + 1 - 1
<1> DEFINE w == Whole(Msg("hello_verify_request", 0, Cookie))
<1>1. PICK i \in DOMAIN toServer :
          /\ IsHello(toServer[i]) /\ toServer[i][1].data.body # Cookie
          /\ records = Records(0, toServer[i][1].sequence_number,
                               <<HandshakeMessage(w)>>)
  BY Zenon DEF AskAgain
<1>2. scenario.cookie
  BY Zenon DEF AskAgain
<1> DEFINE q == toServer[i][1].sequence_number
<1> HIDE DEF q
<1> DEFINE r == [epoch |-> 0, sequence_number |-> q + 1 - 1,
                 keys |-> IF 0 = 0 THEN NullKeys ELSE SessionKeys,
                 type |-> HandshakeMessage(w).type, data |-> HandshakeMessage(w).data]
<1>3. records = <<r>>
  BY <1>1, OneRecord, Zenon DEF q
<1>4. /\ w.message_seq = 0 /\ w.fragment_offset = 0
      /\ w.msg_type = "hello_verify_request"
      /\ w.total_length = LengthOf("hello_verify_request")
  BY DEF Whole, Fragment, Msg
<1> HIDE DEF w
<1>5. OfServer(scenario, w)
  BY <1>2, <1>4, PlanNumbers DEF OfServer, TypeAt
<1>6. /\ r.type = "handshake" /\ r.data = w /\ r.epoch = 0
      /\ r.sequence_number = q + 1 - 1
  BY DEF HandshakeMessage
<1> HIDE DEF r
<1> QED
  BY <1>1, <1>2, <1>3, <1>4, <1>5, <1>6 DEF q

\* Nothing else of what the server says is a handshake message.
LEMMA OtherContent ==
    ASSUME NEW records, Refuse(records) \/ SendData(records)
    PROVE  \E r : /\ records = <<r>> /\ r.type # "handshake"
                  /\ r.sequence_number \in {srv.next + 1 - 1, srv.data + 1 + 1 - 1}
                  /\ r.epoch \in {0, 1}
<1>1. PICK e, n, m : /\ records = Records(e, n, <<m>>)
                     /\ m.type # "handshake" /\ n \in {srv.next, srv.data + 1}
                     /\ e \in {0, 1}
  <2>1. CASE Refuse(records)
    <3>1. records = Records(0, srv.next, <<Alert>>) /\ Alert.type # "handshake"
      BY <2>1 DEF Refuse, Alert
    <3> HIDE DEF Alert
    <3> QED
      BY <3>1
  <2>2. CASE SendData(records)
    <3>1. PICK d : records = Records(1, srv.data + 1,
                                <<[type |-> "application_data", data |-> d]>>)
      BY <2>2, Zenon DEF SendData
    <3> DEFINE m == [type |-> "application_data", data |-> d]
    <3>2. m.type # "handshake" /\ records = Records(1, srv.data + 1, <<m>>)
      BY <3>1
    <3> HIDE DEF m
    <3> QED
      BY <3>2
  <2> QED
    BY <2>1, <2>2
<1> DEFINE r == [epoch |-> e, sequence_number |-> n + 1 - 1,
                 keys |-> IF e = 0 THEN NullKeys ELSE SessionKeys,
                 type |-> m.type, data |-> m.data]
<1>2. records = <<r>>
  BY <1>1, OneRecord, Zenon
<1>3. r.type = m.type /\ r.sequence_number = n + 1 - 1 /\ r.epoch = e
  OBVIOUS
<1> HIDE DEF r
<1> QED
  BY <1>1, <1>2, <1>3

\* Whatever the server says is a sequence of records, and any handshake message
\* in it came in time.
LEMMA SpokenCame ==
    ASSUME SrvInv, NEW records, Speaks(records)
    PROVE  /\ records \in Seq(ToSet(records))
           /\ \A r \in ToSet(records) :
                 r.type = "handshake" => Came(scenario, srv'.phase, r.data)
<1> DEFINE fromServer == \A r \in ToSet(records) :
                 r.type = "handshake" => Came(scenario, srv'.phase, r.data)
<1>1. ASSUME NEW S, records \in Seq(S)
      PROVE  records \in Seq(ToSet(records))
  <2>1. DOMAIN records = 1 .. Len(records) /\ Len(records) \in Nat
        /\ records = [i \in 1 .. Len(records) |-> records[i]]
    BY <1>1
  <2>2. \A i \in 1 .. Len(records) : records[i] \in ToSet(records)
    BY <2>1 DEF ToSet
  <2>3. records \in [1 .. Len(records) -> ToSet(records)]
    BY <2>1, <2>2
  <2> QED
    BY <2>1, <2>3, FromFunction
<1>2. CASE AskAgain(records)
  <2>1. PICK r : /\ records = <<r>> /\ OfServer(scenario, r.data)
                 /\ r.data.message_seq = 0 /\ scenario.cookie
    BY <1>2, AskContent
  <2>2. Came(scenario, srv'.phase, r.data)
    BY <2>1 DEF Came, FirstOf, LastOf
  <2>3. records \in Seq({r}) /\ ToSet(records) = {r}
    BY <2>1 DEF ToSet
  <2> QED
    BY <1>1, <2>2, <2>3
<1>3. CASE Answer(records) \/ Repeat(records)
  <2>1. PICK n : records = Flight4(n)
    BY <1>3, Zenon DEF Answer, Repeat
  <2>2. srv'.phase = "negotiating"
    <3>1. CASE Answer(records)
      <4>1. \E x, y : srv' = [srv EXCEPT !.phase = "negotiating", !.next = x,
                                         !.transcript = y]
        BY <3>1, Zenon DEF Answer
      <4> QED
        BY <4>1 DEF SrvInv, ServerFields
    <3>2. CASE Repeat(records)
      <4>1. /\ srv.phase = "negotiating"
            /\ \E x, y : srv' = [srv EXCEPT !.retransmits = x, !.next = y]
        BY <3>2, Zenon DEF Repeat
      <4> QED
        BY <4>1 DEF SrvInv, ServerFields
    <3> QED
      BY <1>3, <3>1, <3>2
  <2>3. /\ \E R : records \in Seq(R)
        /\ \A i \in DOMAIN records :
              /\ OfServer(scenario, records[i].data)
              /\ records[i].data.message_seq <= LastOf(scenario)
    BY <2>1, Flight4Content
  <2>4. ASSUME NEW r \in ToSet(records)
        PROVE  Came(scenario, srv'.phase, r.data)
    <3>1. OfServer(scenario, r.data) /\ r.data.message_seq <= LastOf(scenario)
      BY <2>3 DEF ToSet
    <3> QED
      BY <2>2, <3>1, PlanNumbers DEF Came, OfServer
  <2> QED
    BY <1>1, <2>3, <2>4
<1>4. CASE Finish(records)
  <2>1. PICK c, f : /\ records = <<c, f>> /\ c.type = "change_cipher_spec"
                    /\ OfServer(scenario, f.data)
    BY <1>4, FinishContent
  <2>2. srv'.phase = "done"
    <3>1. \E t : srv' = [srv EXCEPT !.phase = "done", !.transcript = t]
      BY <1>4, Zenon DEF Finish
    <3> QED
      BY <3>1 DEF SrvInv, ServerFields
  <2>3. Came(scenario, srv'.phase, f.data)
    BY <2>1, <2>2 DEF Came
  <2>4. records \in Seq({c, f}) /\ \A r \in ToSet(records) : r \in {c, f}
    BY <2>1 DEF ToSet
  <2> QED
    BY <1>1, <2>1, <2>3, <2>4
<1>5. CASE Refuse(records) \/ SendData(records)
  <2>1. PICK r : records = <<r>> /\ r.type # "handshake"
    BY <1>5, OtherContent
  <2>2. records \in Seq({r}) /\ ToSet(records) = {r}
    BY <2>1 DEF ToSet
  <2> QED
    BY <1>1, <2>1, <2>2
<1> QED
  BY <1>2, <1>3, <1>4, <1>5, Zenon DEF Speaks

\* So its way goes on, with the new records added.
LEMMA ServerSpeaks ==
    ASSUME KeysInv, SrvInv, NEW D, NEW S, Travels(D, S), [Next]_vars
    PROVE  \/ UNCHANGED srv /\ Travels(D, S)'
           \/ \E records :
                 /\ Speaks(records) /\ UNCHANGED <<recordVars, handlerVars, socketVars>>
                 /\ \E R, E : /\ R = ToSet(records)
                              /\ E = D \cup {records} \cup {<<r>> : r \in R}
                              /\ Travels(E, S \cup R)'
<1>1. ASSUME UNCHANGED toClient
      PROVE  Travels(D, S)'
  <2>1. D \subseteq Seq(S) /\ toClient' \in Seq(D)
    BY <1>1 DEF Travels
  <2> QED
    BY <2>1, TravelsOn
<1>2. ASSUME NEW i \in DOMAIN toClient, \/ toClient' = RemoveAt(toClient, i)
                                        \/ toClient' = Append(toClient, toClient[i])
      PROVE  Travels(D, S)'
  <2>1. toClient \in Seq(D) /\ toClient[i] \in D /\ D \subseteq Seq(S)
    BY DEF Travels
  <2>2. RemoveAt(toClient, i) \in Seq(D) /\ Append(toClient, toClient[i]) \in Seq(D)
    BY <2>1, RemovedFrom
  <2>3. toClient' \in Seq(D)
    BY <1>2, <2>2
  <2> QED
    BY <2>1, <2>3, TravelsOn
<1>3. ASSUME NEW records, ServerReplies(records), Speaks(records)
      PROVE  \E R, E : /\ R = ToSet(records)
                       /\ E = D \cup {records} \cup {<<r>> : r \in R}
                       /\ Travels(E, S \cup R)'
  <2> DEFINE R == ToSet(records)
             T == S \cup R
             E == D \cup {records} \cup {<<r>> : r \in R}
  <2>1. records \in Seq(R)
    BY <1>3, SpokenCame
  <2>2. D \subseteq Seq(S) /\ toClient \in Seq(D)
    BY DEF Travels
  <2> HIDE DEF R
  <2>3. toClient \in Seq(E) /\ records \in E /\ \A r \in R : <<r>> \in E
    <3>1. D \subseteq E
      OBVIOUS
    <3>2. records \in E /\ \A r \in R : <<r>> \in E
      OBVIOUS
    <3> HIDE DEF E
    <3> QED
      BY <2>2, <3>1, <3>2
  <2>4. E \subseteq Seq(T)
    <3>1. records \in Seq(T)
      BY <2>1
    <3>2. Seq(S) \subseteq Seq(T)
      OBVIOUS
    <3>3. \A r \in R : <<r>> \in Seq(T)
      OBVIOUS
    <3> HIDE DEF T
    <3> QED
      BY <2>2, <3>1, <3>2, <3>3
  <2>5. D \subseteq E /\ S \subseteq T
    OBVIOUS
  <2> HIDE DEF E, T
  <2>6. toClient' \in Seq(E)
    BY <1>3, <2>1, <2>3, Posted
  <2>7. Travels(E, T)'
    BY <2>4, <2>5, <2>6, TravelsOn
  <2> QED
    BY <2>7 DEF R, T, E
<1> QED
  BY <1>1, <1>2, <1>3, ServerSteps

-----------------------------------------------------------------------------
(* Where a message came from.                                               *)

FromServer(S) == \A r \in S : r.type = "handshake" => Came(scenario, srv.phase, r.data)

\* A handshake message, wherever it is on the client's side, came from the
\* server in one of the phases in which it says that.
OriginInv ==
    /\ \E D, S : Travels(D, S) /\ FromServer(S)
    /\ \E F : /\ incompleteMessages \in Seq(F)
             /\ \A f \in F : Came(scenario, srv.phase, f)
    /\ \A n \in DOMAIN completeMessages : Came(scenario, srv.phase, completeMessages[n])

\* The server never returns to an earlier phase.
PhaseOn == /\ Kept
           /\ srv.phase # "listen" => srv'.phase # "listen"

LEMMA PhaseGoesOn ==
    ASSUME SrvInv, [Next]_vars
    PROVE  SrvInv' /\ PhaseOn
<1>1. SrvInv' /\ Kept
  BY ServerKept
<1>2. ASSUME srv.phase # "listen"
      PROVE  srv'.phase # "listen"
  <2>1. CASE UNCHANGED srv
    BY <1>2, <2>1
  <2>2. ASSUME NEW records, Speaks(records)
        PROVE  srv'.phase # "listen"
    <3>1. \/ \E x, y : srv' = [srv EXCEPT !.retransmits = x, !.next = y]
          \/ \E t : srv' = [srv EXCEPT !.phase = "done", !.transcript = t]
          \/ srv' = [srv EXCEPT !.phase = "failed"]
          \/ srv' = [srv EXCEPT !.data = @ + 1]
          \/ srv' = srv
      BY <1>2, <2>2, Zenon
      DEF Speaks, AskAgain, Answer, Repeat, Finish, Refuse, SendData
    <3> QED
      BY <1>2, <3>1 DEF SrvInv, ServerFields
  <2> QED
    BY <2>1, <2>2, ServerSteps
<1> QED
  BY <1>1, <1>2 DEF PhaseOn

LEMMA CameOn ==
    ASSUME PhaseOn, NEW plan, NEW f, Came(plan, srv.phase, f)
    PROVE  Came(plan, srv'.phase, f)
  BY DEF PhaseOn, Kept, Came

\* A message the handler is given was in a record.
LEMMA MessageOfRecord ==
    ASSUME NEW D, NEW S, Travels(D, S), NEW i \in DOMAIN messages
    PROVE  \E r \in S : messages[i].type = r.type /\ messages[i].data = r.data
<1>1. messages[i] \in Contents(S)
  BY DEF Travels
<1>2. PICK r \in S : messages[i] = [type |-> r.type, data |-> r.data]
  BY <1>1 DEF Contents
<1>3. messages[i].type = r.type /\ messages[i].data = r.data
  BY <1>2
<1> QED
  BY <1>3

LEMMA NextCame ==
    ASSUME OriginInv, messages # <<>>, Head(messages).type = "handshake"
    PROVE  Came(scenario, srv.phase, Head(messages).data)
<1>1. PICK D, S : Travels(D, S) /\ FromServer(S)
  BY DEF OriginInv
<1>2. 1 \in DOMAIN messages /\ Head(messages) = messages[1]
  BY <1>1 DEF Travels
<1>3. PICK r \in S : messages[1].type = r.type /\ messages[1].data = r.data
  BY <1>1, <1>2, MessageOfRecord
<1> QED
  BY <1>1, <1>2, <1>3 DEF FromServer

\* What the handler has once it stored the next message came, too.
LEMMA StoredCame ==
    ASSUME OriginInv, messages # <<>>, Head(messages).type = "handshake"
    PROVE  /\ \E F : /\ NextStored.incomplete \in Seq(F)
                    /\ \A f \in F : Came(scenario, srv.phase, f)
           /\ \A n \in DOMAIN NextStored.complete :
                 Came(scenario, srv.phase, NextStored.complete[n])
<1> DEFINE f == Head(messages).data
           pending == Append(incompleteMessages, f)
           I == {i \in DOMAIN pending : ~ SameMessage(pending[i], f)}
           Added == [s \in DOMAIN completeMessages \cup {f.message_seq} |->
                       IF s = f.message_seq THEN Whole(f) ELSE completeMessages[s]]
<1>1. Came(scenario, srv.phase, f)
  BY NextCame
<1>2. PICK F : /\ incompleteMessages \in Seq(F)
               /\ \A g \in F : Came(scenario, srv.phase, g)
  BY DEF OriginInv
<1>3. Came(scenario, srv.phase, Whole(f))
  <2> HIDE DEF f
  <2>1. /\ Whole(f).message_seq = f.message_seq /\ Whole(f).msg_type = f.msg_type
        /\ Whole(f).total_length = f.total_length /\ Whole(f).fragment_offset = 0
    BY DEF Whole, Fragment
  <2> QED
    BY <1>1, <2>1 DEF Came, OfServer
<1>4. /\ NextStored.incomplete \in {incompleteMessages, pending, Filtered(pending, I)}
      /\ NextStored.complete \in {completeMessages, Added}
  BY DEF NextStored, Stored, Without
<1> DEFINE G == F \cup {f}
<1>5. \A g \in G : Came(scenario, srv.phase, g)
  BY <1>1, <1>2
<1>6. incompleteMessages \in Seq(G) /\ f \in G
  BY <1>2
<1> HIDE DEF G, f
<1>7. pending \in Seq(G)
  BY <1>6
<1> HIDE DEF pending
<1>8. Filtered(pending, I) \in Seq(G)
  <2>1. I \in SUBSET DOMAIN pending
    OBVIOUS
  <2> HIDE DEF I
  <2> QED
    BY <1>7, <2>1, FilteredFrom
<1> HIDE DEF I
<1>9. NextStored.incomplete \in Seq(G)
  BY <1>4, <1>6, <1>7, <1>8
<1>10. ASSUME NEW n \in DOMAIN Added
       PROVE  Came(scenario, srv.phase, Added[n])
  <2>1. \/ Added[n] = Whole(f)
        \/ n \in DOMAIN completeMessages /\ Added[n] = completeMessages[n]
    OBVIOUS
  <2> HIDE DEF Added
  <2> QED
    BY <1>3, <2>1 DEF OriginInv
<1> HIDE DEF Added
<1>11. \A n \in DOMAIN NextStored.complete :
           Came(scenario, srv.phase, NextStored.complete[n])
  BY <1>4, <1>10 DEF OriginInv
<1> QED
  BY <1>5, <1>9, <1>11

\* A step of the handler stores the next message, and may take the flight.
LEMMA HandlerSteps ==
    ASSUME [Next]_vars
    PROVE  \/ UNCHANGED <<incompleteMessages, completeMessages>>
           \/ /\ messages # <<>> /\ Head(messages).type = "handshake"
              /\ incompleteMessages' = NextStored.incomplete
              /\ completeMessages' \in {<<>>, NextStored.complete}
<1>1. CASE Collect
  BY <1>1, Zenon DEF Collect, Incoming
<1>2. CASE HandleHelloVerifyRequest \/ HandleServerHelloDone \/ HandleFinished
  <2>1. \E type : TakeFlight(type)
    BY <1>2, Zenon
    DEF HandleHelloVerifyRequest, HandleServerHelloDone, HandleFinished
  <2> QED
    BY <2>1, Zenon DEF TakeFlight, Incoming
<1>3. CASE \/ HandleChangeCipherSpec \/ HandleFatalAlert \/ HandleApplicationData
           \/ Filter \/ MarkOne \/ ProcessOutgoing \/ SendDatagram \/ ReceiveDatagram
           \/ AlertSent \/ Disturb \/ ServerReceive \/ ServerRetransmit
           \/ ServerSendData \/ Timeout \/ UNCHANGED vars
  BY <1>3, Zenon
  DEF HandleChangeCipherSpec, HandleFatalAlert, HandleApplicationData, Filter,
      MarkOne, ProcessOutgoing, SendDatagram, ReceiveDatagram, AlertSent, Disturb,
      ServerReceive, ServerRetransmit, ServerSendData, Timeout, othersUnchanged,
      handlerVars, vars
<1> QED
  BY <1>1, <1>2, <1>3, Zenon DEF Next, Internal

LEMMA OriginNext ==
    ASSUME KeysInv, SrvInv, OriginInv, [Next]_vars
    PROVE  OriginInv'
<1>1. PICK D, S : Travels(D, S) /\ FromServer(S)
  BY DEF OriginInv
<1>2. scenario' = scenario /\ PhaseOn
  BY PlanKept, PhaseGoesOn
<1>3. \A f : Came(scenario, srv.phase, f) => Came(scenario, srv'.phase, f)
  BY <1>2, CameOn
<1>4. FromServer(S)'
  BY <1>1, <1>2, <1>3 DEF FromServer
<1>5. \E E, T : Travels(E, T)' /\ FromServer(T)'
  <2>1. CASE Travels(D, S)'
    BY <1>4, <2>1, Zenon
  <2>2. ASSUME NEW records, Speaks(records), NEW E,
               NEW R, R = ToSet(records), Travels(E, S \cup R)'
        PROVE  \E U, T : Travels(U, T)' /\ FromServer(T)'
    <3>1. \A r \in R : r.type = "handshake" => Came(scenario, srv'.phase, r.data)
      BY <2>2, SpokenCame
    <3> DEFINE T == S \cup R
    <3>2. FromServer(T)'
      BY <1>2, <1>4, <3>1 DEF FromServer
    <3>3. Travels(E, T)'
      BY <2>2
    <3> HIDE DEF T
    <3> QED
      BY <3>2, <3>3, Zenon
  <2>3. \/ Travels(D, S)'
        \/ \E records : /\ Speaks(records)
                        /\ \E R, E : R = ToSet(records) /\ Travels(E, S \cup R)'
    BY <1>1, ServerSpeaks, Zenon
  <2> QED
    BY <2>1, <2>2, <2>3, Zenon
<1>6. /\ \E F : /\ incompleteMessages' \in Seq(F)
               /\ \A f \in F : Came(scenario, srv'.phase, f)
      /\ \A n \in DOMAIN completeMessages' :
            Came(scenario, srv'.phase, completeMessages'[n])
  <2>1. CASE UNCHANGED <<incompleteMessages, completeMessages>>
    BY <1>3, <2>1, Zenon DEF OriginInv
  <2>2. CASE /\ messages # <<>> /\ Head(messages).type = "handshake"
             /\ incompleteMessages' = NextStored.incomplete
             /\ completeMessages' \in {<<>>, NextStored.complete}
    <3>1. PICK F : /\ NextStored.incomplete \in Seq(F)
                   /\ \A f \in F : Came(scenario, srv.phase, f)
      BY <2>2, StoredCame
    <3>2. \A n \in DOMAIN NextStored.complete :
              Came(scenario, srv.phase, NextStored.complete[n])
      BY <2>2, StoredCame
    <3>3. DOMAIN <<>> = {}
      OBVIOUS
    <3>4. \A n \in DOMAIN completeMessages' :
              Came(scenario, srv'.phase, completeMessages'[n])
      BY <1>3, <2>2, <3>2, <3>3
    <3>5. \A f \in F : Came(scenario, srv'.phase, f)
      BY <1>3, <3>1
    <3> QED
      BY <2>2, <3>1, <3>4, <3>5
  <2> QED
    BY <2>1, <2>2, HandlerSteps
<1> QED
  BY <1>2, <1>5, <1>6 DEF OriginInv

-----------------------------------------------------------------------------
(* The flights of both sides.                                               *)

\* Taking all of a sequence.
LEMMA FilteredEvery ==
    ASSUME NEW S, NEW s \in Seq(S), NEW I, I = DOMAIN s
    PROVE  Filtered(s, I) = s
<1>1. PICK n \in Nat : n = Len(s)
  OBVIOUS
<1>2. I = 1 .. n /\ s = [k \in 1 .. n |-> s[k]]
  BY <1>1
<1>3. \A j \in Nat : Cardinality(1 .. j) = j
  <2> TAKE j \in Nat
  <2>1. Cardinality(1 .. j) = IF 1 > j THEN 0 ELSE j - 1 + 1
    BY FS_Interval
  <2> QED
    BY <2>1
<1>4. Cardinality(I) = n
  BY <1>2, <1>3
<1>5. ASSUME NEW k \in 1 .. n
      PROVE  Nth(I, k) = k
  <2>1. I \in SUBSET (1 .. n) /\ k \in 1 .. Cardinality(I)
    BY <1>2, <1>4
  <2>2. Nth(I, k) \in I /\ Cardinality(I \cap 1 .. Nth(I, k)) = k
    BY <2>1, NthIsThere
  <2>3. PICK j \in 1 .. n : j = Nth(I, k)
    BY <1>2, <2>2
  <2>4. I \cap 1 .. j = 1 .. j
    BY <1>2
  <2>5. j \in Nat
    OBVIOUS
  <2>6. Cardinality(1 .. j) = j
    BY <1>3, <2>5, Zenon
  <2> QED
    BY <2>2, <2>3, <2>4, <2>6, Zenon
<1>6. Filtered(s, I) = [k \in 1 .. n |-> s[Nth(I, k)]]
  BY <1>4, Zenon DEF Filtered
<1>7. [k \in 1 .. n |-> s[Nth(I, k)]] = [k \in 1 .. n |-> s[k]]
  BY <1>5
<1> QED
  BY <1>2, <1>6, <1>7, Zenon

\* The entries of messages that are all hashed, and of one that is not.
LEMMA EntriesOfAll ==
    ASSUME NEW S, NEW msgs \in Seq(S),
           \A i \in DOMAIN msgs : needsToHashMessage(msgs[i])
    PROVE  Entries(msgs) = [i \in DOMAIN msgs |-> Entry(msgs[i])]
<1> DEFINE I == {i \in DOMAIN msgs : needsToHashMessage(msgs[i])}
<1>1. I = DOMAIN msgs
  OBVIOUS
<1> HIDE DEF I
<1>2. Filtered(msgs, I) = msgs
  BY <1>1, FilteredEvery
<1> QED
  BY <1>2, Zenon DEF Entries, I

LEMMA EntriesOfNone ==
    ASSUME NEW m, ~ needsToHashMessage(m)
    PROVE  Entries(<<m>>) = <<>>
<1> DEFINE msgs == <<m>>
           I == {i \in DOMAIN msgs : needsToHashMessage(msgs[i])}
<1>1. I = {}
  OBVIOUS
<1> HIDE DEF I, msgs
<1>2. Filtered(msgs, I) = <<>>
  BY <1>1, FilteredNone
<1> DEFINE h == Filtered(msgs, I)
<1>3. Entries(msgs) = [i \in DOMAIN h |-> Entry(h[i])]
  BY Zenon DEF Entries, I
<1> HIDE DEF h
<1>4. h = <<>>
  BY <1>2 DEF h
<1> QED
  BY <1>3, <1>4 DEF msgs

\* A message of one byte is one fragment.
LEMMA OneFragment ==
    ASSUME NEW m, m.total_length = 1
    PROVE  \E f : /\ Fragments(m) = <<HandshakeMessage(f)>>
                  /\ f.msg_type = m.msg_type /\ f.message_seq = m.message_seq
                  /\ f.body = m.body
<1> DEFINE w == Whole(m)
           f == Fragment(w, 0, Shorter(MTU, w.length))
           fs == split(w, MTU)
<1>1. w.length # 0
  BY DEF Whole, Fragment
<1>2. fs = <<f>>
  BY <1>1, Zenon DEF split
<1>3. /\ f.msg_type = m.msg_type /\ f.message_seq = m.message_seq
      /\ f.body = m.body
  BY DEF Whole, Fragment
<1> HIDE DEF f, w, fs
<1>4. Fragments(m) = [i \in DOMAIN fs |-> HandshakeMessage(fs[i])]
  BY Zenon DEF Fragments, fs, w
<1>5. Fragments(m) = <<HandshakeMessage(f)>>
  BY <1>2, <1>4
<1> QED
  BY <1>3, <1>5

LEMMA ThreeItems ==
    ASSUME NEW a, NEW b, NEW c
    PROVE  <<a>> \o <<b, c>> = <<a, b, c>>
<1>1. <<a>> \in Seq({a, b, c}) /\ <<b, c>> \in Seq({a, b, c})
  OBVIOUS
<1>2. PICK T : T = {a, b, c}
  OBVIOUS
<1>3. PICK x \in Seq(T), y \in Seq(T) : x = <<a>> /\ y = <<b, c>>
  BY <1>1, <1>2, Zenon
<1>4. Len(x) = 1 /\ Len(y) = 2 /\ x[1] = a /\ y[1] = b /\ y[2] = c
  BY <1>3
<1>5. x \o y \in Seq(T)
  BY <1>3
<1>6. PICK s : s \in Seq(T) /\ s = x \o y
  BY <1>5, Zenon
<1>7. Len(s) = 3 /\ s[1] = x[1] /\ s[2] = y[1] /\ s[3] = y[2]
  BY <1>3, <1>4, <1>6, SMT
<1>8. s \in Seq(T) /\ Len(s) = 3 /\ s[1] = a /\ s[2] = b /\ s[3] = c
  BY <1>4, <1>6, <1>7, Zenon
<1>9. s = <<a, b, c>>
  BY <1>8
<1> QED
  BY <1>3, <1>6, <1>9, Zenon

\* A flight that is taken is what the server sent next, up to the message that
\* ends it.
LEMMA FlightTaken ==
    ASSUME OriginInv, TypeOK, PipeInv, NEW type, TakeFlight(type)
    PROVE  \E last \in 0 .. LastOf(scenario) + 1 :
              /\ last \in DOMAIN NextStored.complete
              /\ DOMAIN NextStored.complete = lastProcessedSeqNum + 1 .. last
              /\ type = TypeAt(scenario, last)
              /\ type \in expectedResponses /\ expectedResponses # Undefined
              /\ lastProcessedSeqNum' = last
              /\ \A n \in DOMAIN NextStored.complete :
                    /\ Came(scenario, srv.phase, NextStored.complete[n])
                    /\ NextStored.complete[n].message_seq = n
                    /\ NextStored.complete[n].msg_type = TypeAt(scenario, n)
<1>1. messages # <<>> /\ Head(messages).type = "handshake"
  BY Zenon DEF TakeFlight, Incoming
<1> DEFINE complete == NextStored.complete
<1>2. ASSUME NEW n \in DOMAIN complete
      PROVE  /\ Came(scenario, srv.phase, complete[n])
             /\ complete[n].message_seq = n
             /\ complete[n].msg_type = TypeAt(scenario, n)
             /\ n \in 0 .. LastOf(scenario) + 1
  <2>1. Came(scenario, srv.phase, complete[n])
    BY <1>1, StoredCame
  <2>2. \A k \in DOMAIN completeMessages : KeptMessage(completeMessages, k)
    BY DEF TypeOK, KeptMessage
  <2>3. KeptMessage(complete, n)
    BY <1>1, <2>2, StoredWhole
  <2> HIDE DEF complete
  <2> QED
    BY <2>1, <2>3 DEF Came, OfServer, KeptMessage
<1>3. PICK last \in DOMAIN complete :
          /\ FlightEndsAt(NextStored, last) /\ complete[last].msg_type = type
          /\ lastProcessedSeqNum' = complete[last].message_seq
  BY Zenon DEF TakeFlight
<1>4. /\ DOMAIN complete = lastProcessedSeqNum + 1 .. last
      /\ complete[last].msg_type \in expectedResponses
      /\ expectedResponses # Undefined
  BY <1>3, Zenon DEF FlightEndsAt
<1> QED
  BY <1>2, <1>3, <1>4

\* What both sides have sent, when the server asks for a cookie, up to the
\* client's Finished: the transcript of the handshake so far.
Agreed == <<<<"client_hello", 1>>>>
              \o [k \in DOMAIN Flight4Types |-> Entry(Flight4Messages[k])]

\* Flight 4 adds what the server hashed of it.
LEMMA FlightAgreed ==
    ASSUME OriginInv, TypeOK, PipeInv, TakeFlight("server_hello_done"),
           scenario.cookie, lastProcessedSeqNum = 0
    PROVE  <<<<"client_hello", 1>>>> \o Entries(CurrentFlight) = Agreed
<1> DEFINE complete == NextStored.complete
           z == LastOf(scenario)
<1>1. PICK last \in 0 .. z + 1 :
          /\ DOMAIN complete = lastProcessedSeqNum + 1 .. last
          /\ "server_hello_done" = TypeAt(scenario, last)
          /\ \A n \in DOMAIN complete :
                /\ complete[n].message_seq = n
                /\ complete[n].msg_type = TypeAt(scenario, n)
  BY FlightTaken
<1>2. last = z
  BY <1>1, TypeNumbers
<1>3. z \in Nat /\ FirstOf(scenario) = 1 /\ z \in {2, 3} /\ (z = 3 <=> scenario.hint)
  BY PlanNumbers
<1> HIDE DEF complete, z
<1>4. DOMAIN complete = 1 .. z
  BY <1>1, <1>2, <1>3
<1>5. Cardinality(1 .. z) = z
  <2>1. Cardinality(1 .. z) = IF 1 > z THEN 0 ELSE z - 1 + 1
    BY <1>3, FS_Interval
  <2> QED
    BY <1>3, <2>1
<1> DEFINE msgs == CurrentFlight
<1>6. msgs = [i \in 1 .. z |-> complete[i]]
  <2>1. msgs = [i \in 1 .. Cardinality(DOMAIN complete) |->
                   complete[lastProcessedSeqNum + i]]
    BY Zenon DEF CurrentFlight, FlightMessages, complete
  <2>2. \A i \in 1 .. z : lastProcessedSeqNum + i = i
    OBVIOUS
  <2>3. msgs = [i \in 1 .. z |-> complete[lastProcessedSeqNum + i]]
    BY <1>4, <1>5, <2>1, Zenon
  <2>4. [i \in 1 .. z |-> complete[lastProcessedSeqNum + i]]
            = [i \in 1 .. z |-> complete[i]]
    BY <2>2
  <2> QED
    BY <2>3, <2>4
<1> HIDE DEF msgs
<1>7. DOMAIN msgs = 1 .. z /\ \A i \in 1 .. z : msgs[i] = complete[i]
  BY <1>6
<1>8. ASSUME NEW i \in 1 .. z
      PROVE  /\ needsToHashMessage(msgs[i])
             /\ Entry(msgs[i]) = <<TypeAt(scenario, i), i>>
  <2>1. msgs[i].msg_type = TypeAt(scenario, i) /\ msgs[i].message_seq = i
    BY <1>1, <1>4, <1>7
  <2>2. TypeAt(scenario, i) \notin {"hello_verify_request", "hello_request",
                                   "client_hello"}
    <3>1. i \in 0 .. LastOf(scenario) + 1 /\ ~ i < FirstOf(scenario)
      BY <1>3 DEF z
    <3> QED
      BY <3>1, TypeNumbers
  <2> QED
    BY <2>1, <2>2 DEF needsToHashMessage, Entry
<1>9. Entries(msgs) = [i \in 1 .. z |-> <<TypeAt(scenario, i), i>>]
  <2>1. msgs \in Seq({msgs[i] : i \in 1 .. z})
    <3> DEFINE S == {msgs[i] : i \in 1 .. z}
    <3>1. \A i \in 1 .. z : complete[i] \in S
      BY <1>7
    <3> HIDE DEF S
    <3>2. msgs \in [1 .. z -> S]
      BY <1>6, <3>1
    <3>3. msgs \in Seq(S)
      BY <1>3, <3>2, FromFunction
    <3> QED
      BY <3>3 DEF S
  <2>2. \A i \in DOMAIN msgs : needsToHashMessage(msgs[i])
    BY <1>7, <1>8
  <2>3. Entries(msgs) = [i \in DOMAIN msgs |-> Entry(msgs[i])]
    BY <2>1, <2>2, EntriesOfAll
  <2>4. [i \in 1 .. z |-> Entry(msgs[i])] = [i \in 1 .. z |-> <<TypeAt(scenario, i), i>>]
    BY <1>8
  <2> QED
    BY <1>7, <2>3, <2>4
<1>10. [k \in DOMAIN Flight4Types |-> Entry(Flight4Messages[k])]
           = [i \in 1 .. z |-> <<TypeAt(scenario, i), i>>]
  <2>1. DOMAIN Flight4Types = 1 .. z
    <3>1. CASE scenario.hint
      BY <1>3, <3>1 DEF Flight4Types
    <3>2. CASE ~ scenario.hint
      BY <1>3, <3>2 DEF Flight4Types
    <3> QED
      BY <3>1, <3>2
  <2>2. ASSUME NEW k \in 1 .. z
        PROVE  Entry(Flight4Messages[k]) = <<TypeAt(scenario, k), k>>
    <3>1. Flight4Types[k] = TypeAt(scenario, k)
      <4>1. CASE scenario.hint
        <5>1. Flight4Types = <<"server_hello", "server_key_exchange", "server_hello_done">>
          BY <4>1, Zenon DEF Flight4Types
        <5> QED
          BY <1>3, <4>1, <5>1 DEF TypeAt, z
      <4>2. CASE ~ scenario.hint
        <5>1. Flight4Types = <<"server_hello", "server_hello_done">>
          BY <4>2, Zenon DEF Flight4Types
        <5> QED
          BY <1>3, <4>2, <5>1 DEF TypeAt, z
      <4> QED
        BY <4>1, <4>2
    <3>2. Flight4Messages[k] = Msg(Flight4Types[k], FirstSeq + k - 1, <<scenario.suite>>)
      BY <2>1, Zenon DEF Flight4Messages
    <3>3. FirstSeq + k - 1 = k
      BY DEF FirstSeq
    <3> QED
      BY <3>1, <3>2, <3>3 DEF Msg, Entry
  <2>3. [k \in 1 .. z |-> Entry(Flight4Messages[k])]
            = [i \in 1 .. z |-> <<TypeAt(scenario, i), i>>]
    BY <2>2
  <2> QED
    BY <2>1, <2>3, Zenon
<1> QED
  BY <1>9, <1>10, Zenon DEF Agreed, msgs

\* The handler waits for the server's first answer ...
AwaitsAnswer ==
    /\ expectedResponses = {"server_hello_done", "hello_verify_request"}
    /\ lastProcessedSeqNum = -1 /\ lastSentSeqNum = 0 /\ allHandshakeData = <<>>
    /\ scenario.cookie => srv.phase = "listen"

\* ... for flight 4, with the cookie sent ...
AwaitsFlight4 ==
    /\ expectedResponses = {"server_hello_done"}
    /\ lastProcessedSeqNum = 0 /\ lastSentSeqNum = 1
    /\ allHandshakeData = <<<<"client_hello", 1>>>>
    /\ scenario.cookie

\* ... or for the Finished, or nothing.
StageInv ==
    \/ AwaitsAnswer \/ AwaitsFlight4
    \/ (expectedResponses = {"finished"} \/ expectedResponses = Undefined)
           /\ lastProcessedSeqNum >= 0

\* The server has answered, and the answer was taken.
Asked == lastProcessedSeqNum >= 0

Says(d, type) == d[1].type = "handshake" /\ d[1].data.msg_type = type
SaysCookie(d) == IsHello(d) /\ d[1].data.body = Cookie
SaysFirst(d) == IsHello(d) /\ d[1].data.body # Cookie

\* What the client says to a server that asks for a cookie: an alert, a
\* ClientHello, the second one with the cookie, or flight 5 over the transcript
\* that server has.
SentFlight(agreed, d) ==
    \/ Len(d) = 1 /\ d[1].type = "alert"
    \/ /\ Len(d) = 1 /\ IsHello(d)
       /\ d[1].data.body = Cookie => d[1].data.message_seq = 1
    \/ /\ Len(d) = 3 /\ Says(d, "client_key_exchange")
       /\ Entry(d[1].data) = <<"client_key_exchange", 2>>
       /\ d[3].data.body =
             VerifyData("client", Append(agreed, <<"client_key_exchange", 2>>))

SentProperly(d) == /\ SentFlight(Agreed, d)
                   /\ SaysCookie(d) => Asked

SentInv ==
    scenario.cookie =>
        /\ \E Q : toServer \in Seq(Q) /\ \A d \in Q : SentProperly(d)
        /\ \A d : d = flight \o outgoing /\ d # <<>> => SentProperly(d)

\* The server has the transcript both sides agree on and does not fail.
ServedInv ==
    scenario.cookie => /\ srv.phase = "negotiating" => srv.transcript = Agreed
                       /\ srv.phase # "failed"

\* The message that ends a flight tells how far the handler was.
LEMMA TakenAt ==
    ASSUME OriginInv, TypeOK, PipeInv, StageInv, NEW type, TakeFlight(type)
    PROVE  /\ lastProcessedSeqNum' \in Nat
           /\ type = "hello_verify_request" =>
                 /\ AwaitsAnswer /\ scenario.cookie /\ lastProcessedSeqNum' = 0
           /\ type = "server_hello_done" =>
                 /\ AwaitsAnswer \/ AwaitsFlight4
                 /\ scenario.cookie => AwaitsFlight4
<1>1. PICK last \in 0 .. LastOf(scenario) + 1 :
          /\ last \in DOMAIN NextStored.complete
          /\ type = TypeAt(scenario, last)
          /\ type \in expectedResponses /\ expectedResponses # Undefined
          /\ lastProcessedSeqNum' = last
          /\ Came(scenario, srv.phase, NextStored.complete[last])
          /\ NextStored.complete[last].message_seq = last
  BY FlightTaken
<1>2. /\ FirstOf(scenario) \in {0, 1} /\ (FirstOf(scenario) = 1 <=> scenario.cookie)
      /\ LastOf(scenario) \in Nat /\ LastOf(scenario) > FirstOf(scenario)
  BY PlanNumbers
<1>3. CASE type = "hello_verify_request"
  <2>1. AwaitsAnswer
    BY <1>1, <1>3 DEF StageInv, AwaitsFlight4
  <2>2. last < FirstOf(scenario)
    BY <1>1, <1>3, TypeNumbers
  <2>3. last = 0 /\ scenario.cookie
    BY <1>2, <2>2
  <2> QED
    BY <1>1, <1>3, <2>1, <2>3
<1>4. CASE type = "server_hello_done"
  <2>1. AwaitsAnswer \/ AwaitsFlight4
    BY <1>1, <1>4 DEF StageInv
  <2>2. last = LastOf(scenario)
    BY <1>1, <1>4, TypeNumbers
  <2>3. srv.phase # "listen"
    BY <1>1, <1>2, <2>2 DEF Came
  <2>4. scenario.cookie => AwaitsFlight4
    BY <2>1, <2>3 DEF AwaitsAnswer
  <2> QED
    BY <1>1, <1>2, <1>4, <2>1, <2>4
<1> QED
  BY <1>1, <1>2, <1>3, <1>4

\* A ClientHello with the cookie leaves the handler once it was asked for it.
LEMMA HelloAsked ==
    ASSUME SentInv, scenario.cookie, NEW records, Answer(records)
    PROVE  Asked /\ srv.phase = "listen"
<1>1. PICK Q : /\ toServer \in Seq(Q)
               /\ \A d \in Q : SentProperly(d)
  BY DEF SentInv
<1>2. PICK i \in DOMAIN toServer :
          /\ IsHello(toServer[i])
          /\ ~ (scenario.cookie /\ toServer[i][1].data.body # Cookie)
          /\ srv.phase = "listen"
  BY Zenon DEF Answer
<1>3. SaysCookie(toServer[i])
  BY <1>2 DEF SaysCookie
<1>4. toServer[i] \in Q
  BY <1>1, <1>2
<1> QED
  BY <1>1, <1>2, <1>3, <1>4 DEF SentProperly

LEMMA StageNext ==
    ASSUME OriginInv, TypeOK, PipeInv, StageInv, SentInv, [Next]_vars
    PROVE  StageInv'
<1>0. scenario' = scenario
  BY PlanKept
<1>1. CASE HandleHelloVerifyRequest
  <2>1. TakeFlight("hello_verify_request")
    BY <1>1, Zenon DEF HandleHelloVerifyRequest
  <2>2. AwaitsAnswer /\ scenario.cookie /\ lastProcessedSeqNum' = 0
    BY <2>1, TakenAt
  <2> DEFINE hello == Hello(lastSentSeqNum + 1, Cookie)
             complete == NextStored.complete
  <2>3. /\ lastSentSeqNum' = lastSentSeqNum + Len(<<hello>>)
        /\ allHandshakeData' = (allHandshakeData \o Entries(CurrentFlight))
                                  \o Entries(<<hello>>)
        /\ expectedResponses' = {"server_hello_done"}
    BY <1>1, Zenon DEF HandleHelloVerifyRequest, sendFlight
  <2>4. Entries(<<hello>>) = <<<<"client_hello", 1>>>>
    <3>1. /\ hello.msg_type = "client_hello" /\ hello.message_seq = 1
          /\ hello.body = Cookie
      BY <2>2 DEF Hello, Msg, AwaitsAnswer
    <3> HIDE DEF hello
    <3>2. needsToHashMessage(hello) /\ Entry(hello) = <<"client_hello", 1>>
      BY <3>1 DEF needsToHashMessage, Entry
    <3> DEFINE msgs == <<hello>>
    <3>3. msgs \in Seq({hello}) /\ DOMAIN msgs = {1} /\ msgs[1] = hello
      OBVIOUS
    <3> HIDE DEF msgs
    <3>4. Entries(msgs) = [i \in DOMAIN msgs |-> Entry(msgs[i])]
      BY <3>2, <3>3, EntriesOfAll
    <3>5. [i \in {1} |-> <<"client_hello", 1>>] = <<<<"client_hello", 1>>>>
      OBVIOUS
    <3>6. [i \in DOMAIN msgs |-> Entry(msgs[i])] = [i \in {1} |-> <<"client_hello", 1>>]
      BY <3>2, <3>3
    <3> QED
      BY <3>4, <3>5, <3>6, Zenon DEF msgs
  <2>5. Entries(CurrentFlight) = <<>>
    <3>1. PICK last \in 0 .. LastOf(scenario) + 1 :
              /\ DOMAIN complete = lastProcessedSeqNum + 1 .. last
              /\ "hello_verify_request" = TypeAt(scenario, last)
              /\ lastProcessedSeqNum' = last
              /\ \A n \in DOMAIN complete : complete[n].msg_type = TypeAt(scenario, n)
      BY <2>1, FlightTaken
    <3> HIDE DEF complete
    <3>2. DOMAIN complete = {0} /\ complete[0].msg_type = "hello_verify_request"
      BY <2>2, <3>1 DEF AwaitsAnswer
    <3>3. Cardinality(DOMAIN complete) = 1
      BY <3>2, FS_Singleton
    <3>4. CurrentFlight = [i \in 1 .. Cardinality(DOMAIN complete) |->
                               complete[lastProcessedSeqNum + i]]
      BY Zenon DEF CurrentFlight, FlightMessages, complete
    <3>5. CurrentFlight = <<complete[0]>>
      BY <2>2, <3>3, <3>4 DEF AwaitsAnswer
    <3>6. ~ needsToHashMessage(complete[0])
      BY <3>2 DEF needsToHashMessage
    <3> QED
      BY <3>5, <3>6, EntriesOfNone
  <2>6. allHandshakeData' = <<<<"client_hello", 1>>>>
    <3> DEFINE entries == <<<<"client_hello", 1>>>>
    <3>1. entries \in Seq({<<"client_hello", 1>>})
      OBVIOUS
    <3> HIDE DEF entries
    <3>2. (<<>> \o <<>>) \o entries = entries
      BY <3>1
    <3>3. allHandshakeData = <<>>
      BY <2>2 DEF AwaitsAnswer
    <3> QED
      BY <2>3, <2>4, <2>5, <3>2, <3>3 DEF entries
  <2>7. lastSentSeqNum' = 1
    BY <2>2, <2>3 DEF AwaitsAnswer
  <2> QED
    BY <1>0, <2>2, <2>3, <2>6, <2>7 DEF StageInv, AwaitsFlight4
<1>2. CASE HandleServerHelloDone
  <2>1. /\ TakeFlight("server_hello_done")
        /\ expectedResponses' \in {{"finished"}, Undefined}
    BY <1>2 DEF HandleServerHelloDone, sendFlight
  <2>2. lastProcessedSeqNum' \in Nat
    BY <2>1, TakenAt
  <2> QED
    BY <2>1, <2>2 DEF StageInv
<1>3. CASE HandleFinished
  <2>1. TakeFlight("finished") /\ expectedResponses' = Undefined
    BY <1>3, Zenon DEF HandleFinished
  <2>2. lastProcessedSeqNum' \in Nat
    BY <2>1, TakenAt
  <2> QED
    BY <2>1, <2>2 DEF StageInv
<1>4. CASE UNCHANGED <<expectedResponses, lastProcessedSeqNum, lastSentSeqNum,
                       allHandshakeData>>
  <2>1. AwaitsAnswer /\ scenario.cookie => srv'.phase = "listen"
    <3>1. CASE UNCHANGED srv
      BY <3>1 DEF AwaitsAnswer
    <3>2. ASSUME NEW records, Speaks(records), AwaitsAnswer, scenario.cookie
          PROVE  srv'.phase = "listen"
      <4>1. srv.phase = "listen" /\ ~ Asked
        BY <3>2 DEF AwaitsAnswer, Asked
      <4>2. AskAgain(records)
        BY <3>2, <4>1, HelloAsked
        DEF Speaks, Repeat, Finish, Refuse, SendData
      <4> QED
        BY <4>1, <4>2 DEF AskAgain
    <3> QED
      BY <3>1, <3>2, ServerSteps
  <2>2. AwaitsAnswer => AwaitsAnswer'
    BY <1>0, <1>4, <2>1 DEF AwaitsAnswer
  <2>3. AwaitsFlight4 => AwaitsFlight4'
    BY <1>0, <1>4 DEF AwaitsFlight4
  <2> QED
    BY <1>4, <2>2, <2>3 DEF StageInv
<1>5. CASE \/ Collect \/ HandleChangeCipherSpec \/ HandleFatalAlert
           \/ HandleApplicationData
           \/ Filter \/ MarkOne \/ ProcessOutgoing \/ SendDatagram \/ ReceiveDatagram
           \/ AlertSent \/ Disturb \/ ServerReceive \/ ServerRetransmit
           \/ ServerSendData \/ Timeout \/ UNCHANGED vars
  <2>1. UNCHANGED <<expectedResponses, lastProcessedSeqNum, lastSentSeqNum,
                    allHandshakeData>>
    BY <1>5, Zenon
    DEF Collect, HandleChangeCipherSpec, HandleFatalAlert, HandleApplicationData,
        Filter, MarkOne, ProcessOutgoing, SendDatagram, ReceiveDatagram, AlertSent,
        Disturb, ServerReceive, ServerRetransmit, ServerSendData, Timeout,
        othersUnchanged, handlerVars, vars
  <2> QED
    BY <1>4, <2>1
<1> QED
  BY <1>1, <1>2, <1>3, <1>5, Zenon DEF Next, Internal

\* A flight is taken as it was meant: only what it says counts.
LEMMA SentAlike ==
    ASSUME NEW d, NEW e, SentProperly(d), Len(e) = Len(d),
           \A i \in 1 .. Len(d) : e[i].type = d[i].type /\ e[i].data = d[i].data
    PROVE  SentProperly(e)
<1>1. Len(d) \in {1, 3}
  BY DEF SentProperly, SentFlight
<1>2. 1 \in 1 .. Len(d) /\ (Len(d) = 3 => 3 \in 1 .. Len(d))
  BY <1>1
<1>3. /\ e[1].type = d[1].type /\ e[1].data = d[1].data
      /\ Len(d) = 3 => e[3].data = d[3].data
  BY <1>2
<1>4. SentFlight(Agreed, e)
  BY <1>3 DEF SentProperly, SentFlight, IsHello, Says
<1> QED
  BY <1>3, <1>4 DEF SentProperly, SaysCookie, IsHello

LEMMA AskedStays ==
    ASSUME OriginInv, TypeOK, PipeInv, StageInv, [Next]_vars
    PROVE  /\ Agreed' = Agreed /\ (Asked => Asked')
           /\ \A type : TakeFlight(type) => Asked'
<1>1. scenario' = scenario
  BY PlanKept
<1>2. Agreed' = Agreed
  BY <1>1 DEF Agreed, Flight4Types, Flight4Messages, FirstSeq
<1>3. ASSUME NEW type, TakeFlight(type)
      PROVE  Asked'
  BY <1>3, TakenAt DEF Asked
<1>4. ASSUME Asked, UNCHANGED lastProcessedSeqNum
      PROVE  Asked'
  BY <1>4 DEF Asked
<1>5. CASE HandleHelloVerifyRequest \/ HandleServerHelloDone \/ HandleFinished
  <2>1. \E type : TakeFlight(type)
    BY <1>5, Zenon
    DEF HandleHelloVerifyRequest, HandleServerHelloDone, HandleFinished
  <2> QED
    BY <1>2, <1>3, <2>1
<1>6. CASE \/ Collect \/ HandleChangeCipherSpec \/ HandleFatalAlert
           \/ HandleApplicationData
           \/ Filter \/ MarkOne \/ ProcessOutgoing \/ SendDatagram \/ ReceiveDatagram
           \/ AlertSent \/ Disturb \/ ServerReceive \/ ServerRetransmit
           \/ ServerSendData \/ Timeout \/ UNCHANGED vars
  <2>1. UNCHANGED lastProcessedSeqNum
    BY <1>6, Zenon
    DEF Collect, HandleChangeCipherSpec, HandleFatalAlert, HandleApplicationData,
        Filter, MarkOne, ProcessOutgoing, SendDatagram, ReceiveDatagram, AlertSent,
        Disturb, ServerReceive, ServerRetransmit, ServerSendData, Timeout,
        othersUnchanged, handlerVars, vars
  <2> QED
    BY <1>2, <1>3, <1>4, <2>1
<1> QED
  BY <1>5, <1>6, Zenon DEF Next, Internal

LEMMA SentStays ==
    ASSUME Agreed' = Agreed, Asked => Asked', NEW d, SentProperly(d)
    PROVE  SentProperly(d)'
<1>1. SentFlight(Agreed, d)'
  BY DEF SentProperly, SentFlight, IsHello, Says, VerifyData
<1> QED
  BY <1>1 DEF SentProperly, SaysCookie, IsHello

\* What the handler sends in a step.
LEMMA HandlerSends ==
    ASSUME OriginInv, TypeOK, PipeInv, StageInv, [Next]_vars, scenario.cookie,
           HandleHelloVerifyRequest \/ HandleServerHelloDone \/ HandleFinished
    PROVE  /\ flight = <<>> /\ outgoing = <<>> /\ flight' = <<>>
           /\ \E d : /\ outgoing' = d
                     /\ d = <<>> \/ (SentProperly(d)' /\ \E S : d \in Seq(S))
                     /\ d = <<>> \/ ~ SaysFirst(d)
<1>1. PICK type : TakeFlight(type)
  BY Zenon DEF HandleHelloVerifyRequest, HandleServerHelloDone, HandleFinished
<1>2. Asked' /\ Agreed' = Agreed
  BY <1>1, AskedStays
<1>3. flight = <<>> /\ outgoing = <<>>
  BY <1>1, Zenon DEF TakeFlight, Incoming, NextMessage, Sending
<1>4. flight' = flight
  BY Zenon DEF HandleHelloVerifyRequest, HandleServerHelloDone, HandleFinished
<1>5. ASSUME NEW d, SentFlight(Agreed, d)
      PROVE  SentProperly(d)'
  <2>1. SentFlight(Agreed, d)'
    BY <1>2, <1>5 DEF SentFlight, IsHello, Says, VerifyData
  <2> QED
    BY <1>2, <2>1 DEF SentProperly
<1>10. PICK sent : outgoing' = sent
  OBVIOUS
<1> SUFFICES \/ sent = <<>>
             \/ /\ SentFlight(Agreed, sent) /\ ~ SaysFirst(sent)
                /\ \E S : sent \in Seq(S)
  BY <1>3, <1>4, <1>5, <1>10
<1>6. ASSUME sent = <<Alert>>
      PROVE  /\ SentFlight(Agreed, sent) /\ ~ SaysFirst(sent)
             /\ \E S : sent \in Seq(S)
  <2>1. Alert.type = "alert"
    BY DEF Alert
  <2> HIDE DEF Alert
  <2>2. Len(sent) = 1 /\ sent[1] = Alert /\ sent \in Seq({Alert})
    BY <1>6
  <2> QED
    BY <2>1, <2>2 DEF SentFlight, SaysFirst, IsHello
<1>7. CASE HandleHelloVerifyRequest
  <2> DEFINE hello == Hello(lastSentSeqNum + 1, Cookie)
  <2>1. TakeFlight("hello_verify_request") /\ sent = Wire(hello)
    BY <1>7, <1>10, Zenon DEF HandleHelloVerifyRequest, sendFlight
  <2>2. lastSentSeqNum = 0
    BY <2>1, TakenAt DEF AwaitsAnswer
  <2>3. /\ hello.msg_type = "client_hello" /\ hello.message_seq = 1
        /\ hello.body = Cookie /\ hello.total_length = 1
    BY <2>2 DEF Hello, Msg, LengthOf
  <2> HIDE DEF hello
  <2>4. sent = Fragments(hello)
    BY <2>1, <2>3 DEF Wire
  <2>5. PICK f : /\ sent = <<HandshakeMessage(f)>>
                 /\ f.msg_type = "client_hello" /\ f.message_seq = 1
                 /\ f.body = Cookie
    BY <2>3, <2>4, OneFragment
  <2>6. PICK m : /\ sent = <<m>> /\ m.type = "handshake" /\ m.data = f
    BY <2>5 DEF HandshakeMessage
  <2>7. Len(sent) = 1 /\ sent[1] = m /\ sent \in Seq({m})
    BY <2>6
  <2> QED
    BY <2>5, <2>6, <2>7 DEF SentFlight, SaysFirst, IsHello
<1>8. CASE HandleServerHelloDone
  <2> DEFINE hashed == allHandshakeData \o Entries(CurrentFlight)
             cke == Msg("client_key_exchange", lastSentSeqNum + 1, <<"psk">>)
             fin == Msg("finished", lastSentSeqNum + 2,
                        VerifyData("client", Append(hashed, Entry(cke))))
  <2>1. /\ TakeFlight("server_hello_done")
        /\ \/ sent = Wire(cke) \o Wire(fin)
           \/ sent = <<Alert>> \/ sent = outgoing
    <3>1. TakeFlight("server_hello_done")
      BY <1>8, Zenon DEF HandleServerHelloDone
    <3>2. PICK h \in {hashed} :
              \/ sent = Wire(cke) \o Wire(Msg("finished", lastSentSeqNum + 2,
                        VerifyData("client", Append(h, Entry(cke)))))
              \/ sent = <<Alert>> \/ sent = outgoing
      BY <1>8, <1>10, Zenon DEF HandleServerHelloDone, sendFlight
    <3>3. h = hashed
      BY <3>2, Zenon
    <3> QED
      BY <3>1, <3>2, <3>3, Zenon
  <2>2. AwaitsFlight4
    BY <2>1, TakenAt
  <2>3. hashed = Agreed
    <3>1. <<<<"client_hello", 1>>>> \o Entries(CurrentFlight) = Agreed
      BY <2>1, <2>2, FlightAgreed DEF AwaitsFlight4
    <3> QED
      BY <2>2, <3>1, Zenon DEF AwaitsFlight4
  <2>4. /\ cke.msg_type = "client_key_exchange" /\ cke.message_seq = 2
        /\ cke.total_length = 1
    BY <2>2 DEF Msg, LengthOf, AwaitsFlight4
  <2> HIDE DEF cke, hashed
  <2>5. Entry(cke) = <<"client_key_exchange", 2>>
    BY <2>4 DEF Entry
  <2>6. /\ fin.msg_type = "finished" /\ fin.total_length = 1
        /\ fin.body = VerifyData("client", Append(Agreed, <<"client_key_exchange", 2>>))
    BY <2>3, <2>5 DEF Msg, LengthOf
  <2> HIDE DEF fin
  <2>7. CASE sent = Wire(cke) \o Wire(fin)
    <3>1. Wire(cke) = Fragments(cke) /\ Wire(fin) = <<CCS>> \o Fragments(fin)
      BY <2>4, <2>6 DEF Wire
    <3>2. PICK f : /\ Fragments(cke) = <<HandshakeMessage(f)>>
                   /\ f.msg_type = cke.msg_type /\ f.message_seq = cke.message_seq
      BY <2>4, OneFragment
    <3>3. PICK g : /\ Fragments(fin) = <<HandshakeMessage(g)>> /\ g.body = fin.body
      BY <2>6, OneFragment
    <3>4. PICK a, b, c : /\ Fragments(cke) = <<a>> /\ Fragments(fin) = <<c>> /\ b = CCS
                         /\ a.type = "handshake" /\ a.data = f /\ c.data = g
      BY <3>2, <3>3 DEF HandshakeMessage
    <3>5. sent = <<a, b, c>>
      <4>1. <<b>> \o <<c>> = <<b, c>>
        BY TwoItems
      <4>2. <<a>> \o <<b, c>> = <<a, b, c>>
        BY ThreeItems
      <4> QED
        BY <2>7, <3>1, <3>4, <4>1, <4>2, Zenon
    <3>6. /\ Len(sent) = 3 /\ sent[1] = a /\ sent[3] = c
          /\ sent \in Seq({a, b, c})
      BY <3>5
    <3>7. /\ a.data.msg_type = "client_key_exchange"
          /\ Entry(a.data) = <<"client_key_exchange", 2>>
          /\ c.data.body = VerifyData("client", Append(Agreed, <<"client_key_exchange", 2>>))
      BY <2>4, <2>6, <3>2, <3>3, <3>4 DEF Entry
    <3>8. SentFlight(Agreed, sent)
      BY <3>4, <3>6, <3>7, Zenon DEF SentFlight, Says
    <3>9. ~ SaysFirst(sent)
      BY <3>6, <3>7 DEF SaysFirst, IsHello
    <3> QED
      BY <3>6, <3>8, <3>9
  <2> QED
    BY <1>3, <1>6, <2>1, <2>7
<1>9. CASE HandleFinished
  <2>1. sent = <<Alert>> \/ sent = outgoing
    BY <1>9, <1>10, Zenon DEF HandleFinished
  <2> QED
    BY <1>3, <1>6, <2>1
<1> QED
  BY <1>7, <1>8, <1>9

\* A message goes from the handler to a datagram and to the server as it is.
LEMMA SaidNext ==
    ASSUME KeysInv, OriginInv, TypeOK, StageInv, SentInv, [Next]_vars
    PROVE  SentInv'
<1>0. PipeInv /\ scenario' = scenario /\ Agreed' = Agreed /\ (Asked => Asked')
  <2>1. PipeInv
    BY DEF KeysInv
  <2> QED
    BY <2>1, PlanKept, AskedStays
<1> SUFFICES ASSUME scenario.cookie
             PROVE  /\ \E Q : toServer' \in Seq(Q) /\ \A d \in Q : SentProperly(d)'
                    /\ \A d : d = flight' \o outgoing' /\ d # <<>> => SentProperly(d)'
  BY <1>0 DEF SentInv
<1>1. ASSUME NEW d, SentProperly(d)
      PROVE  SentProperly(d)'
  BY <1>0, <1>1, SentStays
<1>2. PICK Q : toServer \in Seq(Q) /\ \A d \in Q : SentProperly(d)
  BY DEF SentInv
<1>3. PICK S : flight \in Seq(S) /\ outgoing \in Seq(S)
  <2>1. PICK A, B : flight \in Seq(A) /\ outgoing \in Seq(B)
    BY DEF KeysInv, SendInv, SentUnder, Flights
  <2>2. flight \in Seq(A \cup B) /\ outgoing \in Seq(A \cup B)
    BY <2>1
  <2> QED
    BY <2>2
<1>4. \A d : d = flight \o outgoing /\ d # <<>> => SentProperly(d)
  BY DEF SentInv
<1>5. ASSUME toServer' \in Seq(Q)
      PROVE  \E U : toServer' \in Seq(U) /\ \A d \in U : SentProperly(d)'
  BY <1>1, <1>2, <1>5
<1>6. ASSUME UNCHANGED <<flight, outgoing>>
      PROVE  \A d : d = flight' \o outgoing' /\ d # <<>> => SentProperly(d)'
  BY <1>1, <1>4, <1>6
<1>7. CASE ProcessOutgoing
  <2> DEFINE d == flight \o outgoing
             e == flight' \o outgoing'
             r == Stamp(Head(outgoing))
  <2>1. /\ outgoing # <<>> /\ outgoing' = Tail(outgoing)
        /\ flight' = Append(flight, r) /\ toServer' = toServer
    BY <1>7, Zenon DEF ProcessOutgoing, processOutgoingMessage, netVars
  <2>2. r.type = Head(outgoing).type /\ r.data = Head(outgoing).data
    BY DEF Stamp
  <2>3. PICK k \in Nat, n \in Nat : k = Len(flight) /\ n = Len(outgoing)
    BY <1>3
  <2>4. PICK x, T : x = r /\ T = S \cup {x}
    OBVIOUS
  <2> HIDE DEF r
  <2>5. /\ n >= 1 /\ Head(outgoing) = outgoing[1]
        /\ Tail(outgoing) \in Seq(T) /\ Len(Tail(outgoing)) = n - 1
        /\ \A i \in 1 .. n - 1 : Tail(outgoing)[i] = outgoing[i + 1]
    <3>1. outgoing \in Seq(T)
      BY <1>3, <2>4
    <3> QED
      BY <2>1, <2>3, <3>1
  <2>6. /\ Append(flight, x) \in Seq(T) /\ Len(Append(flight, x)) = k + 1
        /\ Append(flight, x)[k + 1] = x
        /\ \A i \in 1 .. k : Append(flight, x)[i] = flight[i]
    <3>1. flight \in Seq(T) /\ x \in T
      BY <1>3, <2>4
    <3> QED
      BY <2>3, <3>1
  <2>7. PICK fl \in Seq(T), out \in Seq(T) : fl = Append(flight, x) /\ out = Tail(outgoing)
    BY <2>5, <2>6
  <2>8. e = fl \o out
    BY <2>1, <2>4, <2>7
  <2>9. /\ Len(fl \o out) = k + n
        /\ \A i \in 1 .. k : (fl \o out)[i] = flight[i]
        /\ (fl \o out)[k + 1] = x
        /\ \A i \in k + 2 .. k + n : (fl \o out)[i] = outgoing[i - k]
    <3>1. Len(fl) = k + 1 /\ Len(out) = n - 1
      BY <2>5, <2>6, <2>7
    <3>2. ASSUME NEW i \in 1 .. k + n
          PROVE  (fl \o out)[i] = IF i <= k + 1 THEN fl[i] ELSE out[i - (k + 1)]
      BY <2>3, <2>5, <3>1
    <3>3. ASSUME NEW i \in k + 2 .. k + n
          PROVE  (fl \o out)[i] = outgoing[i - k]
      <4>1. i - (k + 1) \in 1 .. n - 1 /\ ~ i <= k + 1 /\ i \in 1 .. k + n
        BY <2>3, <3>3
      <4>2. out[i - (k + 1)] = outgoing[i - (k + 1) + 1]
        BY <2>5, <2>7, <4>1
      <4>3. i - (k + 1) + 1 = i - k
        BY <2>3
      <4> QED
        BY <3>2, <4>1, <4>2, <4>3
    <3>4. ASSUME NEW i \in 1 .. k
          PROVE  (fl \o out)[i] = flight[i]
      <4>1. i <= k + 1 /\ i \in 1 .. k + n
        BY <2>3
      <4> QED
        BY <2>6, <2>7, <3>2, <4>1
    <3>5. (fl \o out)[k + 1] = x
      <4>1. k + 1 <= k + 1 /\ k + 1 \in 1 .. k + n
        BY <2>3, <2>5
      <4> QED
        BY <2>6, <2>7, <3>2, <4>1
    <3>6. Len(fl \o out) = k + n
      BY <2>3, <2>5, <3>1
    <3> QED
      BY <3>3, <3>4, <3>5, <3>6, Zenon
  <2>10. /\ Len(flight \o outgoing) = k + n
         /\ \A i \in 1 .. k + n : (flight \o outgoing)[i] =
                IF i <= k THEN flight[i] ELSE outgoing[i - k]
    BY <1>3, <2>3
  <2>11. ASSUME NEW i \in 1 .. k + n
         PROVE  (fl \o out)[i].type = (flight \o outgoing)[i].type
                /\ (fl \o out)[i].data = (flight \o outgoing)[i].data
    <3>1. CASE i <= k
      BY <2>3, <2>9, <2>10, <3>1
    <3>2. CASE i = k + 1
      <4>1. (flight \o outgoing)[i] = outgoing[1]
        <5>1. ~ i <= k /\ i - k = 1
          BY <2>3, <3>2
        <5> QED
          BY <2>10, <5>1
      <4>2. x.type = outgoing[1].type /\ x.data = outgoing[1].data
        BY <2>2, <2>4, <2>5
      <4> QED
        BY <2>9, <3>2, <4>1, <4>2
    <3>3. CASE i > k + 1
      <4>1. i \in k + 2 .. k + n /\ ~ i <= k
        BY <2>3, <3>3
      <4>2. (fl \o out)[i] = outgoing[i - k]
        BY <2>9, <4>1, Zenon
      <4>3. (flight \o outgoing)[i] = outgoing[i - k]
        BY <2>10, <4>1
      <4> QED
        BY <4>2, <4>3, Zenon
    <3>4. i <= k \/ i = k + 1 \/ i > k + 1
      BY <2>3
    <3> QED
      BY <3>1, <3>2, <3>3, <3>4, Zenon
  <2>12. SentProperly(d)
    <3>1. d # <<>>
      BY <2>3, <2>5, <2>10
    <3> QED
      BY <1>4, <3>1
  <2>13. SentProperly(fl \o out)
    <3>1. PICK a, b : a = flight \o outgoing /\ b = fl \o out
      OBVIOUS
    <3>2. /\ SentProperly(a) /\ Len(a) = k + n /\ Len(b) = Len(a)
          /\ \A i \in 1 .. k + n : b[i].type = a[i].type /\ b[i].data = a[i].data
      BY <2>9, <2>10, <2>11, <2>12, <3>1
    <3>3. SentProperly(b)
      BY <3>2, SentAlike
    <3> QED
      BY <3>1, <3>3
  <2>14. \A g : g = flight' \o outgoing' => SentProperly(g)'
    BY <1>1, <2>8, <2>13
  <2> QED
    BY <1>2, <1>5, <2>1, <2>14
<1>8. CASE SendDatagram
  <2>1. /\ outgoing = <<>> /\ flight # <<>> /\ flight' = <<>> /\ outgoing' = outgoing
        /\ toServer' = Append(toServer, flight)
    BY <1>8, Zenon DEF SendDatagram, Transmit
  <2>2. flight \o outgoing = flight /\ flight' \o outgoing' = <<>>
    BY <1>3, <2>1
  <2>3. SentProperly(flight)
    BY <1>4, <2>1, <2>2
  <2>4. PICK U : U = Q \cup {flight}
    OBVIOUS
  <2>5. toServer' \in Seq(U) /\ \A d \in U : SentProperly(d)
    <3>1. toServer \in Seq(U) /\ flight \in U
      BY <1>2, <2>4
    <3> QED
      BY <1>2, <2>1, <2>3, <2>4, <3>1, AppendProperties
  <2> QED
    BY <1>1, <2>2, <2>5
<1>9. CASE HandleHelloVerifyRequest \/ HandleServerHelloDone \/ HandleFinished
  <2>1. toServer' = toServer
    BY <1>9, Zenon
    DEF HandleHelloVerifyRequest, HandleServerHelloDone, HandleFinished, netVars
  <2>2. flight' = <<>>
    BY <1>0, <1>9, HandlerSends
  <2>3. PICK d : /\ outgoing' = d
                 /\ d = <<>> \/ (SentProperly(d)' /\ \E T : d \in Seq(T))
    BY <1>0, <1>9, HandlerSends, Zenon
  <2>4. CASE d = <<>>
    <3>1. flight' \o outgoing' = <<>>
      BY <2>2, <2>3, <2>4
    <3> QED
      BY <1>2, <1>5, <2>1, <3>1
  <2>5. CASE SentProperly(d)' /\ \E T : d \in Seq(T)
    <3>1. flight' \o outgoing' = d
      <4>1. PICK T : d \in Seq(T)
        BY <2>5
      <4>2. <<>> \o d = d
        BY <4>1
      <4> QED
        BY <2>2, <2>3, <4>2
    <3> QED
      BY <1>2, <1>5, <2>1, <2>5, <3>1
  <2> QED
    BY <2>3, <2>4, <2>5
<1>10. CASE Disturb \/ ServerReceive
  <2>1. /\ \/ toServer' = toServer
           \/ \E i \in DOMAIN toServer :
                 \/ toServer' = RemoveAt(toServer, i)
                 \/ toServer' = Append(toServer, toServer[i])
        /\ UNCHANGED <<flight, outgoing>>
    BY <1>10, Zenon DEF Disturb, Disturbed, ServerReceive, recordVars, sendVars
  <2>2. ASSUME NEW i \in DOMAIN toServer
        PROVE  /\ RemoveAt(toServer, i) \in Seq(Q)
               /\ Append(toServer, toServer[i]) \in Seq(Q)
    <3>1. toServer[i] \in Q /\ RemoveAt(toServer, i) \in Seq(Q)
      BY <1>2, RemovedFrom
    <3> QED
      BY <1>2, <3>1, AppendProperties
  <2>3. toServer' \in Seq(Q)
    BY <1>2, <2>1, <2>2, Zenon
  <2> QED
    BY <1>5, <1>6, <2>1, <2>3
<1>11. CASE \/ Collect \/ HandleChangeCipherSpec \/ HandleFatalAlert
            \/ HandleApplicationData \/ Filter \/ MarkOne \/ ReceiveDatagram
            \/ AlertSent \/ ServerRetransmit \/ ServerSendData \/ Timeout
            \/ UNCHANGED vars
  <2>1. UNCHANGED <<flight, outgoing, toServer>>
    BY <1>11, Zenon
    DEF Collect, HandleChangeCipherSpec, HandleFatalAlert, HandleApplicationData,
        Filter, Discard, Decipher, MarkOne, Mark, ReceiveDatagram, Receive,
        AlertSent, ServerRetransmit, ServerSendData, Timeout, sendVars, netVars,
        recordVars, vars
  <2> QED
    BY <1>2, <1>5, <1>6, <2>1
<1> QED
  BY <1>7, <1>8, <1>9, <1>10, <1>11, Zenon DEF Next, Internal

\* The server hears of nothing but the hello with the cookie and flight 5 over
\* the transcript it has itself.
LEMMA ServedNext ==
    ASSUME SrvInv, SentInv, ServedInv, [Next]_vars
    PROVE  ServedInv'
<1>0. scenario' = scenario /\ Agreed' = Agreed
  BY PlanKept DEF Agreed, Flight4Types, Flight4Messages, FirstSeq
<1> SUFFICES ASSUME scenario.cookie
             PROVE  /\ srv'.phase = "negotiating" => srv'.transcript = Agreed
                    /\ srv'.phase # "failed"
  BY <1>0 DEF ServedInv
<1>1. /\ srv.phase = "negotiating" => srv.transcript = Agreed
      /\ srv.phase # "failed"
  BY DEF ServedInv
<1>2. ASSUME NEW i \in DOMAIN toServer
      PROVE  SentFlight(Agreed, toServer[i])
  <2>1. PICK Q : toServer \in Seq(Q) /\ \A d \in Q : SentProperly(d)
    BY DEF SentInv
  <2>2. toServer[i] \in Q
    BY <2>1
  <2> QED
    BY <2>1, <2>2 DEF SentProperly
<1>3. CASE UNCHANGED srv
  BY <1>1, <1>3
<1>4. ASSUME NEW records, Answer(records)
      PROVE  srv'.phase = "negotiating" /\ srv'.transcript = Agreed
  <2> DEFINE typed == [k \in DOMAIN Flight4Types |-> Entry(Flight4Messages[k])]
  <2>1. PICK i \in DOMAIN toServer :
            /\ IsHello(toServer[i]) /\ toServer[i][1].data.body = Cookie
            /\ \E x : srv' = [srv EXCEPT !.phase = "negotiating", !.next = x,
                                 !.transcript = <<Entry(toServer[i][1].data)>> \o typed]
    BY <1>4, Zenon DEF Answer
  <2> HIDE DEF typed
  <2>2. SentFlight(Agreed, toServer[i])
    BY <1>2
  <2>3. toServer[i][1].data.message_seq = 1
        /\ toServer[i][1].data.msg_type = "client_hello"
    BY <2>1, <2>2 DEF SentFlight, IsHello, Says
  <2>4. Entry(toServer[i][1].data) = <<"client_hello", 1>>
    BY <2>3 DEF Entry
  <2>5. <<Entry(toServer[i][1].data)>> \o typed = Agreed
    BY <2>4, Zenon DEF Agreed, typed
  <2> QED
    BY <2>1, <2>5 DEF SrvInv, ServerFields
<1>5. ASSUME NEW records, Refuse(records)
      PROVE  FALSE
  <2>1. PICK i \in DOMAIN toServer :
            /\ Len(toServer[i]) = 3
            /\ toServer[i][3].data.body #
                  VerifyData("client", Append(Agreed, Entry(toServer[i][1].data)))
    BY <1>1, <1>5, Zenon DEF Refuse, IsFlight5
  <2>2. SentFlight(Agreed, toServer[i])
    BY <1>2
  <2>3. PICK d, e : /\ d = toServer[i] /\ e = Entry(d[1].data)
                    /\ Len(d) = 3 /\ SentFlight(Agreed, d)
                    /\ d[3].data.body # VerifyData("client", Append(Agreed, e))
    BY <2>1, <2>2, Zenon
  <2>4. ~ Len(d) = 1
    BY <2>3
  <2> QED
    BY <2>3, <2>4, Zenon DEF SentFlight
<1>6. ASSUME NEW records, Repeat(records) \/ Finish(records) \/ SendData(records)
      PROVE  /\ srv'.phase = "negotiating" => srv'.transcript = Agreed
             /\ srv'.phase # "failed"
  <2>1. \/ \E x, y : srv' = [srv EXCEPT !.retransmits = x, !.next = y]
        \/ \E t : srv' = [srv EXCEPT !.phase = "done", !.transcript = t]
        \/ \E x : srv' = [srv EXCEPT !.data = x]
    BY <1>6, Zenon DEF Repeat, Finish, SendData
  <2>2. ASSUME NEW x, NEW y, srv' = [srv EXCEPT !.retransmits = x, !.next = y]
        PROVE  srv'.phase = srv.phase /\ srv'.transcript = srv.transcript
    BY <2>2 DEF SrvInv, ServerFields
  <2>3. ASSUME NEW t, srv' = [srv EXCEPT !.phase = "done", !.transcript = t]
        PROVE  srv'.phase = "done"
    BY <2>3 DEF SrvInv, ServerFields
  <2>4. ASSUME NEW x, srv' = [srv EXCEPT !.data = x]
        PROVE  srv'.phase = srv.phase /\ srv'.transcript = srv.transcript
    BY <2>4 DEF SrvInv, ServerFields
  <2> QED
    BY <1>1, <2>1, <2>2, <2>3, <2>4
<1>7. ASSUME NEW records, AskAgain(records)
      PROVE  UNCHANGED srv
  BY <1>7, Zenon DEF AskAgain
<1>8. UNCHANGED srv \/ \E records : Speaks(records)
  BY ServerSteps, Zenon
<1> QED
  BY <1>3, <1>4, <1>5, <1>6, <1>7, <1>8, Zenon DEF Speaks

LEMMA ServedInit == Init => OriginInv /\ StageInv /\ SentInv /\ ServedInv
<1> SUFFICES ASSUME Init
             PROVE  OriginInv /\ StageInv /\ SentInv /\ ServedInv
  OBVIOUS
<1> DEFINE hello == Hello(0, NoCookie)
<1>1. /\ datagram = <<>> /\ unmarked = <<>> /\ messages = <<>>
      /\ outgoing = Fragments(hello) /\ flight = <<>>
      /\ toServer = <<>> /\ toClient = <<>>
      /\ incompleteMessages = <<>> /\ completeMessages = <<>>
      /\ expectedResponses = {"server_hello_done", "hello_verify_request"}
      /\ lastProcessedSeqNum = -1 /\ lastSentSeqNum = 0 /\ allHandshakeData = <<>>
      /\ srv = [phase |-> "listen", transcript |-> <<>>, next |-> 0,
                retransmits |-> 0, data |-> 0]
  BY Zenon DEF Init, RecordInit
<1>2. srv.phase = "listen"
  BY <1>1
<1>3. OriginInv
  <2>1. PICK none : none = {}
    OBVIOUS
  <2>2. /\ none \subseteq Seq(none) /\ toClient \in Seq(none)
        /\ datagram \in Seq(none) /\ unmarked \in Seq(none)
        /\ messages \in Seq(Contents(none)) /\ incompleteMessages \in Seq(none)
    BY <1>1, <2>1
  <2>3. Travels(none, none) /\ FromServer(none)
    BY <2>1, <2>2 DEF Travels, FromServer
  <2>4. DOMAIN completeMessages = {}
    BY <1>1
  <2> QED
    BY <2>1, <2>2, <2>3, <2>4, Zenon DEF OriginInv
<1>4. StageInv
  BY <1>1, <1>2 DEF StageInv, AwaitsAnswer
<1>5. SentInv
  <2>1. PICK Q : Q = {} /\ toServer \in Seq(Q)
    BY <1>1
  <2>2. hello.msg_type = "client_hello" /\ hello.body # Cookie
        /\ hello.total_length = 1
    BY DEF Hello, Msg, LengthOf, Cookie, NoCookie
  <2> HIDE DEF hello
  <2>3. PICK f : /\ outgoing = <<HandshakeMessage(f)>>
                 /\ f.msg_type = "client_hello" /\ f.body # Cookie
    BY <1>1, <2>2, OneFragment
  <2>4. PICK m : outgoing = <<m>> /\ m.type = "handshake" /\ m.data = f
    BY <2>3 DEF HandshakeMessage
  <2>5. PICK d : d = flight \o outgoing
    OBVIOUS
  <2>6. Len(d) = 1 /\ d[1] = m
    BY <1>1, <2>4, <2>5
  <2>7. SentProperly(d)
    BY <2>3, <2>4, <2>6 DEF SentProperly, SentFlight, SaysCookie, IsHello
  <2>8. \A e : e = flight \o outgoing => SentProperly(e)
    BY <2>5, <2>7, Zenon
  <2>9. \A q \in Q : SentProperly(q)
    BY <2>1
  <2> QED
    BY <2>1, <2>8, <2>9, Zenon DEF SentInv
<1>6. ServedInv
  BY <1>2 DEF ServedInv
<1> QED
  BY <1>3, <1>4, <1>5, <1>6

\* A server that asks for a cookie accepts the client's Finished: what the client
\* hashed is what the server did, whatever the network loses, repeats or swaps,
\* and whatever the server fragments and repeats.
THEOREM CookieServersAccept == Spec => []CookieServerAccepts
<1> DEFINE Inv == OriginInv /\ StageInv /\ SentInv /\ ServedInv
<1>1. (KeysInv /\ SrvInv) /\ [Next]_vars => (KeysInv /\ SrvInv)'
  BY KeysKeep
<1>2. KeysInv /\ SrvInv /\ TypeOK /\ Inv /\ [Next]_vars => Inv'
  <2>1. KeysInv => PipeInv
    BY DEF KeysInv
  <2> QED
    BY <2>1, OriginNext, StageNext, SaidNext, ServedNext
<1>3. Inv => CookieServerAccepts
  BY DEF ServedInv, CookieServerAccepts
<1>4. Spec => []TypeOK
  BY HandshakeTypes
<1>5. Init => Inv
  BY ServedInit
<1> QED
  BY <1>1, <1>2, <1>3, <1>4, <1>5, KeysInit, PTL DEF Spec

-----------------------------------------------------------------------------
(* A flight that has arrived is taken.  Every message of the server begins   *)
(* in one record only, and once the handler has got that, the window of its  *)
(* epoch shuts it out.                                                       *)

\* Where a message counts: with the compat option the window is emptied once a
\* cookie was asked for, but the ServerHello then has the number of the
\* HelloVerifyRequest, so that only one of the two gets through from there on.
Slot(plan, n) == IF plan.compat /\ plan.cookie /\ n = 0 THEN 1 ELSE n

Slots(plan) == {Slot(plan, n) : n \in Nat}

\* A fragment, or a record or message with one, that begins the message at k.
Begins(plan, f, k) == f.fragment_offset = 0 /\ Slot(plan, f.message_seq) = k
Starts(plan, x, k) == x.type = "handshake" /\ Begins(plan, x.data, k)

Has(plan, s, k) == \E i \in DOMAIN s : Starts(plan, s[i], k)

Single(plan, s) ==
    \A i, j \in DOMAIN s : \A k :
        Starts(plan, s[i], k) /\ Starts(plan, s[j], k) => i = j

HasPart(plan, parts, k) == \E i \in DOMAIN parts : Begins(plan, parts[i], k)

PartsOnce(plan, parts) ==
    \A i, j \in DOMAIN parts : \A k :
        Begins(plan, parts[i], k) /\ Begins(plan, parts[j], k) => i = j

HasWhole(plan, complete, k) == \E n \in DOMAIN complete : Slot(plan, n) = k

\* The messages the handler still gets, the fragments and the messages it keeps
\* begin each message once, and none that was processed.
Once(plan, msgs, parts, complete, last) ==
    /\ Single(plan, msgs)
    /\ PartsOnce(plan, parts)
    /\ \A k : Has(plan, msgs, k) =>
          ~ HasPart(plan, parts, k) /\ ~ HasWhole(plan, complete, k) /\ k > last
    /\ \A k : HasPart(plan, parts, k) => ~ HasWhole(plan, complete, k) /\ k > last
    /\ \A n \in DOMAIN complete : Slot(plan, n) > last
    /\ \A m, n \in DOMAIN complete : Slot(plan, m) = Slot(plan, n) => m = n

TakenBy(plan, msgs, parts, complete, last, k) ==
    \/ Has(plan, msgs, k) \/ HasPart(plan, parts, k) \/ HasWhole(plan, complete, k)
    \/ k <= last

\* The first of them and the others.
LEMMA SingleTail ==
    ASSUME NEW plan, NEW M, NEW s \in Seq(M), s # <<>>, Single(plan, s)
    PROVE  /\ Single(plan, Tail(s))
           /\ \A k : Has(plan, Tail(s), k) => Has(plan, s, k)
           /\ \A k : Starts(plan, Head(s), k) => Has(plan, s, k) /\ ~ Has(plan, Tail(s), k)
<1>1. /\ \A i \in DOMAIN Tail(s) : i + 1 \in DOMAIN s /\ Tail(s)[i] = s[i + 1] /\ i + 1 # 1
      /\ 1 \in DOMAIN s /\ Head(s) = s[1]
      /\ \A i, j \in DOMAIN Tail(s) : i + 1 = j + 1 => i = j
  OBVIOUS
<1>2. PICK h, t : h = Head(s) /\ t = Tail(s)
  OBVIOUS
<1>3. Single(plan, t)
  <2> SUFFICES ASSUME NEW i \in DOMAIN t, NEW j \in DOMAIN t, NEW k,
                      Starts(plan, t[i], k), Starts(plan, t[j], k)
               PROVE  i = j
    BY Zenon DEF Single
  <2>1. /\ i + 1 \in DOMAIN s /\ Starts(plan, s[i + 1], k)
        /\ j + 1 \in DOMAIN s /\ Starts(plan, s[j + 1], k)
    BY <1>1, <1>2, Zenon
  <2>2. i + 1 = j + 1
    BY <2>1, Zenon DEF Single
  <2> QED
    BY <1>1, <1>2, <2>2, Zenon
<1>4. \A k : Has(plan, t, k) => Has(plan, s, k)
  BY <1>1, <1>2, Zenon DEF Has
<1>5. ASSUME NEW k, Starts(plan, h, k)
      PROVE  Has(plan, s, k) /\ ~ Has(plan, t, k)
  <2>1. 1 \in DOMAIN s /\ Starts(plan, s[1], k)
    BY <1>1, <1>2, <1>5, Zenon
  <2>2. ASSUME NEW i \in DOMAIN t, Starts(plan, t[i], k) PROVE FALSE
    <3>1. i + 1 \in DOMAIN s /\ Starts(plan, s[i + 1], k) /\ i + 1 # 1
      BY <1>1, <1>2, <2>2, Zenon
    <3> QED
      BY <2>1, <3>1, Zenon DEF Single
  <2> QED
    BY <2>1, <2>2, Zenon DEF Has
<1> QED
  BY <1>2, <1>3, <1>4, <1>5, Zenon

\* One more, that begins nothing of what is there.
LEMMA SingleAppend ==
    ASSUME NEW plan, NEW M, NEW s \in Seq(M), NEW m, Single(plan, s),
           \A k : Starts(plan, m, k) => ~ Has(plan, s, k)
    PROVE  /\ Single(plan, Append(s, m))
           /\ \A k : Has(plan, Append(s, m), k) => Has(plan, s, k) \/ Starts(plan, m, k)
<1>1. PICK a : a = Append(s, m)
  OBVIOUS
<1>2. \A i \in DOMAIN a : \/ i \in DOMAIN s /\ a[i] = s[i]
                          \/ i = Len(s) + 1 /\ a[i] = m
  BY <1>1
<1>3. \A k : Has(plan, a, k) => Has(plan, s, k) \/ Starts(plan, m, k)
  BY <1>2, Zenon DEF Has
<1>4. Single(plan, a)
  <2> SUFFICES ASSUME NEW i \in DOMAIN a, NEW j \in DOMAIN a, NEW k,
                      Starts(plan, a[i], k), Starts(plan, a[j], k)
               PROVE  i = j
    BY Zenon DEF Single
  <2>1. CASE i \in DOMAIN s /\ a[i] = s[i]
    <3>1. j \in DOMAIN s /\ a[j] = s[j]
      BY <1>2, <2>1, Zenon DEF Has
    <3> QED
      BY <2>1, <3>1, Zenon DEF Single
  <2>2. CASE i = Len(s) + 1 /\ a[i] = m
    <3>1. j = Len(s) + 1
      BY <1>2, <2>2, Zenon DEF Has
    <3> QED
      BY <2>2, <3>1
  <2> QED
    BY <1>2, <2>1, <2>2
<1> QED
  BY <1>1, <1>3, <1>4, Zenon

\* The handler takes the first message, and adds it or what it completes.
LEMMA OnceMoved ==
    ASSUME NEW plan, NEW M, NEW msgs \in Seq(M), msgs # <<>>, NEW parts, NEW complete,
           NEW last, Once(plan, msgs, parts, complete, last),
           NEW parts2, NEW complete2, PartsOnce(plan, parts2),
           \A k : HasPart(plan, parts2, k) =>
               HasPart(plan, parts, k) \/ Starts(plan, Head(msgs), k),
           \A n \in DOMAIN complete2 : n \notin DOMAIN complete =>
               /\ \A m \in DOMAIN complete2 : m \notin DOMAIN complete => m = n
               /\ ~ HasPart(plan, parts2, Slot(plan, n))
               /\ \/ HasPart(plan, parts, Slot(plan, n))
                  \/ Starts(plan, Head(msgs), Slot(plan, n))
    PROVE  /\ Once(plan, Tail(msgs), parts2, complete2, last)
           /\ \A k : TakenBy(plan, Tail(msgs), parts2, complete2, last, k)
                       => TakenBy(plan, msgs, parts, complete, last, k)
<1>1. Single(plan, msgs)
  BY Zenon DEF Once
<1>2. PICK h1, t1 : h1 = Head(msgs) /\ t1 = Tail(msgs)
  OBVIOUS
<1>3. \A k : Starts(plan, h1, k) => Has(plan, msgs, k) /\ ~ Has(plan, t1, k)
  BY <1>1, <1>2, SingleTail
<1>4. \A k : Has(plan, t1, k) => Has(plan, msgs, k)
  BY <1>1, <1>2, SingleTail
<1>5. Single(plan, t1)
  BY <1>1, <1>2, SingleTail
<1>6. \A n \in DOMAIN complete2 : n \notin DOMAIN complete =>
          /\ \A m \in DOMAIN complete2 : m \notin DOMAIN complete => m = n
          /\ ~ HasPart(plan, parts2, Slot(plan, n))
          /\ \/ HasPart(plan, parts, Slot(plan, n))
             \/ Starts(plan, h1, Slot(plan, n))
  BY <1>2, Zenon
\* A message that is new was there in the beginning.
<1>7. ASSUME NEW n \in DOMAIN complete2, n \notin DOMAIN complete
      PROVE  /\ ~ HasWhole(plan, complete, Slot(plan, n)) /\ Slot(plan, n) > last
             /\ HasPart(plan, parts, Slot(plan, n)) \/ Has(plan, msgs, Slot(plan, n))
             /\ ~ Has(plan, t1, Slot(plan, n))
  BY <1>3, <1>4, <1>6, <1>7, Zenon DEF Once
<1>8. ASSUME NEW k, HasWhole(plan, complete2, k), ~ HasWhole(plan, complete, k)
      PROVE  /\ HasPart(plan, parts, k) \/ Has(plan, msgs, k)
             /\ ~ HasPart(plan, parts2, k) /\ ~ Has(plan, t1, k)
  <2>1. PICK n \in DOMAIN complete2 : Slot(plan, n) = k
    BY <1>8, Zenon DEF HasWhole
  <2>2. n \notin DOMAIN complete
    BY <1>8, <2>1, Zenon DEF HasWhole
  <2> QED
    BY <1>6, <1>7, <2>1, <2>2, Zenon
<1>9. \A k : HasPart(plan, parts2, k) => HasPart(plan, parts, k) \/ Starts(plan, h1, k)
  BY <1>2, Zenon
<1>10. ASSUME NEW k, Has(plan, t1, k)
       PROVE  /\ ~ HasPart(plan, parts2, k) /\ ~ HasWhole(plan, complete2, k)
              /\ k > last
  <2>1. /\ ~ HasPart(plan, parts, k) /\ ~ HasWhole(plan, complete, k) /\ k > last
    BY <1>4, <1>10, Zenon DEF Once
  <2>2. ~ HasPart(plan, parts2, k)
    BY <1>3, <1>9, <1>10, <2>1, Zenon
  <2>3. ~ HasWhole(plan, complete2, k)
    BY <1>8, <1>10, <2>1, Zenon
  <2> QED
    BY <2>1, <2>2, <2>3
<1>11. ASSUME NEW k, HasPart(plan, parts2, k)
       PROVE  ~ HasWhole(plan, complete2, k) /\ k > last
  <2>1. ~ HasWhole(plan, complete, k) /\ k > last
    BY <1>3, <1>9, <1>11, Zenon DEF Once
  <2>2. ~ HasWhole(plan, complete2, k)
    BY <1>8, <1>11, <2>1, Zenon
  <2> QED
    BY <2>1, <2>2
<1>12. \A n \in DOMAIN complete2 : Slot(plan, n) > last
  BY <1>7, Zenon DEF Once
<1>13. ASSUME NEW m \in DOMAIN complete2, NEW n \in DOMAIN complete2,
              Slot(plan, m) = Slot(plan, n)
       PROVE  m = n
  <2>1. CASE m \in DOMAIN complete /\ n \in DOMAIN complete
    BY <1>13, <2>1, Zenon DEF Once
  <2>2. CASE m \notin DOMAIN complete
    BY <1>6, <1>7, <1>13, <2>2, Zenon DEF HasWhole
  <2>3. CASE n \notin DOMAIN complete
    BY <1>6, <1>7, <1>13, <2>3, Zenon DEF HasWhole
  <2> QED
    BY <2>1, <2>2, <2>3
<1>14. Once(plan, t1, parts2, complete2, last)
  BY <1>5, <1>10, <1>11, <1>12, <1>13, Zenon DEF Once
<1>15. \A k : TakenBy(plan, t1, parts2, complete2, last, k)
                => TakenBy(plan, msgs, parts, complete, last, k)
  BY <1>3, <1>4, <1>8, <1>9, Zenon DEF TakenBy
<1> QED
  BY <1>2, <1>14, <1>15, Zenon

\* A message is complete with its beginning only.
LEMMA CompleteBegins ==
    ASSUME NEW S, NEW s \in Seq(S), \A f \in S : f.fragment_offset \in Nat,
           isComplete(s)
    PROVE  \E i \in DOMAIN s : s[i].fragment_offset = 0
<1>1. s # <<>> /\ StartsAtZero(s)
  BY DEF isComplete
<1>2. /\ Len(s) \in Nat /\ DOMAIN s = 1 .. Len(s) /\ DOMAIN s # {}
      /\ \A i \in DOMAIN s : s[i].fragment_offset \in Nat
  <2>1. \A i \in DOMAIN s : s[i] \in S
    OBVIOUS
  <2>2. Len(s) \in Nat /\ DOMAIN s = 1 .. Len(s) /\ 1 \in DOMAIN s
    BY <1>1
  <2> QED
    BY <2>1, <2>2, Zenon
<1> DEFINE T == DOMAIN s
<1>3. PICK i \in T : \A j \in T : ~ Before(s, j, i)
  BY <1>2, FirstFragment, Zenon
<1>4. Preceding(s, i) = {}
  BY <1>3 DEF Preceding
<1> QED
  BY <1>1, <1>3, <1>4, Zenon DEF StartsAtZero

HandlerOnce == Once(scenario, messages, incompleteMessages, completeMessages,
                    lastProcessedSeqNum)
Taken(k) == TakenBy(scenario, messages, incompleteMessages, completeMessages,
                    lastProcessedSeqNum, k)

\* What the handler has once it stored the next message.
LEMMA StoredOnce ==
    ASSUME OriginInv, messages # <<>>, Head(messages).type = "handshake", HandlerOnce
    PROVE  /\ Once(scenario, Tail(messages), NextStored.incomplete,
                   NextStored.complete, lastProcessedSeqNum)
           /\ \A k : TakenBy(scenario, Tail(messages), NextStored.incomplete,
                             NextStored.complete, lastProcessedSeqNum, k) => Taken(k)
<1> DEFINE f == Head(messages).data
           n == f.message_seq
           parts == incompleteMessages
           pending == Append(parts, f)
           I == {i \in DOMAIN pending : SameMessage(pending[i], f)}
           J == {i \in DOMAIN pending : ~ SameMessage(pending[i], f)}
           Added == [s \in DOMAIN completeMessages \cup {n} |->
                       IF s = n THEN Whole(f) ELSE completeMessages[s]]
<1>1. Came(scenario, srv.phase, f)
  BY NextCame
<1>2. PICK F : /\ parts \in Seq(F)
               /\ \A g \in F : Came(scenario, srv.phase, g)
  BY DEF OriginInv
<1>3. PICK M : messages \in Seq(M)
  BY DEF OriginInv, Travels
<1>4. \/ /\ ~ isFragmented(f)
         /\ NextStored.incomplete = parts /\ NextStored.complete = Added
      \/ /\ isComplete(Filtered(pending, I))
         /\ NextStored.incomplete = Filtered(pending, J) /\ NextStored.complete = Added
      \/ NextStored.incomplete = pending /\ NextStored.complete = completeMessages
  BY DEF NextStored, Stored, Without, findAllFragments
<1>5. PICK stored, whole : stored = NextStored.incomplete /\ whole = NextStored.complete
  OBVIOUS
<1>6. \A s \in DOMAIN Added : s \notin DOMAIN completeMessages => s = n
  OBVIOUS
<1> DEFINE G == F \cup {f}
<1>7. \A g \in G : Came(scenario, srv.phase, g)
  BY <1>1, <1>2
<1>8. \A g \in G : g.fragment_offset \in Nat
  BY <1>7 DEF Came, OfServer
<1>9. parts \in Seq(G) /\ f \in G
  BY <1>2
<1> HIDE DEF G, Added
<1>10. PICK h : h = Head(messages)
  OBVIOUS
<1>11. \A k : Starts(scenario, h, k) <=> Begins(scenario, f, k)
  BY <1>10, Zenon DEF Starts
<1>12. \A k : Starts(scenario, h, k) => Has(scenario, messages, k)
  <2>1. 1 \in DOMAIN messages /\ h = messages[1]
    BY <1>3, <1>10
  <2> QED
    BY <2>1, Zenon DEF Has
<1>13. \A k : Begins(scenario, f, k) => ~ HasPart(scenario, parts, k)
  BY <1>11, <1>12, Zenon DEF HandlerOnce, Once
<1> HIDE DEF f
<1>14. /\ pending \in Seq(G)
       /\ \A i \in DOMAIN pending : \/ i \in DOMAIN parts /\ pending[i] = parts[i]
                                    \/ i = Len(parts) + 1 /\ pending[i] = f
  BY <1>9
<1>15. /\ I \in SUBSET DOMAIN pending /\ J \in SUBSET DOMAIN pending
       /\ \A i \in I : SameMessage(pending[i], f)
       /\ \A j \in J : ~ SameMessage(pending[j], f)
  OBVIOUS
<1> HIDE DEF pending, I, J
<1>16. PartsOnce(scenario, parts)
  BY Zenon DEF HandlerOnce, Once
<1>17. PartsOnce(scenario, pending)
  <2> SUFFICES ASSUME NEW i \in DOMAIN pending, NEW j \in DOMAIN pending, NEW k,
                      Begins(scenario, pending[i], k), Begins(scenario, pending[j], k)
               PROVE  i = j
    BY Zenon DEF PartsOnce
  <2>1. CASE i \in DOMAIN parts /\ pending[i] = parts[i]
    <3>1. j \in DOMAIN parts /\ pending[j] = parts[j]
      BY <1>13, <1>14, <2>1, Zenon DEF HasPart
    <3> QED
      BY <1>16, <2>1, <3>1, Zenon DEF PartsOnce
  <2>2. CASE i = Len(parts) + 1 /\ pending[i] = f
    <3>1. j = Len(parts) + 1
      BY <1>13, <1>14, <2>2, Zenon DEF HasPart
    <3> QED
      BY <2>2, <3>1
  <2> QED
    BY <1>14, <2>1, <2>2
<1>18. \A k : HasPart(scenario, pending, k) =>
           HasPart(scenario, parts, k) \/ Starts(scenario, h, k)
  BY <1>11, <1>14, Zenon DEF HasPart
<1>19. ASSUME PartsOnce(scenario, stored),
              \A k : HasPart(scenario, stored, k) =>
                  HasPart(scenario, parts, k) \/ Starts(scenario, h, k),
              \/ whole = completeMessages
              \/ /\ whole = Added
                 /\ ~ HasPart(scenario, stored, Slot(scenario, n))
                 /\ \/ HasPart(scenario, parts, Slot(scenario, n))
                    \/ Starts(scenario, h, Slot(scenario, n))
       PROVE  /\ Once(scenario, Tail(messages), stored, whole, lastProcessedSeqNum)
              /\ \A k : TakenBy(scenario, Tail(messages), stored, whole,
                                lastProcessedSeqNum, k) => Taken(k)
  <2>1. \A m \in DOMAIN whole : m \notin DOMAIN completeMessages =>
            /\ \A s \in DOMAIN whole : s \notin DOMAIN completeMessages => s = m
            /\ ~ HasPart(scenario, stored, Slot(scenario, m))
            /\ \/ HasPart(scenario, parts, Slot(scenario, m))
               \/ Starts(scenario, h, Slot(scenario, m))
    <3>1. CASE whole = completeMessages
      BY <3>1, Zenon
    <3>2. CASE whole # completeMessages
      BY <1>6, <1>19, <3>2, Zenon
    <3> QED
      BY <3>1, <3>2, Zenon
  <2> QED
    BY <1>3, <1>10, <1>19, <2>1, OnceMoved DEF HandlerOnce, Taken
<1>20. CASE /\ ~ isFragmented(f)
            /\ stored = parts /\ whole = Added
  <2>1. Begins(scenario, f, Slot(scenario, n))
    BY <1>20 DEF isFragmented, Begins
  <2> QED
    BY <1>11, <1>13, <1>16, <1>19, <1>20, <2>1, <1>5, Zenon
<1>21. CASE /\ isComplete(Filtered(pending, I))
            /\ stored = Filtered(pending, J) /\ whole = Added
  <2> DEFINE k0 == Slot(scenario, n)
  <2>1. PICK i0 \in I : Begins(scenario, pending[i0], k0)
    <3>1. Filtered(pending, I) \in Seq(G)
      BY <1>14, <1>15, FilteredFrom
    <3>2. PICK a \in DOMAIN Filtered(pending, I) :
              Filtered(pending, I)[a].fragment_offset = 0
      BY <1>8, <1>21, <3>1, CompleteBegins
    <3>3. PICK i \in I : Filtered(pending, I)[a] = pending[i]
      BY <1>14, <1>15, FilteredFrom
    <3>4. pending[i].message_seq = n
      BY <1>15, Zenon DEF SameMessage
    <3> QED
      BY <3>2, <3>3, <3>4, Zenon DEF Begins
  <2>2. \A a \in DOMAIN stored : \E j \in J : stored[a] = pending[j]
    BY <1>14, <1>15, <1>21, FilteredFrom
  <2>3. \A a, b \in DOMAIN stored : a # b =>
            \E i, j \in J : i # j /\ stored[a] = pending[i] /\ stored[b] = pending[j]
    <3>1. \A a, b \in DOMAIN Filtered(pending, J) : a # b =>
              \E i, j \in J : /\ i # j /\ Filtered(pending, J)[a] = pending[i]
                              /\ Filtered(pending, J)[b] = pending[j]
      BY <1>14, <1>15, FilteredApart
    <3>2. stored = Filtered(pending, J)
      BY <1>21
    <3> QED
      BY <3>1, <3>2
  <2>4. PartsOnce(scenario, stored)
    <3> SUFFICES ASSUME NEW a \in DOMAIN stored, NEW b \in DOMAIN stored, NEW k, a # b,
                        Begins(scenario, stored[a], k), Begins(scenario, stored[b], k)
                 PROVE  FALSE
      BY Zenon DEF PartsOnce
    <3>1. PICK i \in J, j \in J : i # j /\ stored[a] = pending[i] /\ stored[b] = pending[j]
      BY <2>3, Zenon
    <3> QED
      BY <1>15, <1>17, <3>1, Zenon DEF PartsOnce
  <2>5. \A k : HasPart(scenario, stored, k) =>
            HasPart(scenario, parts, k) \/ Starts(scenario, h, k)
    <3>1. \A k : HasPart(scenario, stored, k) => HasPart(scenario, pending, k)
      BY <1>15, <2>2, Zenon DEF HasPart
    <3> QED
      BY <1>18, <3>1, Zenon
  <2>6. ~ HasPart(scenario, stored, k0)
    <3> SUFFICES ASSUME NEW a \in DOMAIN stored, Begins(scenario, stored[a], k0)
                 PROVE  FALSE
      BY Zenon DEF HasPart
    <3>1. PICK j \in J : stored[a] = pending[j]
      BY <2>2, Zenon
    <3>2. j = i0
      BY <1>15, <1>17, <2>1, <3>1, Zenon DEF PartsOnce
    <3> QED
      BY <1>15, <3>2, Zenon
  <2>7. HasPart(scenario, parts, k0) \/ Starts(scenario, h, k0)
    <3>1. HasPart(scenario, pending, k0)
      BY <1>15, <2>1, Zenon DEF HasPart
    <3> QED
      BY <1>18, <3>1, Zenon
  <2> QED
    BY <1>5, <1>19, <1>21, <2>4, <2>5, <2>6, <2>7, Zenon
<1>22. CASE stored = pending /\ whole = completeMessages
  BY <1>5, <1>17, <1>18, <1>19, <1>22, Zenon
<1> QED
  BY <1>4, <1>5, <1>20, <1>21, <1>22, Zenon

-----------------------------------------------------------------------------
(* The windows of the client, and the numbers of both sides.                *)

\* A number the window lets through no more: it is not ahead, and refused.
ClosedAt(w, s) == s <= w.ceiling /\ ~ mayReceive(w, s)

\* Marking a number closes the window to it, and opens it to none.
LEMMA ClosedByMark ==
    ASSUME NEW w \in Window, NEW s \in Int, NEW t \in Int, ClosedAt(w, t) \/ t = s
    PROVE  ClosedAt(markAsReceived(w, s), t)
<1> DEFINE v == markAsReceived(w, s)
<1>1. /\ v \in Window /\ v.ceiling = IF s > w.ceiling THEN s ELSE w.ceiling
      /\ w.ceiling \in Int
  BY MarkType DEF Window
<1>2. t >= lowerBound(v) /\ hasReceived(w, t) => hasReceived(v, t)
  BY MarkSets
<1>3. t = s /\ t >= lowerBound(v) => hasReceived(v, t)
  BY MarkSets
<1> HIDE DEF v
<1>4. width \in Int
  BY WindowAssumption DEF width
<1>5. t <= v.ceiling
  BY <1>1 DEF ClosedAt
<1>6. ASSUME t >= lowerBound(v), t # s
      PROVE  hasReceived(v, t)
  <2>1. t <= w.ceiling /\ ~ mayReceive(w, t)
    BY <1>6 DEF ClosedAt
  <2>2. t >= lowerBound(w)
    BY <1>1, <1>4, <1>6 DEF lowerBound
  <2>3. width >= 0
    BY WindowAssumption DEF width
  <2>4. t <= w.ceiling + width /\ t \in lowerBound(w) .. w.ceiling
    BY <1>1, <1>4, <2>1, <2>2, <2>3 DEF lowerBound
  <2>5. hasReceived(w, t)
    BY <2>1, <2>4, Zenon DEF mayReceive
  <2> QED
    BY <1>2, <1>6, <2>5
<1>7. ~ mayReceive(v, t)
  <2>1. t >= lowerBound(v) => hasReceived(v, t)
    BY <1>3, <1>6
  <2> QED
    BY <1>1, <1>4, <1>5, <2>1 DEF mayReceive, lowerBound
<1> QED
  BY <1>5, <1>7, Zenon DEF ClosedAt, v

EpochFields == {"antiReplayWindow", "writeSequenceNumber"}

\* Both epochs have a window and a counter.
FieldShape(eps) ==
    /\ {0, 1} \subseteq DOMAIN eps
    /\ \A e \in {0, 1} : /\ EpochFields \subseteq DOMAIN eps[e]
                         /\ eps[e].antiReplayWindow \in Window
                         /\ eps[e].writeSequenceNumber \in Int

WindowsStay(eps, new) ==
    \A e \in {0, 1} : new[e].antiReplayWindow = eps[e].antiReplayWindow

CountersStay(eps, new) ==
    \A e \in {0, 1} : new[e].writeSequenceNumber = eps[e].writeSequenceNumber

LEMMA NewIsWindow == NewWindow \in Window
<1>1. width \in Int
  BY WindowAssumption DEF width
<1> QED
  BY <1>1 DEF NewWindow, Window

LEMMA EnsuredFields ==
    ASSUME NEW eps, FieldShape(eps), NEW read, NEW write
    PROVE  LET new == ensureNextEpoch(eps, read, write)
           IN  /\ FieldShape(new) /\ WindowsStay(eps, new) /\ CountersStay(eps, new)
               /\ \A e \in {0, 1} : new[e] = eps[e]
<1> DEFINE new == ensureNextEpoch(eps, read, write)
<1>1. {0, 1} \subseteq DOMAIN new /\ \A e \in {0, 1} : new[e] = eps[e]
  BY DEF FieldShape, ensureNextEpoch
<1> HIDE DEF new
<1>2. FieldShape(new) /\ WindowsStay(eps, new) /\ CountersStay(eps, new)
  BY <1>1 DEF FieldShape, WindowsStay, CountersStay
<1> QED
  BY <1>1, <1>2 DEF new

\* Assigning a field of one epoch.
LEMMA PutOther ==
    ASSUME NEW eps, FieldShape(eps), NEW n, NEW x, NEW new,
           \/ new = [eps EXCEPT ![n].keys = x]
           \/ new = [eps EXCEPT ![n].decipher = x]
    PROVE  FieldShape(new) /\ WindowsStay(eps, new) /\ CountersStay(eps, new)
<1>1. ASSUME new = [eps EXCEPT ![n].keys = x]
      PROVE  FieldShape(new) /\ WindowsStay(eps, new) /\ CountersStay(eps, new)
  BY <1>1 DEF FieldShape, WindowsStay, CountersStay, EpochFields
<1>2. ASSUME new = [eps EXCEPT ![n].decipher = x]
      PROVE  FieldShape(new) /\ WindowsStay(eps, new) /\ CountersStay(eps, new)
  BY <1>2 DEF FieldShape, WindowsStay, CountersStay, EpochFields
<1> QED
  BY <1>1, <1>2

LEMMA PutWindow ==
    ASSUME NEW eps, FieldShape(eps), NEW n, NEW x \in Window,
           NEW new, new = [eps EXCEPT ![n].antiReplayWindow = x]
    PROVE  /\ FieldShape(new) /\ CountersStay(eps, new)
           /\ \A e \in {0, 1} : new[e].antiReplayWindow =
                  IF e = n THEN x ELSE eps[e].antiReplayWindow
  BY DEF FieldShape, CountersStay, EpochFields

LEMMA PutCounter ==
    ASSUME NEW eps, FieldShape(eps), NEW n, NEW x, n \in {0, 1} => x \in Int
    PROVE  LET new == [eps EXCEPT ![n].writeSequenceNumber = x]
           IN  FieldShape(new) /\ WindowsStay(eps, new)
<1> DEFINE new == [eps EXCEPT ![n].writeSequenceNumber = x]
<1>1. /\ {0, 1} \subseteq DOMAIN new
      /\ \A e \in {0, 1} :
            /\ EpochFields \subseteq DOMAIN new[e]
            /\ new[e].antiReplayWindow = eps[e].antiReplayWindow
            /\ new[e].writeSequenceNumber =
                  IF e = n THEN x ELSE eps[e].writeSequenceNumber
  BY DEF FieldShape, EpochFields
<1> HIDE DEF new
<1>2. FieldShape(new) /\ WindowsStay(eps, new)
  BY <1>1 DEF FieldShape, WindowsStay
<1> QED
  BY <1>2 DEF new

LEMMA MarkFields ==
    ASSUME FieldShape(epochs), MarkOne, Head(unmarked).epoch \in {0, 1},
           Head(unmarked).sequence_number \in Int
    PROVE  /\ FieldShape(epochs') /\ CountersStay(epochs, epochs')
           /\ \A e \in {0, 1} : epochs'[e].antiReplayWindow =
                 IF e = Head(unmarked).epoch
                 THEN markAsReceived(epochs[e].antiReplayWindow,
                                     Head(unmarked).sequence_number)
                 ELSE epochs[e].antiReplayWindow
<1> DEFINE p == Head(unmarked)
           x == markAsReceived(epochs[p.epoch].antiReplayWindow, p.sequence_number)
<1>1. /\ unmarked # <<>>
      /\ epochs' = [epochs EXCEPT ![p.epoch].antiReplayWindow = x]
  BY DEF MarkOne, Mark
<1>2. x \in Window
  <2>1. epochs[p.epoch].antiReplayWindow \in Window /\ p.sequence_number \in Int
    BY <1>1 DEF FieldShape
  <2> QED
    BY <2>1, MarkType
<1> HIDE DEF x
<1>3. PICK n, y : n = p.epoch /\ y = x
  OBVIOUS
<1>4. epochs' = [epochs EXCEPT ![n].antiReplayWindow = y] /\ y \in Window
  BY <1>1, <1>2, <1>3, Zenon
<1>5. /\ FieldShape(epochs') /\ CountersStay(epochs, epochs')
      /\ \A e \in {0, 1} : epochs'[e].antiReplayWindow =
             IF e = n THEN y ELSE epochs[e].antiReplayWindow
  BY <1>4 DEF FieldShape, CountersStay, EpochFields
<1>6. \A e \in {0, 1} : epochs'[e].antiReplayWindow =
          IF e = p.epoch
          THEN markAsReceived(epochs[e].antiReplayWindow, p.sequence_number)
          ELSE epochs[e].antiReplayWindow
  BY <1>3, <1>5, Zenon DEF x
<1> QED
  BY <1>5, <1>6

\* A step changes a window by marking a number in it, or empties it; only sending
\* counts records.
LEMMA FieldsNext ==
    ASSUME KeysInv, FieldShape(epochs), [Next]_vars,
           unmarked # <<>> => /\ Head(unmarked).epoch \in {0, 1}
                              /\ Head(unmarked).sequence_number \in Int
    PROVE  /\ FieldShape(epochs')
           /\ \/ WindowsStay(epochs, epochs') \/ MarkOne
              \/ HandleHelloVerifyRequest /\ scenario.compat
           /\ ProcessOutgoing \/ CountersStay(epochs, epochs')
<1>1. ASSUME UNCHANGED epochs
      PROVE  /\ FieldShape(epochs') /\ WindowsStay(epochs, epochs')
             /\ CountersStay(epochs, epochs')
  BY <1>1, Zenon DEF WindowsStay, CountersStay
<1>2. CASE MarkOne
  <2>1. unmarked # <<>>
    BY <1>2 DEF MarkOne, Mark
  <2> QED
    BY <1>2, <2>1, MarkFields
<1>3. CASE HandleHelloVerifyRequest
  <2>1. \/ ~ scenario.compat /\ UNCHANGED epochs
        \/ scenario.compat /\ epochs' = WithWindowReset
    BY <1>3, Zenon DEF HandleHelloVerifyRequest
  <2>2. ASSUME epochs' = WithWindowReset
        PROVE  FieldShape(epochs') /\ CountersStay(epochs, epochs')
    BY <2>2, NewIsWindow, PutWindow DEF WithWindowReset
  <2> QED
    BY <1>1, <1>3, <2>1, <2>2, Zenon
<1>4. CASE ProcessOutgoing
  <2> DEFINE x == epochs[writeEpochNr].writeSequenceNumber + 1
             c == [epochs EXCEPT ![writeEpochNr].writeSequenceNumber = x]
  <2>1. epochs' = c \/ epochs' = ensureNextEpoch(c, readEpochNr, writeEpochNr + 1)
    BY <1>4 DEF ProcessOutgoing, processOutgoingMessage
  <2>2. writeEpochNr \in {0, 1} => x \in Int
    BY DEF FieldShape
  <2>3. FieldShape(c) /\ WindowsStay(epochs, c)
    BY <2>2, PutCounter
  <2> HIDE DEF c
  <2>4. FieldShape(epochs') /\ WindowsStay(epochs, epochs')
    BY <2>1, <2>3, EnsuredFields DEF WindowsStay
  <2> QED
    BY <1>4, <2>4
<1>5. CASE HandleServerHelloDone
  <2>1. \/ UNCHANGED epochs
        \/ \E n : epochs' = [epochs EXCEPT ![n].keys = SessionKeys]
    BY <1>5, Zenon DEF HandleServerHelloDone
  <2>2. ASSUME NEW n, epochs' = [epochs EXCEPT ![n].keys = SessionKeys]
        PROVE  /\ FieldShape(epochs') /\ WindowsStay(epochs, epochs')
               /\ CountersStay(epochs, epochs')
    BY <2>2, PutOther
  <2> QED
    BY <1>1, <2>1, <2>2, Zenon
<1>6. CASE Filter
  <2>1. \/ UNCHANGED epochs
        \/ \E n, x : epochs' = [epochs EXCEPT ![n].decipher = x]
    BY <1>6, Zenon DEF Filter, Discard, Decipher, layerVars
  <2>2. ASSUME NEW n, NEW x, epochs' = [epochs EXCEPT ![n].decipher = x]
        PROVE  /\ FieldShape(epochs') /\ WindowsStay(epochs, epochs')
               /\ CountersStay(epochs, epochs')
    BY <2>2, PutOther
  <2> QED
    BY <1>1, <2>1, <2>2, Zenon
<1>7. CASE HandleChangeCipherSpec
  <2>1. epochs' = ensureNextEpoch(epochs, readEpochNr + 1, writeEpochNr)
    BY <1>7, Zenon DEF HandleChangeCipherSpec, advanceReadEpoch
  <2> QED
    BY <2>1, EnsuredFields
<1>8. CASE \/ Collect \/ HandleFinished \/ HandleFatalAlert \/ HandleApplicationData
           \/ SendDatagram \/ ReceiveDatagram \/ AlertSent
           \/ Disturb \/ ServerReceive \/ ServerRetransmit \/ ServerSendData
           \/ Timeout \/ UNCHANGED vars
  <2>1. UNCHANGED epochs
    BY <1>8, Zenon
    DEF Collect, HandleFinished, HandleFatalAlert, HandleApplicationData,
        SendDatagram, Transmit, ReceiveDatagram, Receive, AlertSent, Disturb,
        ServerReceive, ServerRetransmit, ServerSendData, Timeout, layerVars,
        recordVars, vars
  <2> QED
    BY <1>1, <2>1
<1> QED
  BY <1>2, <1>3, <1>4, <1>5, <1>6, <1>7, <1>8, Zenon DEF Next, Internal

\* The first ClientHello leaves in the first record.
SentNumbered(d) == /\ d[1].sequence_number \in Int
                   /\ scenario.cookie /\ SaysFirst(d) => d[1].sequence_number = 0

ClientNumbers ==
    /\ \E Q : toServer \in Seq(Q) /\ \A d \in Q : SentNumbered(d)
    /\ flight # <<>> => SentNumbered(flight)
    /\ flight = <<>> /\ outgoing # <<>> /\ scenario.cookie /\ SaysFirst(outgoing) =>
          writeEpochNr = 0 /\ epochs[0].writeSequenceNumber = -1

LEMMA ClientNumbersNext ==
    ASSUME KeysInv, OriginInv, TypeOK, StageInv, FieldShape(epochs), ClientNumbers,
           [Next]_vars, ProcessOutgoing \/ CountersStay(epochs, epochs')
    PROVE  ClientNumbers'
<1>1. PICK Q : toServer \in Seq(Q) /\ \A d \in Q : SentNumbered(d)
  BY Zenon DEF ClientNumbers
<1>2. scenario' = scenario
  BY PlanKept
<1>3. \A d : SentNumbered(d) <=> SentNumbered(d)'
  BY <1>2 DEF SentNumbered, SaysFirst, IsHello
<1>4. PICK S, T : outgoing \in Seq(S) /\ flight \in Seq(T)
  BY DEF KeysInv, SendInv, SentUnder, Flights
<1>5. CASE ProcessOutgoing
  <2>1. /\ outgoing # <<>> /\ UNCHANGED toServer
        /\ flight' = Append(flight, Stamp(Head(outgoing)))
    BY <1>5, Zenon DEF ProcessOutgoing, processOutgoingMessage, netVars
  <2>2. flight' # <<>> /\ flight'[1] = IF flight = <<>> THEN Stamp(outgoing[1]) ELSE flight[1]
    BY <1>4, <2>1
  <2>3. SentNumbered(flight')
    <3>1. CASE flight # <<>>
      <4>1. SentNumbered(flight) /\ flight'[1] = flight[1]
        BY <2>2, <3>1, Zenon DEF ClientNumbers
      <4> QED
        BY <4>1, Zenon DEF SentNumbered, SaysFirst, IsHello
    <3>2. CASE flight = <<>>
      <4>1. PICK r : r = Stamp(outgoing[1]) /\ r = flight'[1]
        BY <2>2, <3>2, Zenon
      <4>2. /\ r.type = outgoing[1].type /\ r.data = outgoing[1].data
            /\ r.sequence_number = epochs[writeEpochNr].writeSequenceNumber + 1
        BY <4>1 DEF Stamp
      <4>3. r.sequence_number \in Int
        BY <4>2 DEF FieldShape, KeysInv, EpochsInv
      <4>4. ASSUME scenario.cookie, SaysFirst(flight') PROVE r.sequence_number = 0
        <5>1. SaysFirst(outgoing)
          BY <4>1, <4>2, <4>4, Zenon DEF SaysFirst, IsHello
        <5>2. writeEpochNr = 0 /\ epochs[0].writeSequenceNumber = -1
          BY <2>1, <3>2, <4>4, <5>1, Zenon DEF ClientNumbers
        <5> QED
          BY <4>2, <5>2
      <4> QED
        BY <4>1, <4>3, <4>4, Zenon DEF SentNumbered
    <3> QED
      BY <3>1, <3>2
  <2> QED
    BY <1>1, <1>3, <2>1, <2>2, <2>3, Zenon DEF ClientNumbers
<1> SUFFICES ASSUME CountersStay(epochs, epochs')
             PROVE  ClientNumbers'
  BY <1>5
<1>6. epochs'[0].writeSequenceNumber = epochs[0].writeSequenceNumber
  BY DEF CountersStay
<1>7. CASE HandleHelloVerifyRequest \/ HandleServerHelloDone \/ HandleFinished
  <2>1. flight = <<>> /\ outgoing = <<>> /\ flight' = <<>>
    <3>1. \E type : TakeFlight(type)
      BY <1>7, Zenon
      DEF HandleHelloVerifyRequest, HandleServerHelloDone, HandleFinished
    <3>2. flight = <<>> /\ outgoing = <<>>
      BY <3>1, Zenon DEF TakeFlight, Incoming, NextMessage, Sending
    <3>3. flight' = flight
      BY <1>7, Zenon
      DEF HandleHelloVerifyRequest, HandleServerHelloDone, HandleFinished
    <3> QED
      BY <3>2, <3>3
  <2>2. UNCHANGED toServer
    BY <1>7, Zenon
    DEF HandleHelloVerifyRequest, HandleServerHelloDone, HandleFinished, netVars
  <2>3. ASSUME scenario.cookie PROVE outgoing' = <<>> \/ ~ SaysFirst(outgoing')
    <3>1. PICK d : outgoing' = d /\ (d = <<>> \/ ~ SaysFirst(d))
      BY <1>7, <2>3, HandlerSends DEF KeysInv
    <3> QED
      BY <3>1, Zenon
  <2> QED
    BY <1>1, <1>2, <1>3, <2>1, <2>2, <2>3, Zenon DEF ClientNumbers
<1>8. CASE SendDatagram
  <2>1. /\ outgoing = <<>> /\ flight # <<>> /\ flight' = <<>>
        /\ toServer' = Append(toServer, flight) /\ UNCHANGED outgoing
    BY <1>8, Zenon DEF SendDatagram, Transmit
  <2> DEFINE P == Q \cup {flight}
  <2>2. toServer' \in Seq(P)
    BY <1>1, <2>1
  <2>3. \A d \in P : SentNumbered(d)
    BY <1>1, <2>1 DEF ClientNumbers
  <2> HIDE DEF P
  <2> QED
    BY <1>3, <2>1, <2>2, <2>3, Zenon DEF ClientNumbers
<1>9. ASSUME UNCHANGED <<outgoing, flight, writeEpochNr>>, toServer' \in Seq(Q)
      PROVE  ClientNumbers'
  BY <1>1, <1>2, <1>3, <1>6, <1>9, Zenon DEF ClientNumbers
<1>10. CASE Disturb \/ ServerReceive
  <2>1. UNCHANGED <<outgoing, flight, writeEpochNr>>
    BY <1>10, Zenon DEF Disturb, ServerReceive, recordVars, sendVars, layerVars
  <2>2. \/ UNCHANGED toServer
        \/ \E i \in DOMAIN toServer : \/ toServer' = RemoveAt(toServer, i)
                                      \/ toServer' = Append(toServer, toServer[i])
    BY <1>10, Zenon DEF Disturb, Disturbed, ServerReceive
  <2>3. ASSUME NEW i \in DOMAIN toServer
        PROVE  /\ RemoveAt(toServer, i) \in Seq(Q)
               /\ Append(toServer, toServer[i]) \in Seq(Q)
    <3>1. toServer[i] \in Q /\ RemoveAt(toServer, i) \in Seq(Q)
      BY <1>1, RemovedFrom
    <3> QED
      BY <1>1, <3>1, AppendProperties
  <2>4. toServer' \in Seq(Q)
    BY <1>1, <2>2, <2>3, Zenon
  <2> QED
    BY <1>9, <2>1, <2>4
<1>11. CASE \/ Collect \/ HandleChangeCipherSpec \/ HandleFatalAlert
            \/ HandleApplicationData \/ Filter \/ MarkOne \/ ReceiveDatagram
            \/ AlertSent \/ ServerRetransmit \/ ServerSendData \/ Timeout
            \/ UNCHANGED vars
  <2>1. UNCHANGED <<outgoing, flight, writeEpochNr, toServer>>
    BY <1>11, Zenon
    DEF Collect, HandleChangeCipherSpec, advanceReadEpoch, HandleFatalAlert,
        HandleApplicationData, Filter, Discard, Decipher, MarkOne, Mark,
        ReceiveDatagram, Receive, AlertSent, ServerRetransmit, ServerSendData,
        Timeout, layerVars, sendVars, recordVars, netVars, vars
  <2> QED
    BY <1>1, <1>9, <2>1
<1> QED
  BY <1>5, <1>7, <1>8, <1>10, <1>11, Zenon DEF Next, Internal

-----------------------------------------------------------------------------
(* What the server says, and under which numbers.                           *)

Premise == /\ scenario.retransmits = 0
           /\ scenario.compat => scenario.restarts

ServerNumbers == srv.next \in Int /\ srv.data \in Int /\ srv.retransmits = 0

\* The number of the last message a server in a phase has sent.
SentUpTo(plan, phase) ==
    IF phase = "listen" THEN FirstOf(plan) - 1
    ELSE IF phase = "done" THEN LastOf(plan) + 1 ELSE LastOf(plan)

LEMMA SlotNumbers ==
    ASSUME NEW plan, NEW n \in Nat
    PROVE  /\ Slot(plan, n) \in Slots(plan) /\ Slot(plan, n) \in Nat
           /\ Slot(plan, n) = n \/ (plan.cookie /\ Slot(plan, n) = Slot(plan, 0))
           /\ n > 0 \/ n >= FirstOf(plan) => Slot(plan, n) = n
           /\ Slot(plan, n) >= n
  BY PlanNumbers DEF Slot, Slots

\* What came before a message is said for the first time begins elsewhere, but
\* for the request for a cookie.
LEMMA EarlierSlots ==
    ASSUME NEW plan, NEW phase, NEW f, Came(plan, phase, f),
           Slot(plan, f.message_seq) > SentUpTo(plan, phase)
    PROVE  plan.cookie /\ Slot(plan, f.message_seq) = Slot(plan, 0)
<1>1. /\ f.message_seq \in 0 .. LastOf(plan) + 1
      /\ f.message_seq >= FirstOf(plan) => phase # "listen"
      /\ f.message_seq > LastOf(plan) => phase = "done"
  BY DEF Came, OfServer
<1>2. FirstOf(plan) \in {0, 1} /\ LastOf(plan) \in Nat
  BY PlanNumbers
<1>3. f.message_seq <= SentUpTo(plan, phase) /\ f.message_seq \in Nat
      /\ SentUpTo(plan, phase) \in Int
  BY <1>1, <1>2 DEF SentUpTo
<1>4. Slot(plan, f.message_seq) # f.message_seq
  BY <1>3
<1> QED
  BY <1>3, <1>4, SlotNumbers

\* A record that begins a message: the request for a cookie, under number 0, or
\* a message that was not said before.
NewStart(r) ==
    \A k : Starts(scenario, r, k) =>
        /\ k \in Nat
        /\ scenario.cookie /\ k = Slot(scenario, 0) =>
              r.epoch = 0 /\ r.sequence_number = 0
        /\ \/ scenario.cookie /\ k = Slot(scenario, 0)
           \/ k > SentUpTo(scenario, srv.phase)

Spoken(records) ==
    /\ Single(scenario, records)
    /\ \A i \in DOMAIN records : /\ records[i].epoch \in {0, 1}
                                 /\ records[i].sequence_number \in Int
                                 /\ NewStart(records[i])
    /\ ServerNumbers'

LEMMA OneSpoken ==
    ASSUME NEW r, r.epoch \in {0, 1}, r.sequence_number \in Int, NewStart(r),
           ServerNumbers', NEW records, records = <<r>>
    PROVE  Spoken(records)
<1>1. DOMAIN records = {1} /\ records[1] = r
  OBVIOUS
<1>2. Single(scenario, records)
  BY <1>1 DEF Single
<1> QED
  BY <1>1, <1>2, Zenon DEF Spoken

\* A record with no handshake message begins none.
LEMMA OtherStart ==
    ASSUME NEW r, r.type # "handshake"
    PROVE  NewStart(r)
  BY DEF NewStart, Starts

LEMMA AnswerSpoken ==
    ASSUME SrvInv, Premise, ServerNumbers, ClientNumbers, NEW records, Answer(records)
    PROVE  Spoken(records)
<1>1. PICK Q : toServer \in Seq(Q) /\ \A d \in Q : SentNumbered(d)
  BY Zenon DEF ClientNumbers
<1>2. PICK n : /\ n \in Int /\ (scenario.restarts => n = 0)
               /\ records = Flight4(n) /\ srv.phase = "listen"
               /\ \E t : srv' = [srv EXCEPT !.phase = "negotiating",
                              !.next = n + Len(records), !.transcript = t]
  <2>1. PICK i \in DOMAIN toServer :
            LET r == toServer[i][1]
                n == IF scenario.restarts THEN 0 ELSE r.sequence_number
            IN  /\ srv.phase = "listen" /\ records = Flight4(n)
                /\ \E t : srv' = [srv EXCEPT !.phase = "negotiating",
                              !.next = n + Len(records), !.transcript = t]
    BY Zenon DEF Answer
  <2>2. SentNumbered(toServer[i])
    BY <1>1
  <2>3. PICK x : x = toServer[i][1].sequence_number /\ x \in Int
    BY <2>2, Zenon DEF SentNumbered
  <2>4. PICK n : n = IF scenario.restarts THEN 0 ELSE x
    OBVIOUS
  <2>5. n \in Int /\ (scenario.restarts => n = 0)
    BY <2>3, <2>4
  <2> QED
    BY <2>1, <2>3, <2>4, <2>5, Zenon
<1>3. /\ \E R : records \in Seq(R)
      /\ \A i \in DOMAIN records :
            /\ records[i].epoch = 0 /\ records[i].sequence_number = n + i - 1
            /\ OfServer(scenario, records[i].data)
            /\ records[i].data.message_seq >= FirstOf(scenario)
            /\ records[i].data.fragment_offset = 0
               /\ records[i].data.message_seq = FirstOf(scenario) => i = 1
      /\ \A i, j \in DOMAIN records :
            records[i].data.fragment_offset = 0 /\ records[j].data.fragment_offset = 0
                /\ records[i].data.message_seq = records[j].data.message_seq => i = j
  <2> DEFINE F == Flight4(n)
             Shape == \A i \in DOMAIN F :
                F[i].epoch = 0 /\ F[i].sequence_number = n + i - 1
             Numbers == \A i \in DOMAIN F :
                /\ OfServer(scenario, F[i].data)
                /\ F[i].data.message_seq >= FirstOf(scenario)
                /\ F[i].data.fragment_offset = 0
                   /\ F[i].data.message_seq = FirstOf(scenario) => i = 1
             Apart == \A i, j \in DOMAIN F :
                F[i].data.fragment_offset = 0 /\ F[j].data.fragment_offset = 0
                    /\ F[i].data.message_seq = F[j].data.message_seq => i = j
  <2>1. \E R : F \in Seq(R)
    BY Flight4Content
  <2>2. Shape
    BY Flight4Content
  <2>3. Numbers
    BY Flight4Content
  <2>4. Apart
    BY Flight4Content
  <2>5. records = F
    BY <1>2
  <2> HIDE DEF F
  <2> QED
    BY <2>1, <2>2, <2>3, <2>4, <2>5, Zenon
<1>4. PICK R : records \in Seq(R)
  BY <1>3
<1>5. ServerNumbers'
  <2>1. PICK t : srv' = [srv EXCEPT !.phase = "negotiating",
                              !.next = n + Len(records), !.transcript = t]
    BY <1>2
  <2>2. Len(records) \in Int
    BY <1>4
  <2>3. srv'.next = n + Len(records) /\ srv'.data = srv.data
        /\ srv'.retransmits = srv.retransmits
    BY <2>1 DEF SrvInv, ServerFields
  <2> QED
    BY <1>2, <2>2, <2>3 DEF ServerNumbers
<1>6. \A i \in DOMAIN records : i \in Int
  BY <1>4
<1>7. ASSUME NEW i \in DOMAIN records
      PROVE  /\ records[i].epoch = 0 /\ records[i].sequence_number = n + i - 1
             /\ records[i].data.message_seq \in Nat
             /\ records[i].data.message_seq >= FirstOf(scenario)
             /\ Slot(scenario, records[i].data.message_seq) = records[i].data.message_seq
  <2>1. PICK r : r = records[i]
    OBVIOUS
  <2>2. /\ r.epoch = 0 /\ r.sequence_number = n + i - 1
        /\ OfServer(scenario, r.data) /\ r.data.message_seq >= FirstOf(scenario)
    BY <1>3, <2>1, Zenon
  <2>3. r.epoch = 0 /\ r.sequence_number = n + i - 1
    BY <2>2
  <2>4. r.data.message_seq \in Nat
    BY <2>2, PlanNumbers DEF OfServer
  <2> QED
    BY <2>1, <2>2, <2>3, <2>4, SlotNumbers
<1>8. Single(scenario, records)
  <2> SUFFICES ASSUME NEW i \in DOMAIN records, NEW j \in DOMAIN records, NEW k,
                      Starts(scenario, records[i], k), Starts(scenario, records[j], k)
               PROVE  i = j
    BY Zenon DEF Single
  <2>1. /\ records[i].data.fragment_offset = 0 /\ records[j].data.fragment_offset = 0
        /\ k = records[i].data.message_seq /\ k = records[j].data.message_seq
    BY <1>7, Zenon DEF Starts, Begins
  <2>2. records[i].data.message_seq = records[j].data.message_seq
    BY <2>1, Zenon
  <2> QED
    BY <1>3, <2>1, <2>2, Zenon
<1>9. ASSUME NEW i \in DOMAIN records
      PROVE  NewStart(records[i])
  <2> SUFFICES ASSUME NEW k, Starts(scenario, records[i], k)
               PROVE  /\ k \in Nat
                      /\ scenario.cookie /\ k = Slot(scenario, 0) =>
                            records[i].epoch = 0 /\ records[i].sequence_number = 0
                      /\ k > SentUpTo(scenario, srv.phase)
    BY Zenon DEF NewStart
  <2>1. /\ k = records[i].data.message_seq /\ records[i].data.fragment_offset = 0
        /\ k \in Nat /\ k >= FirstOf(scenario)
    BY <1>7, Zenon DEF Starts, Begins
  <2>2. k > SentUpTo(scenario, srv.phase)
    BY <1>2, <2>1, PlanNumbers DEF SentUpTo
  <2>3. ASSUME scenario.cookie, k = Slot(scenario, 0)
        PROVE  records[i].sequence_number = 0
    <3>1. FirstOf(scenario) = 1
      BY <2>3, PlanNumbers
    <3>2. scenario.compat /\ k = 1
      BY <2>1, <2>3, <3>1 DEF Slot
    <3>3. i = 1
      <4>1. records[i].data.message_seq = FirstOf(scenario)
        BY <2>1, <3>1, <3>2, Zenon
      <4> QED
        BY <1>3, <2>1, <4>1, Zenon
    <3>4. n = 0
      BY <1>2, <3>2 DEF Premise
    <3> QED
      BY <1>7, <3>3, <3>4
  <2> QED
    BY <1>7, <2>1, <2>2, <2>3
<1>10. \A i \in DOMAIN records : /\ records[i].epoch \in {0, 1}
                                 /\ records[i].sequence_number \in Int
  BY <1>2, <1>6, <1>7
<1> QED
  BY <1>5, <1>8, <1>9, <1>10, Zenon DEF Spoken

LEMMA OthersSpoken ==
    ASSUME SrvInv, Premise, ServerNumbers, ClientNumbers, NEW records,
           Speaks(records), ~ Answer(records)
    PROVE  Spoken(records)
<1>1. PICK Q : toServer \in Seq(Q) /\ \A d \in Q : SentNumbered(d)
  BY Zenon DEF ClientNumbers
<1>2. CASE AskAgain(records)
  <2>1. PICK r : /\ records = <<r>> /\ r.type = "handshake" /\ r.epoch = 0
                 /\ r.data.message_seq = 0 /\ scenario.cookie
                 /\ \E i \in DOMAIN toServer :
                       /\ IsHello(toServer[i]) /\ toServer[i][1].data.body # Cookie
                       /\ r.sequence_number = toServer[i][1].sequence_number + 1 - 1
    BY <1>2, AskContent, Zenon
  <2>2. r.sequence_number = 0
    <3>1. PICK i \in DOMAIN toServer :
              /\ IsHello(toServer[i]) /\ toServer[i][1].data.body # Cookie
              /\ r.sequence_number = toServer[i][1].sequence_number + 1 - 1
      BY <2>1
    <3>2. SentNumbered(toServer[i]) /\ SaysFirst(toServer[i])
      BY <1>1, <3>1 DEF SaysFirst
    <3>3. toServer[i][1].sequence_number = 0
      BY <2>1, <3>2, Zenon DEF SentNumbered
    <3> QED
      BY <3>1, <3>3
  <2>3. NewStart(r)
    <3>1. Slot(scenario, 0) \in Nat
      BY SlotNumbers
    <3> QED
      BY <2>1, <2>2, <3>1 DEF NewStart, Starts, Begins
  <2>4. ServerNumbers'
    BY <1>2 DEF AskAgain, ServerNumbers
  <2> QED
    BY <2>1, <2>2, <2>3, <2>4, OneSpoken
<1>3. CASE Finish(records)
  <2>1. PICK c, f :
            /\ records = <<c, f>>
            /\ c.type = "change_cipher_spec" /\ c.sequence_number = srv.next + 1 - 1
            /\ c.epoch = 0
            /\ f.type = "handshake" /\ f.epoch = 1 /\ f.sequence_number = 0
            /\ f.data.message_seq = LastOf(scenario) + 1
            /\ f.data.fragment_offset = 0
    BY <1>3, FinishContent
  <2>2. c.epoch = 0
    BY <2>1
  <2>3. ServerNumbers'
    <3>1. PICK t : srv' = [srv EXCEPT !.phase = "done", !.transcript = t]
      BY <1>3 DEF Finish
    <3>2. srv'.next = srv.next /\ srv'.data = srv.data
          /\ srv'.retransmits = srv.retransmits
      BY <3>1 DEF SrvInv, ServerFields
    <3> QED
      BY <3>2 DEF ServerNumbers
  <2>4. srv.phase = "negotiating"
    BY <1>3, Zenon DEF Finish
  <2>5. NewStart(f)
    <3> SUFFICES ASSUME NEW k, Starts(scenario, f, k)
                 PROVE  /\ k \in Nat
                        /\ ~ (scenario.cookie /\ k = Slot(scenario, 0))
                        /\ k > SentUpTo(scenario, srv.phase)
      BY Zenon DEF NewStart
    <3>1. /\ k = Slot(scenario, LastOf(scenario) + 1)
          /\ LastOf(scenario) \in Nat /\ LastOf(scenario) >= 1
      BY <2>1, PlanNumbers DEF Starts, Begins
    <3>2. k = LastOf(scenario) + 1
      BY <3>1, SlotNumbers
    <3> QED
      BY <2>4, <3>1, <3>2 DEF SentUpTo, Slot
  <2>6. NewStart(c) /\ \A k : ~ Starts(scenario, c, k)
    BY <2>1, OtherStart DEF Starts
  <2>7. DOMAIN records = {1, 2} /\ records[1] = c /\ records[2] = f
    BY <2>1
  <2>8. Single(scenario, records)
    BY <2>6, <2>7, Zenon DEF Single
  <2>9. c.sequence_number \in Int
    BY <2>1 DEF ServerNumbers
  <2> QED
    BY <2>1, <2>2, <2>3, <2>5, <2>6, <2>7, <2>8, <2>9 DEF Spoken
<1>4. CASE Refuse(records) \/ SendData(records)
  <2>1. PICK r : /\ records = <<r>> /\ r.type # "handshake"
                 /\ r.sequence_number \in {srv.next + 1 - 1, srv.data + 1 + 1 - 1}
                 /\ r.epoch \in {0, 1}
    BY <1>4, OtherContent
  <2>2. r.epoch \in {0, 1}
    BY <2>1
  <2>3. r.sequence_number \in Int
    BY <2>1 DEF ServerNumbers
  <2>4. ServerNumbers'
    <3>1. \/ srv' = [srv EXCEPT !.phase = "failed"]
          \/ srv' = [srv EXCEPT !.data = @ + 1]
      BY <1>4, Zenon DEF Refuse, SendData
    <3>2. ASSUME srv' = [srv EXCEPT !.phase = "failed"] PROVE ServerNumbers'
      BY <3>2 DEF ServerNumbers, SrvInv, ServerFields
    <3>3. ASSUME srv' = [srv EXCEPT !.data = @ + 1] PROVE ServerNumbers'
      BY <3>3 DEF ServerNumbers, SrvInv, ServerFields
    <3> QED
      BY <3>1, <3>2, <3>3
  <2> QED
    BY <2>1, <2>2, <2>3, <2>4, OneSpoken, OtherStart
<1>5. CASE Repeat(records)
  BY <1>5 DEF Repeat, Premise, ServerNumbers
<1> QED
  BY <1>2, <1>3, <1>4, <1>5, Zenon DEF Speaks

-----------------------------------------------------------------------------
(* Every message is taken once.                                             *)

\* Of the records the server has sent, those that begin the same message have
\* the same number, and what begins at the cookie's place has number 0.
OneNumber(S) ==
    /\ \A r \in S : r.epoch \in {0, 1} /\ r.sequence_number \in Int
    /\ \A r, q \in S : \A k :
          Starts(scenario, r, k) /\ Starts(scenario, q, k) =>
              r.epoch = q.epoch /\ r.sequence_number = q.sequence_number
    /\ \A r \in S : scenario.cookie /\ Starts(scenario, r, Slot(scenario, 0)) =>
           r.epoch = 0 /\ r.sequence_number = 0

ClosedTo(e, n) == ClosedAt(epochs[e].antiReplayWindow, n)

\* The window is closed to what begins a message the handler has got ...
Shut(S) ==
    /\ \A r \in S : \A k :
          Starts(scenario, r, k) /\ Taken(k) => ClosedTo(r.epoch, r.sequence_number)
    /\ scenario.cookie /\ Taken(Slot(scenario, 0)) => ClosedTo(0, 0)

\* ... and what the record layer has let through is new to the handler.
Ahead(D) ==
    /\ \A d \in D : Single(scenario, d)
    /\ Single(scenario, datagram) /\ Single(scenario, unmarked)
    /\ \A k : Has(scenario, unmarked, k) =>
          ~ Has(scenario, datagram, k) /\ ~ Taken(k)

LEMMA StartIsSlot ==
    ASSUME NEW S, FromServer(S), NEW r \in S, NEW k, Starts(scenario, r, k)
    PROVE  k \in Slots(scenario) /\ k \in Nat
<1>1. Came(scenario, srv.phase, r.data) /\ k = Slot(scenario, r.data.message_seq)
  BY DEF FromServer, Starts, Begins
<1>2. r.data.message_seq \in Nat
  BY <1>1, PlanNumbers DEF Came, OfServer
<1> QED
  BY <1>1, <1>2, SlotNumbers

LEMMA HeldSlots ==
    ASSUME NEW S, FromServer(S), NEW s \in Seq(S), NEW k, Has(scenario, s, k)
    PROVE  k \in Slots(scenario) /\ k \in Nat
<1>1. PICK i \in DOMAIN s : Starts(scenario, s[i], k)
  BY Zenon DEF Has
<1>2. s[i] \in S
  OBVIOUS
<1> QED
  BY <1>1, <1>2, StartIsSlot

\* As long as the windows stay and the handler gets nothing new.
LEMMA OnceKept ==
    ASSUME NEW D, NEW S, FromServer(S), OneNumber(S), Travels(D, S), Shut(S), Ahead(D),
           scenario' = scenario, WindowsStay(epochs, epochs'),
           \A k \in Slots(scenario) : Taken(k)' => Taken(k),
           UNCHANGED unmarked, Single(scenario, datagram'),
           \A k : Has(scenario, unmarked, k) => ~ Has(scenario, datagram', k)
    PROVE  Shut(S)' /\ Ahead(D)'
<1>1. \A e \in {0, 1} : \A n : ClosedTo(e, n)' <=> ClosedTo(e, n)
  BY DEF WindowsStay, ClosedTo
<1>2. ASSUME NEW r \in S, NEW k, Starts(scenario, r, k), Taken(k)'
      PROVE  ClosedTo(r.epoch, r.sequence_number)'
  <2>1. Taken(k)
    BY <1>2, StartIsSlot
  <2>2. ClosedTo(r.epoch, r.sequence_number) /\ r.epoch \in {0, 1}
    BY <1>2, <2>1, Zenon DEF Shut, OneNumber
  <2> QED
    BY <1>1, <2>2, Zenon
<1>3. ASSUME scenario.cookie, Taken(Slot(scenario, 0))'
      PROVE  ClosedTo(0, 0)'
  <2>1. Taken(Slot(scenario, 0))
    BY <1>3, SlotNumbers
  <2>2. ClosedTo(0, 0)
    BY <1>3, <2>1, Zenon DEF Shut
  <2> QED
    BY <1>1, <2>2
<1>4. Shut(S)'
  BY <1>2, <1>3 DEF Shut
<1>5. ASSUME NEW k, Has(scenario, unmarked, k)
      PROVE  ~ Taken(k)'
  <2>1. k \in Slots(scenario)
    BY <1>5, HeldSlots DEF Travels
  <2> QED
    BY <1>5, <2>1, Zenon DEF Ahead
<1>6. Ahead(D)'
  BY <1>5 DEF Ahead
<1> QED
  BY <1>4, <1>6

\* A record that is let through begins nothing the handler has got.
LEMMA OnceDeciphered ==
    ASSUME KeysInv, NEW D, NEW S, FromServer(S), OneNumber(S), Travels(D, S), Shut(S),
           Ahead(D), FieldShape(epochs), scenario' = scenario, Decipher,
           WindowsStay(epochs, epochs'), \A k : Taken(k)' <=> Taken(k)
    PROVE  Shut(S)' /\ Ahead(D)'
<1> DEFINE p == Head(datagram)
<1>1. /\ datagram # <<>> /\ PassesFilter(p) /\ datagram' = Tail(datagram)
      /\ unmarked' \in {unmarked, Append(unmarked, Plain(p))}
  BY DEF Decipher
<1>2. Plain(p) = p
  <2>1. DecipherOf(p.epoch) = p.keys
    BY <1>1, RecordFits
  <2> QED
    BY <2>1, Zenon DEF Plain
<1>3. /\ datagram \in Seq(S) /\ unmarked \in Seq(S) /\ p \in S
      /\ datagram' \in Seq(S)
  BY <1>1 DEF Travels
<1>4. PICK q \in S : q = p /\ unmarked' \in {unmarked, Append(unmarked, q)}
  BY <1>1, <1>2, <1>3, Zenon
<1>5. q.epoch \in {0, 1} /\ q.sequence_number \in Int
  BY DEF OneNumber
<1>6. ~ ClosedTo(q.epoch, q.sequence_number)
  BY <1>1, <1>4 DEF PassesFilter, ClosedTo, ClosedAt
<1>7. \A k : Starts(scenario, q, k) => ~ Taken(k)
  BY <1>6, Zenon DEF Shut
<1>8. Single(scenario, datagram)
  BY Zenon DEF Ahead
<1>9. Single(scenario, datagram')
  BY <1>1, <1>3, <1>8, SingleTail
<1>10. \A k : /\ Has(scenario, datagram', k) => Has(scenario, datagram, k)
              /\ Starts(scenario, q, k) =>
                    Has(scenario, datagram, k) /\ ~ Has(scenario, datagram', k)
  BY <1>1, <1>3, <1>4, <1>8, SingleTail
<1>11. \A k : Starts(scenario, q, k) => ~ Has(scenario, unmarked, k)
  BY <1>10, Zenon DEF Ahead
<1>12. Single(scenario, unmarked)
  BY Zenon DEF Ahead
<1>13. /\ Single(scenario, unmarked')
       /\ \A k : Has(scenario, unmarked', k) =>
              Has(scenario, unmarked, k) \/ Starts(scenario, q, k)
  <2>1. CASE unmarked' = unmarked
    BY <1>12, <2>1, Zenon
  <2>2. CASE unmarked' = Append(unmarked, q)
    BY <1>3, <1>11, <1>12, <2>2, SingleAppend
  <2> QED
    BY <1>4, <2>1, <2>2
<1>14. \A k : Has(scenario, unmarked', k) =>
           ~ Has(scenario, datagram', k) /\ ~ Taken(k)'
  BY <1>7, <1>10, <1>13, Zenon DEF Ahead
<1>15. Ahead(D)'
  BY <1>9, <1>13, <1>14 DEF Ahead
<1>16. \A e \in {0, 1} : \A n : ClosedTo(e, n)' <=> ClosedTo(e, n)
  BY DEF WindowsStay, ClosedTo
<1>17. \A r \in S : r.epoch \in {0, 1}
  BY DEF OneNumber
<1>18. Shut(S)'
  BY <1>16, <1>17 DEF Shut
<1> QED
  BY <1>15, <1>18

\* A record that is marked is closed to, and new to the handler.
LEMMA OnceMarked ==
    ASSUME NEW D, NEW S, FromServer(S), OneNumber(S), Travels(D, S), Shut(S), Ahead(D),
           FieldShape(epochs), HandlerOnce, TypeOK, scenario' = scenario, MarkOne,
           \A e \in {0, 1} : epochs'[e].antiReplayWindow =
               IF e = Head(unmarked).epoch
               THEN markAsReceived(epochs[e].antiReplayWindow,
                                   Head(unmarked).sequence_number)
               ELSE epochs[e].antiReplayWindow
    PROVE  HandlerOnce' /\ Shut(S)' /\ Ahead(D)'
<1>1. /\ unmarked # <<>> /\ unmarked' = Tail(unmarked) /\ UNCHANGED datagram
      /\ messages' = Append(messages, [type |-> Head(unmarked).type,
                                       data |-> Head(unmarked).data])
      /\ UNCHANGED <<incompleteMessages, completeMessages, lastProcessedSeqNum>>
  BY DEF MarkOne, Mark, othersUnchanged, handlerVars
<1>2. /\ datagram \in Seq(S) /\ unmarked \in Seq(S) /\ messages \in Seq(Contents(S))
  BY DEF Travels
<1>3. PICK p \in S : p = Head(unmarked)
  BY <1>1, <1>2
<1>4. PICK m : m = [type |-> p.type, data |-> p.data]
  OBVIOUS
<1>5. messages' = Append(messages, m)
  BY <1>1, <1>3, <1>4, Zenon
<1>6. \A k : Starts(scenario, m, k) <=> Starts(scenario, p, k)
  <2>1. m.type = p.type /\ m.data = p.data
    BY <1>4
  <2> QED
    BY <2>1, Zenon DEF Starts
<1>7. /\ Single(scenario, unmarked')
      /\ \A k : Has(scenario, unmarked', k) => Has(scenario, unmarked, k)
      /\ \A k : Starts(scenario, p, k) =>
             Has(scenario, unmarked, k) /\ ~ Has(scenario, unmarked', k)
  <2>1. Single(scenario, unmarked)
    BY Zenon DEF Ahead
  <2> QED
    BY <1>1, <1>2, <1>3, <2>1, SingleTail
<1>8. Single(scenario, messages)
  BY Zenon DEF HandlerOnce, Once
<1>9. \A k : Starts(scenario, p, k) => ~ Taken(k) /\ k \in Nat
  BY <1>7, StartIsSlot DEF Ahead
<1>10. \A k : Starts(scenario, m, k) => ~ Has(scenario, messages, k)
  BY <1>6, <1>9, Zenon DEF Taken, TakenBy
<1>11. /\ Single(scenario, messages')
       /\ \A k : Has(scenario, messages', k) =>
              Has(scenario, messages, k) \/ Starts(scenario, p, k)
  BY <1>2, <1>5, <1>6, <1>8, <1>10, SingleAppend
<1>12. ASSUME NEW k, Has(scenario, messages', k)
       PROVE  /\ ~ HasPart(scenario, incompleteMessages, k)
              /\ ~ HasWhole(scenario, completeMessages, k)
              /\ k > lastProcessedSeqNum
  <2>1. CASE Has(scenario, messages, k)
    BY <2>1, Zenon DEF HandlerOnce, Once
  <2>2. CASE Starts(scenario, p, k)
    <3>1. ~ Taken(k) /\ k \in Nat
      BY <1>9, <2>2
    <3>2. lastProcessedSeqNum \in Int
      BY DEF TypeOK
    <3> QED
      BY <3>1, <3>2 DEF Taken, TakenBy
  <2> QED
    BY <1>11, <1>12, <2>1, <2>2
<1>13. HandlerOnce'
  <2>1. Once(scenario, messages', incompleteMessages, completeMessages,
             lastProcessedSeqNum)
    BY <1>11, <1>12, Zenon DEF HandlerOnce, Once
  <2> QED
    BY <1>1, <2>1, Zenon DEF HandlerOnce
<1>14. \A k : Taken(k)' => Taken(k) \/ Starts(scenario, p, k)
  BY <1>1, <1>11, Zenon DEF Taken, TakenBy
<1>15. /\ p.epoch \in {0, 1} /\ p.sequence_number \in Int
       /\ \A e \in {0, 1} : /\ epochs[e].antiReplayWindow \in Window
                            /\ epochs'[e].antiReplayWindow =
                                 IF e = p.epoch
                                 THEN markAsReceived(epochs[e].antiReplayWindow,
                                                     p.sequence_number)
                                 ELSE epochs[e].antiReplayWindow
  BY <1>3, Zenon DEF OneNumber, FieldShape
<1>16. ASSUME NEW e \in {0, 1}, NEW n \in Int,
              ClosedTo(e, n) \/ (e = p.epoch /\ n = p.sequence_number)
       PROVE  ClosedTo(e, n)'
  <2>1. CASE e = p.epoch
    <3>1. PICK w \in Window : w = epochs[e].antiReplayWindow
      BY <1>15
    <3>2. ClosedAt(w, n) \/ n = p.sequence_number
      BY <1>16, <3>1, Zenon DEF ClosedTo
    <3>3. ClosedAt(markAsReceived(w, p.sequence_number), n)
      BY <1>15, <3>2, ClosedByMark
    <3>4. epochs'[e].antiReplayWindow = markAsReceived(w, p.sequence_number)
      BY <1>15, <2>1, <3>1, Zenon
    <3> QED
      BY <3>3, <3>4, Zenon DEF ClosedTo
  <2>2. CASE e # p.epoch
    <3>1. epochs'[e].antiReplayWindow = epochs[e].antiReplayWindow
      BY <1>15, <2>2, Zenon
    <3> QED
      BY <1>16, <2>2, <3>1, Zenon DEF ClosedTo
  <2> QED
    BY <2>1, <2>2
<1>17. ASSUME NEW r \in S, NEW k, Starts(scenario, r, k), Taken(k)'
       PROVE  ClosedTo(r.epoch, r.sequence_number)'
  <2>1. r.epoch \in {0, 1} /\ r.sequence_number \in Int
    BY DEF OneNumber
  <2>2. CASE Taken(k)
    <3>1. ClosedTo(r.epoch, r.sequence_number)
      BY <1>17, <2>2, Zenon DEF Shut
    <3> QED
      BY <1>16, <2>1, <3>1
  <2>3. CASE Starts(scenario, p, k)
    <3>1. r.epoch = p.epoch /\ r.sequence_number = p.sequence_number
      BY <1>17, <2>3, Zenon DEF OneNumber
    <3> QED
      BY <1>16, <2>1, <3>1
  <2> QED
    BY <1>14, <1>17, <2>2, <2>3
<1>18. ASSUME scenario.cookie, Taken(Slot(scenario, 0))'
       PROVE  ClosedTo(0, 0)'
  <2>1. CASE Taken(Slot(scenario, 0))
    <3>1. ClosedTo(0, 0)
      BY <1>18, <2>1, Zenon DEF Shut
    <3> QED
      BY <1>16, <3>1
  <2>2. CASE Starts(scenario, p, Slot(scenario, 0))
    <3>1. p.epoch = 0 /\ p.sequence_number = 0
      BY <1>18, <2>2, Zenon DEF OneNumber
    <3> QED
      BY <1>16, <3>1
  <2> QED
    BY <1>14, <1>18, <2>1, <2>2
<1>19. Shut(S)'
  BY <1>17, <1>18 DEF Shut
<1>20. ASSUME NEW k, Has(scenario, unmarked', k)
       PROVE  ~ Has(scenario, datagram', k) /\ ~ Taken(k)'
  <2>1. ~ Has(scenario, datagram, k) /\ ~ Taken(k)
    BY <1>7, <1>20, Zenon DEF Ahead
  <2>2. ~ Starts(scenario, p, k)
    BY <1>7, <1>20, Zenon
  <2> QED
    BY <1>1, <1>14, <2>1, <2>2
<1>21. Ahead(D)'
  BY <1>1, <1>7, <1>20 DEF Ahead
<1> QED
  BY <1>13, <1>19, <1>21

\* What the server says for the first time begins nothing the handler has got.
LEMMA TakenEarlier ==
    ASSUME OriginInv, TypeOK, lastProcessedSeqNum <= SentUpTo(scenario, srv.phase),
           NEW k \in Nat, Taken(k), k > SentUpTo(scenario, srv.phase)
    PROVE  scenario.cookie /\ k = Slot(scenario, 0)
<1>1. \E f : Came(scenario, srv.phase, f) /\ k = Slot(scenario, f.message_seq)
  <2>1. CASE Has(scenario, messages, k)
    <3>1. PICK D, S : Travels(D, S) /\ FromServer(S)
      BY DEF OriginInv
    <3>2. PICK i \in DOMAIN messages : Starts(scenario, messages[i], k)
      BY <2>1, Zenon DEF Has
    <3>3. PICK r \in S : messages[i].type = r.type /\ messages[i].data = r.data
      BY <3>1, MessageOfRecord
    <3> QED
      BY <3>1, <3>2, <3>3, Zenon DEF FromServer, Starts, Begins
  <2>2. CASE HasPart(scenario, incompleteMessages, k)
    <3>1. PICK F : /\ incompleteMessages \in Seq(F)
                   /\ \A f \in F : Came(scenario, srv.phase, f)
      BY DEF OriginInv
    <3>2. PICK i \in DOMAIN incompleteMessages : Begins(scenario, incompleteMessages[i], k)
      BY <2>2, Zenon DEF HasPart
    <3>3. incompleteMessages[i] \in F
      BY <3>1
    <3> QED
      BY <3>1, <3>2, <3>3, Zenon DEF Begins
  <2>3. CASE HasWhole(scenario, completeMessages, k)
    <3>1. PICK n \in DOMAIN completeMessages : Slot(scenario, n) = k
      BY <2>3, Zenon DEF HasWhole
    <3>2. completeMessages[n].message_seq = n
      BY DEF TypeOK
    <3>3. Came(scenario, srv.phase, completeMessages[n])
      BY DEF OriginInv
    <3> QED
      BY <3>1, <3>2, <3>3, Zenon
  <2>4. CASE k <= lastProcessedSeqNum
    <3>1. SentUpTo(scenario, srv.phase) \in Int /\ lastProcessedSeqNum \in Int
      BY PlanNumbers DEF SentUpTo, TypeOK
    <3> QED
      BY <2>4, <3>1
  <2> QED
    BY <2>1, <2>2, <2>3, <2>4, Zenon DEF Taken, TakenBy
<1>2. PICK f : Came(scenario, srv.phase, f) /\ k = Slot(scenario, f.message_seq)
  BY <1>1
<1> QED
  BY <1>2, EarlierSlots

LEMMA OnceSpoken ==
    ASSUME OriginInv, TypeOK, lastProcessedSeqNum <= SentUpTo(scenario, srv.phase),
           NEW D, NEW S, FromServer(S), OneNumber(S), Travels(D, S), Shut(S), Ahead(D),
           NEW records, Spoken(records), NEW R, R = ToSet(records),
           NEW E, E = D \cup {records} \cup {<<r>> : r \in R},
           scenario' = scenario, UNCHANGED <<recordVars, handlerVars>>
    PROVE  OneNumber(S \cup R)' /\ Shut(S \cup R)' /\ Ahead(E)'
<1>1. UNCHANGED <<epochs, datagram, unmarked, messages, incompleteMessages,
                  completeMessages, lastProcessedSeqNum>>
  BY DEF recordVars, layerVars, receiveVars, handlerVars
<1>2. /\ \A k : Taken(k)' <=> Taken(k)
      /\ \A e, n : ClosedTo(e, n)' <=> ClosedTo(e, n)
  BY <1>1, Zenon DEF Taken, ClosedTo
<1>3. ASSUME NEW r \in R
      PROVE  /\ r.epoch \in {0, 1} /\ r.sequence_number \in Int /\ NewStart(r)
             /\ \E i \in DOMAIN records : r = records[i]
  BY DEF ToSet, Spoken
<1>4. ASSUME NEW r \in R, NEW k, Starts(scenario, r, k),
             \/ Taken(k)
             \/ \E q \in S : Starts(scenario, q, k)
      PROVE  /\ scenario.cookie /\ k = Slot(scenario, 0)
             /\ r.epoch = 0 /\ r.sequence_number = 0
  <2>1. /\ k \in Nat
        /\ scenario.cookie /\ k = Slot(scenario, 0) =>
              r.epoch = 0 /\ r.sequence_number = 0
        /\ \/ scenario.cookie /\ k = Slot(scenario, 0)
           \/ k > SentUpTo(scenario, srv.phase)
    <3>1. NewStart(r) /\ Starts(scenario, r, k)
      BY <1>3, <1>4
    <3> QED
      BY <3>1, Zenon DEF NewStart
  <2>2. ASSUME k > SentUpTo(scenario, srv.phase)
        PROVE  scenario.cookie /\ k = Slot(scenario, 0)
    <3>1. CASE Taken(k)
      BY <2>1, <2>2, <3>1, TakenEarlier
    <3>2. ASSUME NEW q \in S, Starts(scenario, q, k)
          PROVE  scenario.cookie /\ k = Slot(scenario, 0)
      <4>1. Came(scenario, srv.phase, q.data) /\ k = Slot(scenario, q.data.message_seq)
        BY <3>2 DEF FromServer, Starts, Begins
      <4> QED
        BY <2>2, <4>1, EarlierSlots
    <3> QED
      BY <1>4, <3>1, <3>2
  <2> QED
    BY <2>1, <2>2
<1> DEFINE T == S \cup R
<1>5. \A r \in T : r.epoch \in {0, 1} /\ r.sequence_number \in Int
  BY <1>3 DEF OneNumber
<1>6. \A r \in T : scenario.cookie /\ Starts(scenario, r, Slot(scenario, 0)) =>
          r.epoch = 0 /\ r.sequence_number = 0
  <2>1. ASSUME NEW r \in R, scenario.cookie, Starts(scenario, r, Slot(scenario, 0))
        PROVE  r.epoch = 0 /\ r.sequence_number = 0
    BY <1>3, <2>1, Zenon DEF NewStart
  <2> QED
    BY <2>1 DEF OneNumber
<1>7. ASSUME NEW r \in R, NEW q \in T, NEW k,
             Starts(scenario, r, k), Starts(scenario, q, k)
      PROVE  r.epoch = q.epoch /\ r.sequence_number = q.sequence_number
  <2>1. CASE q \in S
    <3>1. /\ scenario.cookie /\ k = Slot(scenario, 0)
          /\ r.epoch = 0 /\ r.sequence_number = 0
      BY <1>4, <1>7, <2>1
    <3>2. q.epoch = 0 /\ q.sequence_number = 0
      BY <1>6, <1>7, <3>1, Zenon
    <3> QED
      BY <3>1, <3>2
  <2>2. CASE q \in R
    <3>1. PICK i \in DOMAIN records : r = records[i]
      BY <1>3
    <3>2. PICK j \in DOMAIN records : q = records[j]
      BY <1>3, <2>2
    <3>3. i = j
      BY <1>7, <3>1, <3>2, Zenon DEF Spoken, Single
    <3> QED
      BY <3>1, <3>2, <3>3
  <2> QED
    BY <2>1, <2>2
<1>8. ASSUME NEW r \in T, NEW q \in T, NEW k,
             Starts(scenario, r, k), Starts(scenario, q, k)
      PROVE  r.epoch = q.epoch /\ r.sequence_number = q.sequence_number
  <2>1. CASE r \in R \/ q \in R
    BY <1>7, <1>8, <2>1
  <2>2. CASE r \in S /\ q \in S
    BY <1>8, <2>2, Zenon DEF OneNumber
  <2> QED
    BY <2>1, <2>2
<1>9. ASSUME NEW r \in T, NEW k, Starts(scenario, r, k), Taken(k)
      PROVE  ClosedTo(r.epoch, r.sequence_number)
  <2>1. CASE r \in S
    BY <1>9, <2>1, Zenon DEF Shut
  <2>2. CASE r \in R
    <3>1. /\ scenario.cookie /\ k = Slot(scenario, 0)
          /\ r.epoch = 0 /\ r.sequence_number = 0
      BY <1>4, <1>9, <2>2
    <3>2. ClosedTo(0, 0)
      BY <1>9, <3>1, Zenon DEF Shut
    <3> QED
      BY <3>1, <3>2, Zenon
  <2> QED
    BY <2>1, <2>2
<1>10. ASSUME NEW d \in E
       PROVE  Single(scenario, d)
  <2>1. CASE d \in D
    BY <2>1 DEF Ahead
  <2>2. CASE d = records
    BY <2>2 DEF Spoken
  <2>3. ASSUME NEW r \in R, d = <<r>> PROVE Single(scenario, d)
    <3>1. DOMAIN d = {1}
      BY <2>3
    <3> QED
      BY <3>1 DEF Single
  <2> QED
    BY <2>1, <2>2, <2>3
<1> HIDE DEF T
<1>11. OneNumber(T)'
  BY <1>5, <1>6, <1>8 DEF OneNumber
<1>12. Shut(T)'
  BY <1>2, <1>9 DEF Shut
<1>13. Ahead(E)'
  BY <1>1, <1>2, <1>10 DEF Ahead
<1> QED
  BY <1>11, <1>12, <1>13 DEF T

-----------------------------------------------------------------------------
(* What the handler does with what it gets.                                 *)

LEMMA SlotsFixed ==
    ASSUME NEW plan, NEW k \in Slots(plan)
    PROVE  k \in Nat /\ Slot(plan, k) = k
<1>1. PICK n \in Nat : k = Slot(plan, n)
  BY DEF Slots
<1> QED
  BY <1>1 DEF Slot

LEMMA MessageSlots ==
    ASSUME OriginInv, NEW i \in DOMAIN messages, NEW k, Starts(scenario, messages[i], k)
    PROVE  k \in Slots(scenario)
<1>1. PICK D, S : Travels(D, S) /\ FromServer(S)
  BY DEF OriginInv
<1>2. PICK r \in S : messages[i].type = r.type /\ messages[i].data = r.data
  BY <1>1, MessageOfRecord
<1>3. Starts(scenario, r, k)
  BY <1>2, Zenon DEF Starts
<1> QED
  BY <1>1, <1>3, StartIsSlot

LEMMA PartSlots ==
    ASSUME NEW F, NEW parts \in Seq(F), \A f \in F : Came(scenario, srv.phase, f),
           NEW k, HasPart(scenario, parts, k)
    PROVE  k \in Slots(scenario)
<1>1. PICK i \in DOMAIN parts : Begins(scenario, parts[i], k)
  BY Zenon DEF HasPart
<1>2. Came(scenario, srv.phase, parts[i])
  OBVIOUS
<1>3. k = Slot(scenario, parts[i].message_seq) /\ parts[i].message_seq \in Nat
  BY <1>1, <1>2, PlanNumbers DEF Begins, Came, OfServer
<1> QED
  BY <1>3, SlotNumbers

\* Taking a flight counts its messages as processed instead.
LEMMA OnceTaken ==
    ASSUME OriginInv, TypeOK, PipeInv, HandlerOnce, scenario' = scenario,
           NEW type, TakeFlight(type)
    PROVE  /\ HandlerOnce'
           /\ \A k \in Slots(scenario) : Taken(k)' => Taken(k)
<1>1. PICK last \in 0 .. LastOf(scenario) + 1 :
          /\ DOMAIN NextStored.complete = lastProcessedSeqNum + 1 .. last
          /\ lastProcessedSeqNum' = last
  BY FlightTaken
<1>2. /\ messages # <<>> /\ Head(messages).type = "handshake"
      /\ messages' = Tail(messages) /\ incompleteMessages' = NextStored.incomplete
      /\ completeMessages' = <<>>
  BY Zenon DEF TakeFlight, Incoming, NextMessage
<1>3. PICK msgs, parts, whole, lp :
          /\ msgs = Tail(messages) /\ parts = NextStored.incomplete
          /\ whole = NextStored.complete /\ lp = lastProcessedSeqNum
  OBVIOUS
<1>4. /\ Once(scenario, msgs, parts, whole, lp)
      /\ \A k : TakenBy(scenario, msgs, parts, whole, lp, k) => Taken(k)
  BY <1>2, <1>3, StoredOnce
<1>5. last \in Int /\ lp \in Int /\ DOMAIN whole = lp + 1 .. last
  BY <1>1, <1>3 DEF TypeOK
<1>6. \A k \in Slots(scenario) : k <= last => HasWhole(scenario, whole, k) \/ k <= lp
  BY <1>5, SlotsFixed DEF HasWhole
<1>7. ASSUME NEW k, Has(scenario, msgs, k) PROVE k \in Slots(scenario)
  <2>1. PICK i \in DOMAIN msgs : Starts(scenario, msgs[i], k)
    BY <1>7, Zenon DEF Has
  <2>2. PICK M : messages \in Seq(M)
    BY DEF OriginInv, Travels
  <2>3. i + 1 \in DOMAIN messages /\ messages[i + 1] = msgs[i]
    BY <1>2, <1>3, <2>2
  <2>4. Starts(scenario, messages[i + 1], k)
    BY <2>1, <2>3, Zenon
  <2> QED
    BY <2>3, <2>4, MessageSlots
<1>8. ASSUME NEW k, HasPart(scenario, parts, k) PROVE k \in Slots(scenario)
  <2>1. PICK F : parts \in Seq(F) /\ \A f \in F : Came(scenario, srv.phase, f)
    BY <1>2, <1>3, StoredCame
  <2> QED
    BY <1>8, <2>1, PartSlots
<1>9. \A k : ~ HasWhole(scenario, <<>>, k)
  <2>1. DOMAIN <<>> = {}
    OBVIOUS
  <2> QED
    BY <2>1 DEF HasWhole
<1>10. ASSUME NEW k, Has(scenario, msgs, k)
       PROVE  ~ HasPart(scenario, parts, k) /\ k > last
  <2>1. /\ ~ HasPart(scenario, parts, k) /\ ~ HasWhole(scenario, whole, k) /\ k > lp
    BY <1>4, <1>10, Zenon DEF Once
  <2>2. k \in Slots(scenario) /\ k \in Int
    BY <1>7, <1>10, SlotsFixed
  <2> QED
    BY <1>5, <1>6, <2>1, <2>2
<1>11. ASSUME NEW k, HasPart(scenario, parts, k)
       PROVE  k > last
  <2>1. ~ HasWhole(scenario, whole, k) /\ k > lp
    BY <1>4, <1>11, Zenon DEF Once
  <2>2. k \in Slots(scenario) /\ k \in Int
    BY <1>8, <1>11, SlotsFixed
  <2> QED
    BY <1>5, <1>6, <2>1, <2>2
<1>12. Once(scenario, msgs, parts, <<>>, last)
  <2>1. DOMAIN <<>> = {}
    OBVIOUS
  <2>2. Single(scenario, msgs) /\ PartsOnce(scenario, parts)
    BY <1>4, Zenon DEF Once
  <2> QED
    BY <1>9, <1>10, <1>11, <2>1, <2>2 DEF Once
<1>13. HandlerOnce'
  BY <1>1, <1>2, <1>3, <1>12, Zenon DEF HandlerOnce
<1>14. ASSUME NEW k \in Slots(scenario), TakenBy(scenario, msgs, parts, <<>>, last, k)
       PROVE  Taken(k)
  <2>1. TakenBy(scenario, msgs, parts, whole, lp, k)
    BY <1>6, <1>9, <1>14, Zenon DEF TakenBy
  <2> QED
    BY <1>4, <2>1
<1>15. \A k \in Slots(scenario) : Taken(k)' => Taken(k)
  BY <1>1, <1>2, <1>3, <1>14, Zenon DEF Taken
<1> QED
  BY <1>13, <1>15

\* Only marking a record gives the handler something new.
LEMMA HandlerTakes ==
    ASSUME OriginInv, TypeOK, PipeInv, HandlerOnce, [Next]_vars, ~ MarkOne
    PROVE  /\ HandlerOnce'
           /\ \A k \in Slots(scenario) : Taken(k)' => Taken(k)
<1>1. scenario' = scenario
  BY PlanKept
<1>2. CASE Collect
  <2>1. /\ messages # <<>> /\ Head(messages).type = "handshake"
        /\ messages' = Tail(messages) /\ incompleteMessages' = NextStored.incomplete
        /\ completeMessages' = NextStored.complete /\ UNCHANGED lastProcessedSeqNum
    BY <1>2, Zenon DEF Collect, Incoming, NextMessage
  <2>2. /\ Once(scenario, Tail(messages), NextStored.incomplete,
                NextStored.complete, lastProcessedSeqNum)
        /\ \A k : TakenBy(scenario, Tail(messages), NextStored.incomplete,
                          NextStored.complete, lastProcessedSeqNum, k) => Taken(k)
    BY <2>1, StoredOnce
  <2>3. PICK msgs, parts, whole :
            /\ msgs = Tail(messages) /\ parts = NextStored.incomplete
            /\ whole = NextStored.complete
    OBVIOUS
  <2>4. /\ Once(scenario, msgs, parts, whole, lastProcessedSeqNum)
        /\ \A k : TakenBy(scenario, msgs, parts, whole, lastProcessedSeqNum, k) => Taken(k)
    BY <2>2, <2>3, Zenon
  <2>5. /\ messages' = msgs /\ incompleteMessages' = parts /\ completeMessages' = whole
        /\ lastProcessedSeqNum' = lastProcessedSeqNum
    BY <2>1, <2>3
  <2>6. HandlerOnce'
    BY <1>1, <2>4, <2>5, Zenon DEF HandlerOnce
  <2>7. \A k : Taken(k)' => Taken(k)
    <3>1. \A k : Taken(k)' <=>
              TakenBy(scenario, msgs, parts, whole, lastProcessedSeqNum, k)
      BY <1>1, <2>5, Zenon DEF Taken
    <3> QED
      BY <2>4, <3>1, Zenon
  <2> QED
    BY <2>6, <2>7
<1>3. CASE HandleHelloVerifyRequest \/ HandleServerHelloDone \/ HandleFinished
  <2>1. \E type : TakeFlight(type)
    BY <1>3, Zenon
    DEF HandleHelloVerifyRequest, HandleServerHelloDone, HandleFinished
  <2> QED
    BY <1>1, <2>1, OnceTaken
<1>4. CASE HandleChangeCipherSpec \/ HandleFatalAlert \/ HandleApplicationData
  <2>1. /\ messages # <<>> /\ messages' = Tail(messages)
        /\ UNCHANGED <<incompleteMessages, completeMessages, lastProcessedSeqNum>>
    BY <1>4, Zenon
    DEF HandleChangeCipherSpec, HandleFatalAlert, HandleApplicationData, Incoming,
        NextMessage, handlerVars
  <2>2. PICK M : messages \in Seq(M)
    BY DEF OriginInv, Travels
  <2>3. /\ Once(scenario, Tail(messages), incompleteMessages, completeMessages,
                lastProcessedSeqNum)
        /\ \A k : TakenBy(scenario, Tail(messages), incompleteMessages,
                          completeMessages, lastProcessedSeqNum, k) => Taken(k)
    <3>1. PartsOnce(scenario, incompleteMessages)
      BY Zenon DEF HandlerOnce, Once
    <3>2. /\ \A k : HasPart(scenario, incompleteMessages, k) =>
                 \/ HasPart(scenario, incompleteMessages, k)
                 \/ Starts(scenario, Head(messages), k)
          /\ \A n \in DOMAIN completeMessages : n \notin DOMAIN completeMessages =>
                 /\ \A m \in DOMAIN completeMessages :
                        m \notin DOMAIN completeMessages => m = n
                 /\ ~ HasPart(scenario, incompleteMessages, Slot(scenario, n))
                 /\ \/ HasPart(scenario, incompleteMessages, Slot(scenario, n))
                    \/ Starts(scenario, Head(messages), Slot(scenario, n))
      OBVIOUS
    <3> QED
      BY <2>1, <2>2, <3>1, <3>2, OnceMoved DEF HandlerOnce, Taken
  <2>4. PICK msgs : msgs = Tail(messages)
    OBVIOUS
  <2>5. /\ messages' = msgs /\ incompleteMessages' = incompleteMessages
        /\ completeMessages' = completeMessages
        /\ lastProcessedSeqNum' = lastProcessedSeqNum
    BY <2>1, <2>4
  <2>6. HandlerOnce'
    BY <1>1, <2>3, <2>4, <2>5, Zenon DEF HandlerOnce
  <2>7. \A k : Taken(k)' => Taken(k)
    <3>1. \A k : Taken(k)' <=>
              TakenBy(scenario, msgs, incompleteMessages, completeMessages,
                      lastProcessedSeqNum, k)
      BY <1>1, <2>5, Zenon DEF Taken
    <3> QED
      BY <2>3, <2>4, <3>1, Zenon
  <2> QED
    BY <2>6, <2>7
<1>5. CASE \/ Filter \/ ProcessOutgoing \/ SendDatagram \/ ReceiveDatagram
           \/ AlertSent \/ Disturb \/ ServerReceive \/ ServerRetransmit
           \/ ServerSendData \/ Timeout \/ UNCHANGED vars
  <2>1. UNCHANGED <<messages, incompleteMessages, completeMessages, lastProcessedSeqNum>>
    BY <1>5, Zenon
    DEF Filter, Discard, Decipher, ProcessOutgoing, processOutgoingMessage,
        SendDatagram, Transmit, ReceiveDatagram, Receive, AlertSent, Disturb,
        ServerReceive, ServerRetransmit, ServerSendData, Timeout, othersUnchanged,
        handlerVars, receiveVars, recordVars, vars
  <2> QED
    BY <1>1, <2>1, Zenon DEF HandlerOnce, Taken
<1> QED
  BY <1>2, <1>3, <1>4, <1>5, Zenon DEF Next, Internal

\* The window is emptied when nothing but requests for the cookie was sent: the
\* next message that begins at its place is the ServerHello.
LEMMA OnceReset ==
    ASSUME OriginInv, TypeOK, PipeInv, StageInv, HandlerOnce, scenario' = scenario,
           NEW D, NEW S, FromServer(S), Travels(D, S), Ahead(D), HandlerOnce',
           HandleHelloVerifyRequest, scenario.compat,
           \A k \in Slots(scenario) : Taken(k)' => Taken(k)
    PROVE  Shut(S)' /\ Ahead(D)'
<1>1. TakeFlight("hello_verify_request")
  BY Zenon DEF HandleHelloVerifyRequest
<1>2. /\ messages # <<>> /\ Head(messages).type = "handshake"
      /\ messages' = Tail(messages) /\ incompleteMessages' = NextStored.incomplete
      /\ completeMessages' = <<>> /\ UNCHANGED <<datagram, unmarked>>
  BY <1>1, Zenon DEF TakeFlight, Incoming, NextMessage
<1>3. /\ scenario.cookie /\ lastProcessedSeqNum' = 0 /\ srv.phase = "listen"
      /\ lastProcessedSeqNum = -1
  BY <1>1, TakenAt DEF AwaitsAnswer
<1>4. Slot(scenario, 0) = 1
  BY <1>3 DEF Slot
<1>5. ASSUME NEW f, Came(scenario, srv.phase, f)
      PROVE  Slot(scenario, f.message_seq) = 1
  <2>1. f.message_seq = 0
    BY <1>3, <1>5, PlanNumbers DEF Came, OfServer
  <2> QED
    BY <1>4, <2>1
<1>6. ~ Taken(1)'
  <2>1. PICK last \in 0 .. LastOf(scenario) + 1 :
            /\ last \in DOMAIN NextStored.complete /\ lastProcessedSeqNum' = last
    BY <1>1, FlightTaken
  <2>2. HasWhole(scenario, NextStored.complete, 1)
    BY <1>3, <1>4, <2>1 DEF HasWhole
  <2>3. Once(scenario, Tail(messages), NextStored.incomplete, NextStored.complete,
             lastProcessedSeqNum)
    BY <1>2, StoredOnce
  <2>4. /\ ~ Has(scenario, Tail(messages), 1)
        /\ ~ HasPart(scenario, NextStored.incomplete, 1)
    BY <2>2, <2>3, Zenon DEF Once
  <2>5. ~ HasWhole(scenario, <<>>, 1)
    <3>1. DOMAIN <<>> = {}
      OBVIOUS
    <3> QED
      BY <3>1 DEF HasWhole
  <2>6. ~ (1 <= 0)
    OBVIOUS
  <2> QED
    BY <1>2, <1>3, <2>4, <2>5, <2>6, Zenon DEF Taken, TakenBy
<1>7. ASSUME NEW r \in S, NEW k, Starts(scenario, r, k)
      PROVE  ~ Taken(k)'
  <2>1. Came(scenario, srv.phase, r.data) /\ k = Slot(scenario, r.data.message_seq)
    BY <1>7 DEF FromServer, Starts, Begins
  <2>2. k = 1
    BY <1>5, <2>1
  <2> QED
    BY <1>6, <2>2, Zenon
<1>8. Shut(S)'
  <2>1. ~ Taken(Slot(scenario, 0))'
    BY <1>4, <1>6, Zenon
  <2> QED
    BY <1>7, <2>1, Zenon DEF Shut
<1>9. ASSUME NEW k, Has(scenario, unmarked, k)
      PROVE  ~ Taken(k)'
  <2>1. k \in Slots(scenario)
    BY <1>9, HeldSlots DEF Travels
  <2> QED
    BY <1>9, <2>1, Zenon DEF Ahead
<1>10. Ahead(D)'
  BY <1>2, <1>9 DEF Ahead
<1> QED
  BY <1>8, <1>10

-----------------------------------------------------------------------------
(* Together.                                                                *)

\* The messages processed so far are among those the server has sent, and each
\* is taken once, on its way through both windows.
OnceInv ==
    /\ FieldShape(epochs) /\ ClientNumbers /\ ServerNumbers /\ HandlerOnce
    /\ lastProcessedSeqNum <= SentUpTo(scenario, srv.phase)
    /\ \E D, S : /\ Travels(D, S) /\ FromServer(S)
                 /\ OneNumber(S) /\ Shut(S) /\ Ahead(D)

LEMMA UpTo ==
    ASSUME NEW plan, NEW phase, NEW f, Came(plan, phase, f)
    PROVE  f.message_seq \in Nat /\ f.message_seq <= SentUpTo(plan, phase)
<1>1. /\ f.message_seq \in 0 .. LastOf(plan) + 1
      /\ f.message_seq >= FirstOf(plan) => phase # "listen"
      /\ f.message_seq > LastOf(plan) => phase = "done"
  BY DEF Came, OfServer
<1>2. FirstOf(plan) \in {0, 1} /\ LastOf(plan) \in Nat
  BY PlanNumbers
<1> QED
  BY <1>1, <1>2 DEF SentUpTo

LEMMA ProcessedNext ==
    ASSUME SrvInv, OriginInv, TypeOK, PipeInv, [Next]_vars,
           lastProcessedSeqNum <= SentUpTo(scenario, srv.phase)
    PROVE  lastProcessedSeqNum' <= SentUpTo(scenario', srv'.phase)
<1>1. scenario' = scenario /\ PhaseOn
  BY PlanKept, PhaseGoesOn
<1>2. /\ SentUpTo(scenario, srv.phase) \in Int /\ SentUpTo(scenario, srv'.phase) \in Int
      /\ SentUpTo(scenario, srv.phase) <= SentUpTo(scenario, srv'.phase)
  BY <1>1, PlanNumbers DEF SentUpTo, PhaseOn, Kept
<1>3. lastProcessedSeqNum' <= SentUpTo(scenario, srv.phase) /\ lastProcessedSeqNum' \in Int
  <2>1. CASE UNCHANGED lastProcessedSeqNum
    BY <2>1 DEF TypeOK
  <2>2. ASSUME NEW type, TakeFlight(type)
        PROVE  /\ lastProcessedSeqNum' <= SentUpTo(scenario, srv.phase)
               /\ lastProcessedSeqNum' \in Int
    <3>1. PICK last \in 0 .. LastOf(scenario) + 1 :
              /\ last \in DOMAIN NextStored.complete /\ lastProcessedSeqNum' = last
              /\ \A n \in DOMAIN NextStored.complete :
                    /\ Came(scenario, srv.phase, NextStored.complete[n])
                    /\ NextStored.complete[n].message_seq = n
      BY <2>2, FlightTaken
    <3> QED
      BY <3>1, UpTo
  <2>3. UNCHANGED lastProcessedSeqNum \/ \E type : TakeFlight(type)
    BY Zenon
    DEF Next, Internal, Collect, HandleHelloVerifyRequest, HandleServerHelloDone,
        HandleFinished, HandleChangeCipherSpec, HandleFatalAlert,
        HandleApplicationData, Filter, MarkOne, ProcessOutgoing, SendDatagram,
        ReceiveDatagram, AlertSent, Disturb, ServerReceive, ServerRetransmit,
        ServerSendData, Timeout, othersUnchanged, handlerVars, vars
  <2> QED
    BY <2>1, <2>2, <2>3
<1> QED
  BY <1>1, <1>2, <1>3

LEMMA AllSpoken ==
    ASSUME SrvInv, Premise, ServerNumbers, ClientNumbers, NEW records, Speaks(records)
    PROVE  Spoken(records)
<1>1. CASE Answer(records)
  BY <1>1, AnswerSpoken
<1>2. CASE ~ Answer(records)
  BY <1>2, OthersSpoken
<1> QED
  BY <1>1, <1>2

\* What a step other than the server's does to the records on their way.
LEMMA OnTheWay ==
    ASSUME NEW D, NEW S, Travels(D, S), Ahead(D), [Next]_vars, ~ MarkOne, ~ Decipher
    PROVE  /\ UNCHANGED unmarked /\ Single(scenario, datagram')
           /\ \A k : Has(scenario, unmarked, k) => ~ Has(scenario, datagram', k)
<1>1. CASE UNCHANGED <<datagram, unmarked>>
  BY <1>1, Zenon DEF Ahead
<1>2. CASE Filter
  <2>1. /\ UNCHANGED unmarked /\ datagram # <<>> /\ datagram' = Tail(datagram)
    BY <1>2 DEF Filter, Discard
  <2>2. Single(scenario, datagram) /\ datagram \in Seq(S)
    BY Zenon DEF Ahead, Travels
  <2>3. /\ Single(scenario, datagram')
        /\ \A k : Has(scenario, datagram', k) => Has(scenario, datagram, k)
    BY <2>1, <2>2, SingleTail
  <2> QED
    BY <2>1, <2>3, Zenon DEF Ahead
<1>3. CASE ReceiveDatagram
  <2>1. PICK i \in DOMAIN toClient : datagram' = toClient[i]
    BY <1>3, Zenon DEF ReceiveDatagram, Receive
  <2>2. UNCHANGED unmarked /\ unmarked = <<>>
    BY <1>3, Zenon DEF ReceiveDatagram, Receive, Busy, Receiving
  <2>3. datagram' \in D
    BY <2>1 DEF Travels
  <2>4. Single(scenario, datagram')
    BY <2>3 DEF Ahead
  <2>5. \A k : ~ Has(scenario, unmarked, k)
    BY <2>2 DEF Has
  <2> QED
    BY <2>2, <2>4, <2>5
<1>4. CASE \/ Collect \/ HandleHelloVerifyRequest \/ HandleServerHelloDone
           \/ HandleFinished \/ HandleChangeCipherSpec \/ HandleFatalAlert
           \/ HandleApplicationData \/ ProcessOutgoing \/ SendDatagram \/ AlertSent
           \/ Disturb \/ ServerReceive \/ ServerRetransmit \/ ServerSendData
           \/ Timeout \/ UNCHANGED vars
  <2>1. UNCHANGED <<datagram, unmarked>>
    BY <1>4, Zenon
    DEF Collect, HandleHelloVerifyRequest, HandleServerHelloDone, HandleFinished,
        TakeFlight, HandleChangeCipherSpec, HandleFatalAlert, HandleApplicationData,
        Incoming, NextMessage, ProcessOutgoing, processOutgoingMessage,
        SendDatagram, Transmit, AlertSent, Disturb, ServerReceive, ServerRetransmit,
        ServerSendData, Timeout, receiveVars, recordVars, vars
  <2> QED
    BY <1>1, <2>1
<1> QED
  BY <1>2, <1>3, <1>4, Zenon DEF Next, Internal

LEMMA OnceNext ==
    ASSUME KeysInv, SrvInv, OriginInv, TypeOK, StageInv, Premise, OnceInv, [Next]_vars
    PROVE  OnceInv'
<1>1. PICK D, S : /\ Travels(D, S) /\ FromServer(S)
                  /\ OneNumber(S) /\ Shut(S) /\ Ahead(D)
  BY DEF OnceInv
<1>2. /\ FieldShape(epochs) /\ ClientNumbers /\ ServerNumbers /\ HandlerOnce
      /\ lastProcessedSeqNum <= SentUpTo(scenario, srv.phase) /\ PipeInv
  BY DEF OnceInv, KeysInv
<1>3. scenario' = scenario /\ PhaseOn
  BY PlanKept, PhaseGoesOn
<1>4. \A f : Came(scenario, srv.phase, f) => Came(scenario, srv'.phase, f)
  BY <1>3, CameOn
<1>5. FromServer(S)'
  BY <1>1, <1>3, <1>4 DEF FromServer
<1>6. ASSUME unmarked # <<>>
      PROVE  Head(unmarked).epoch \in {0, 1} /\ Head(unmarked).sequence_number \in Int
  <2>1. Head(unmarked) \in S
    BY <1>1, <1>6 DEF Travels
  <2> QED
    BY <1>1, <2>1 DEF OneNumber
<1>7. /\ FieldShape(epochs')
      /\ \/ WindowsStay(epochs, epochs') \/ MarkOne
         \/ HandleHelloVerifyRequest /\ scenario.compat
      /\ ProcessOutgoing \/ CountersStay(epochs, epochs')
  BY <1>2, <1>6, FieldsNext
<1>8. ClientNumbers'
  BY <1>2, <1>7, ClientNumbersNext
<1>9. lastProcessedSeqNum' <= SentUpTo(scenario', srv'.phase)
  BY <1>2, ProcessedNext
<1>10. ASSUME ServerNumbers', HandlerOnce',
              NEW E, NEW T, Travels(E, T)', FromServer(T)', OneNumber(T)', Shut(T)',
              Ahead(E)'
       PROVE  OnceInv'
  BY <1>7, <1>8, <1>9, <1>10, Zenon DEF OnceInv
<1>11. ASSUME NEW records, Speaks(records),
              UNCHANGED <<recordVars, handlerVars, socketVars>>,
              NEW R, R = ToSet(records),
              NEW E, E = D \cup {records} \cup {<<r>> : r \in R}, Travels(E, S \cup R)'
       PROVE  OnceInv'
  <2>1. Spoken(records)
    BY <1>2, <1>11, AllSpoken
  <2>2. \A r \in R : r.type = "handshake" => Came(scenario, srv'.phase, r.data)
    BY <1>11, SpokenCame
  <2>3. FromServer(S \cup R)'
    BY <1>3, <1>5, <2>2 DEF FromServer
  <2>4. OneNumber(S \cup R)' /\ Shut(S \cup R)' /\ Ahead(E)'
    BY <1>1, <1>2, <1>3, <1>11, <2>1, OnceSpoken
  <2>5. HandlerOnce'
    BY <1>2, <1>3, <1>11, Zenon
    DEF HandlerOnce, recordVars, receiveVars, handlerVars
  <2>6. ServerNumbers'
    BY <2>1 DEF Spoken
  <2> QED
    BY <1>10, <1>11, <2>3, <2>4, <2>5, <2>6
<1>12. ASSUME UNCHANGED srv, Travels(D, S)'
       PROVE  OnceInv'
  <2>1. ServerNumbers' /\ OneNumber(S)'
    BY <1>1, <1>2, <1>3, <1>12 DEF ServerNumbers, OneNumber
  <2>2. CASE MarkOne
    <3>1. unmarked # <<>>
      BY <2>2 DEF MarkOne, Mark
    <3>2. \A e \in {0, 1} : epochs'[e].antiReplayWindow =
              IF e = Head(unmarked).epoch
              THEN markAsReceived(epochs[e].antiReplayWindow,
                                  Head(unmarked).sequence_number)
              ELSE epochs[e].antiReplayWindow
      BY <1>2, <1>6, <2>2, <3>1, MarkFields
    <3>3. HandlerOnce' /\ Shut(S)' /\ Ahead(D)'
      BY <1>1, <1>2, <1>3, <2>2, <3>2, OnceMarked
    <3> QED
      BY <1>5, <1>10, <1>12, <2>1, <3>3
  <2>3. CASE ~ MarkOne
    <3>1. HandlerOnce' /\ \A k \in Slots(scenario) : Taken(k)' => Taken(k)
      BY <1>2, <2>3, HandlerTakes
    <3>2. CASE HandleHelloVerifyRequest /\ scenario.compat
      <4>1. Shut(S)' /\ Ahead(D)'
        BY <1>1, <1>2, <1>3, <3>1, <3>2, OnceReset
      <4> QED
        BY <1>5, <1>10, <1>12, <2>1, <3>1, <4>1
    <3>3. CASE WindowsStay(epochs, epochs') /\ ~ Decipher
      <4>1. /\ UNCHANGED unmarked /\ Single(scenario, datagram')
            /\ \A k : Has(scenario, unmarked, k) => ~ Has(scenario, datagram', k)
        BY <1>1, <2>3, <3>3, OnTheWay
      <4>2. Shut(S)' /\ Ahead(D)'
        BY <1>1, <1>3, <3>1, <3>3, <4>1, OnceKept
      <4> QED
        BY <1>5, <1>10, <1>12, <2>1, <3>1, <4>2
    <3>4. CASE WindowsStay(epochs, epochs') /\ Filter /\ Decipher
      <4>1. UNCHANGED <<messages, incompleteMessages, completeMessages,
                        lastProcessedSeqNum>>
        BY <3>4 DEF Decipher, Filter, othersUnchanged, handlerVars
      <4>2. \A k : Taken(k)' <=> Taken(k)
        BY <1>3, <4>1, Zenon DEF Taken
      <4>3. Shut(S)' /\ Ahead(D)'
        BY <1>1, <1>2, <1>3, <3>4, <4>2, OnceDeciphered
      <4> QED
        BY <1>5, <1>10, <1>12, <2>1, <3>1, <4>3
    <3>5. Decipher => Filter
      <4>1. ASSUME Decipher, UNCHANGED datagram PROVE FALSE
        <5>1. datagram # <<>> /\ datagram' = Tail(datagram) /\ datagram \in Seq(S)
          BY <1>1, <4>1 DEF Decipher, Travels
        <5> QED
          BY <4>1, <5>1
      <4>2. ASSUME Decipher, ReceiveDatagram PROVE FALSE
        BY <4>2, Zenon DEF Decipher, ReceiveDatagram, Receive, Busy, Receiving
      <4>3. CASE \/ Collect \/ HandleHelloVerifyRequest \/ HandleServerHelloDone
                 \/ HandleFinished \/ HandleChangeCipherSpec \/ HandleFatalAlert
                 \/ HandleApplicationData \/ ProcessOutgoing \/ SendDatagram
                 \/ AlertSent \/ Disturb \/ ServerReceive \/ ServerRetransmit
                 \/ ServerSendData \/ Timeout \/ UNCHANGED vars
        <5>1. UNCHANGED datagram
          BY <4>3, Zenon
          DEF Collect, HandleHelloVerifyRequest, HandleServerHelloDone,
              HandleFinished, TakeFlight, HandleChangeCipherSpec, HandleFatalAlert,
              HandleApplicationData, Incoming, NextMessage, ProcessOutgoing,
              processOutgoingMessage, SendDatagram, Transmit, AlertSent, Disturb,
              ServerReceive, ServerRetransmit, ServerSendData, Timeout, receiveVars,
              recordVars, vars
        <5> QED
          BY <4>1, <5>1
      <4> QED
        BY <2>3, <4>2, <4>3, Zenon DEF Next, Internal
    <3> QED
      BY <1>7, <2>3, <3>2, <3>3, <3>4, <3>5
  <2> QED
    BY <2>2, <2>3
<1> QED
  <2>1. \/ UNCHANGED srv /\ Travels(D, S)'
        \/ \E records :
              /\ Speaks(records) /\ UNCHANGED <<recordVars, handlerVars, socketVars>>
              /\ \E R, E : /\ R = ToSet(records)
                           /\ E = D \cup {records} \cup {<<r>> : r \in R}
                           /\ Travels(E, S \cup R)'
    BY <1>1, ServerSpeaks
  <2> QED
    BY <1>11, <1>12, <2>1

LEMMA OnceInit == Init => OnceInv
<1> SUFFICES ASSUME Init PROVE OnceInv
  OBVIOUS
<1>1. /\ datagram = <<>> /\ unmarked = <<>> /\ messages = <<>> /\ flight = <<>>
      /\ incompleteMessages = <<>> /\ completeMessages = <<>> /\ toServer = <<>>
      /\ toClient = <<>> /\ lastProcessedSeqNum = -1 /\ writeEpochNr = 0
      /\ epochs = [e \in {0, 1} |-> createEpoch]
  BY DEF Init, RecordInit
<1>2. /\ srv.phase = "listen" /\ srv.next = 0 /\ srv.data = 0 /\ srv.retransmits = 0
  BY DEF Init
<1>3. DOMAIN <<>> = {} /\ \A T : <<>> \in Seq(T)
  OBVIOUS
<1>4. FieldShape(epochs) /\ epochs[0].writeSequenceNumber = -1
  BY <1>1, NewIsWindow DEF FieldShape, EpochFields, createEpoch
<1>5. ClientNumbers
  <2>1. PICK Q : Q = {} /\ toServer \in Seq(Q)
    BY <1>1, <1>3, Zenon
  <2>2. \A d \in Q : SentNumbered(d)
    BY <2>1, SMT
  <2>3. writeEpochNr = 0 /\ epochs[0].writeSequenceNumber = -1 /\ flight = <<>>
    BY <1>1, <1>4
  <2> QED
    BY <2>1, <2>2, <2>3, Zenon DEF ClientNumbers
<1>6. ServerNumbers
  BY <1>2 DEF ServerNumbers
<1>7. \A k : /\ ~ Has(scenario, <<>>, k) /\ ~ HasPart(scenario, <<>>, k)
             /\ ~ HasWhole(scenario, <<>>, k)
  BY <1>3, Zenon DEF Has, HasPart, HasWhole
<1>8. HandlerOnce
  <2>1. Single(scenario, <<>>) /\ PartsOnce(scenario, <<>>)
    BY <1>3, Zenon DEF Single, PartsOnce
  <2> QED
    BY <1>1, <1>3, <1>7, <2>1, Zenon DEF HandlerOnce, Once
<1>9. lastProcessedSeqNum <= SentUpTo(scenario, srv.phase)
  BY <1>1, <1>2, PlanNumbers DEF SentUpTo
<1>10. ~ Taken(Slot(scenario, 0))
  <2>1. Slot(scenario, 0) \in Nat
    BY SlotNumbers
  <2>2. ~ (Slot(scenario, 0) <= -1)
    BY <2>1
  <2> QED
    BY <1>1, <1>7, <2>2, Zenon DEF Taken, TakenBy
<1>11. Travels({}, {}) /\ FromServer({}) /\ OneNumber({})
  BY <1>1, <1>3 DEF Travels, FromServer, OneNumber
<1>12. Shut({})
  BY <1>10 DEF Shut
<1>13. Ahead({})
  BY <1>1, <1>3, <1>7 DEF Ahead, Single
<1> QED
  BY <1>4, <1>5, <1>6, <1>8, <1>9, <1>11, <1>12, <1>13, Zenon DEF OnceInv

\* A message that ends a flight the handler expects is the last one there is.
LEMMA EndsAll ==
    ASSUME SwitchInv, SendInv, StageInv, expectedResponses # Undefined,
           NEW complete, \A m \in DOMAIN complete : /\ Came(scenario, srv.phase, complete[m])
                                                   /\ complete[m].message_seq = m,
           NEW n \in DOMAIN complete, complete[n].msg_type \in expectedResponses,
           NEW m \in DOMAIN complete
    PROVE  m <= n
<1>1. /\ m \in 0 .. LastOf(scenario) + 1 /\ n \in 0 .. LastOf(scenario) + 1
      /\ m >= FirstOf(scenario) => srv.phase # "listen"
      /\ m > LastOf(scenario) => srv.phase = "done"
      /\ complete[n].msg_type = TypeAt(scenario, n)
  BY DEF Came, OfServer
<1>2. /\ FirstOf(scenario) \in {0, 1} /\ LastOf(scenario) \in Nat
      /\ FirstOf(scenario) = 1 <=> scenario.cookie
  BY PlanNumbers
<1>3. /\ TypeAt(scenario, n) = "hello_verify_request" => n < FirstOf(scenario)
      /\ TypeAt(scenario, n) = "server_hello_done" => n = LastOf(scenario)
      /\ TypeAt(scenario, n) = "finished" => n = LastOf(scenario) + 1
  BY <1>1, TypeNumbers
<1>4. Early => srv.phase # "done"
  BY DEF SwitchInv, SendInv
<1>5. CASE AwaitsAnswer
  <2>1. srv.phase # "done"
    <3>1. "server_hello_done" \in expectedResponses
      BY <1>5 DEF AwaitsAnswer
    <3> QED
      BY <1>4, <3>1, Zenon DEF Early
  <2>2. CASE TypeAt(scenario, n) = "hello_verify_request"
    <3>1. n = 0 /\ scenario.cookie /\ FirstOf(scenario) = 1
      BY <1>1, <1>2, <1>3, <2>2
    <3>2. srv.phase = "listen"
      BY <1>5, <3>1 DEF AwaitsAnswer
    <3> QED
      BY <1>1, <3>1, <3>2
  <2>3. CASE TypeAt(scenario, n) = "server_hello_done"
    BY <1>1, <1>2, <1>3, <2>1, <2>3
  <2> QED
    BY <1>1, <1>5, <2>2, <2>3 DEF AwaitsAnswer
<1>6. CASE AwaitsFlight4
  <2>1. srv.phase # "done"
    <3>1. "server_hello_done" \in expectedResponses
      BY <1>6 DEF AwaitsFlight4
    <3> QED
      BY <1>4, <3>1, Zenon DEF Early
  <2> QED
    BY <1>1, <1>2, <1>3, <1>6, <2>1 DEF AwaitsFlight4
<1>7. CASE expectedResponses = {"finished"}
  BY <1>1, <1>2, <1>3, <1>7
<1> QED
  BY <1>5, <1>6, <1>7 DEF StageInv

\* A flight that is complete with the next message is taken.
LEMMA FlightIsTaken ==
    ASSUME KeysInv, OriginInv, TypeOK, StageInv, HandlerOnce, NoCompleteFlightWaits,
           messages # <<>>, Head(messages).type = "handshake",
           expectedResponses # Undefined, NEW n \in DOMAIN NextStored.complete,
           (lastProcessedSeqNum + 1) .. n \subseteq DOMAIN NextStored.complete,
           n > lastProcessedSeqNum,
           NextStored.complete[n].msg_type \in expectedResponses
    PROVE  FlightReady(NextStored)
<1>1. PICK whole, lp : whole = NextStored.complete /\ lp = lastProcessedSeqNum
  OBVIOUS
<1>2. NextStored.checked
  <2>1. NextStored.checked \/ NextStored.complete = completeMessages
    BY DEF NextStored, Stored
  <2> QED
    BY <2>1 DEF NoCompleteFlightWaits
<1>3. \A m \in DOMAIN whole : /\ m \in Nat /\ whole[m].message_seq = m
                              /\ Came(scenario, srv.phase, whole[m])
  <2>1. \A m \in DOMAIN completeMessages : KeptMessage(completeMessages, m)
    BY DEF TypeOK, KeptMessage
  <2>2. \A m \in DOMAIN NextStored.complete : KeptMessage(NextStored.complete, m)
    BY <2>1, StoredWhole DEF KeysInv
  <2> QED
    BY <1>1, <2>2, StoredCame DEF KeptMessage
<1>4. \A m \in DOMAIN whole : m <= n
  BY <1>1, <1>3, EndsAll DEF KeysInv
<1>5. /\ \A m \in DOMAIN whole : Slot(scenario, m) > lp
      /\ \A k, m \in DOMAIN whole : Slot(scenario, k) = Slot(scenario, m) => k = m
  <2>1. Once(scenario, Tail(messages), NextStored.incomplete, whole, lp)
    BY <1>1, StoredOnce
  <2> QED
    BY <2>1, Zenon DEF Once
<1>6. lp \in Int /\ lp >= -1 /\ n \in Nat /\ lp + 1 \in DOMAIN whole
  BY <1>1, <1>3 DEF TypeOK
\* Message 0 counts as 1 under the compat option, and is taken before that.
<1>7. ASSUME NEW m \in DOMAIN whole
      PROVE  m > lp
  <2>1. CASE Slot(scenario, m) = m
    BY <1>5, <2>1
  <2>2. CASE m = 0 /\ Slot(scenario, 0) = 1 /\ Slot(scenario, 1) = 1
    <3>1. lp \in {-1, 0}
      BY <1>5, <1>6, <2>2
    <3>2. ASSUME lp = 0 PROVE FALSE
      BY <1>5, <1>6, <2>2, <3>2
    <3> QED
      BY <2>2, <3>1, <3>2
  <2> QED
    BY <2>1, <2>2 DEF Slot
<1>8. DOMAIN whole = lp + 1 .. n
  <2>1. \A m \in DOMAIN whole : m \in lp + 1 .. n
    BY <1>3, <1>4, <1>6, <1>7
  <2>2. lp + 1 .. n \subseteq DOMAIN whole
    BY <1>1
  <2> QED
    BY <2>1, <2>2
<1> QED
  BY <1>1, <1>2, <1>8 DEF FlightReady, FlightEndsAt

LEMMA WaitNext ==
    ASSUME KeysInv, OriginInv, TypeOK, StageInv, HandlerOnce, NoCompleteFlightWaits,
           [Next]_vars
    PROVE  NoCompleteFlightWaits'
<1>1. CASE UNCHANGED <<expectedResponses, completeMessages, lastProcessedSeqNum>>
  BY <1>1, Zenon DEF NoCompleteFlightWaits
<1>2. CASE HandleHelloVerifyRequest \/ HandleServerHelloDone \/ HandleFinished
  <2>1. completeMessages' = <<>>
    BY <1>2, Zenon
    DEF HandleHelloVerifyRequest, HandleServerHelloDone, HandleFinished, TakeFlight
  <2>2. DOMAIN <<>> = {}
    OBVIOUS
  <2> QED
    BY <2>1, <2>2 DEF NoCompleteFlightWaits
<1>3. CASE Collect
  <2>1. /\ messages # <<>> /\ Head(messages).type = "handshake"
        /\ ~ FlightReady(NextStored) /\ completeMessages' = NextStored.complete
        /\ UNCHANGED <<expectedResponses, lastProcessedSeqNum>>
    BY <1>3, Zenon DEF Collect, Incoming
  <2>2. ASSUME expectedResponses # Undefined, NEW n \in DOMAIN NextStored.complete,
               (lastProcessedSeqNum + 1) .. n \subseteq DOMAIN NextStored.complete,
               n > lastProcessedSeqNum,
               NextStored.complete[n].msg_type \in expectedResponses
        PROVE  FALSE
    BY <2>1, <2>2, FlightIsTaken
  <2> QED
    BY <2>1, <2>2 DEF NoCompleteFlightWaits
<1>4. CASE \/ HandleChangeCipherSpec \/ HandleFatalAlert \/ HandleApplicationData
           \/ Filter \/ MarkOne \/ ProcessOutgoing \/ SendDatagram \/ ReceiveDatagram
           \/ AlertSent \/ Disturb \/ ServerReceive \/ ServerRetransmit
           \/ ServerSendData \/ Timeout \/ UNCHANGED vars
  <2>1. UNCHANGED <<expectedResponses, completeMessages, lastProcessedSeqNum>>
    BY <1>4, Zenon
    DEF HandleChangeCipherSpec, HandleFatalAlert, HandleApplicationData, Filter,
        MarkOne, ProcessOutgoing, SendDatagram, ReceiveDatagram, AlertSent, Disturb,
        ServerReceive, ServerRetransmit, ServerSendData, Timeout, othersUnchanged,
        handlerVars, vars
  <2> QED
    BY <1>1, <2>1
<1> QED
  BY <1>2, <1>3, <1>4, Zenon DEF Next, Internal

\* A flight that has arrived is taken, whatever the network loses, repeats or
\* swaps and however its messages are fragmented, as long as the server does not
\* send it again and the compat option is set for a server that needs it only.
THEOREM FlightsTaken == Spec => []FlightsAreTaken
<1> DEFINE Whence == OriginInv /\ StageInv /\ SentInv /\ ServedInv
           OnceEach == Premise => OnceInv /\ NoCompleteFlightWaits
<1>1. (KeysInv /\ SrvInv) /\ [Next]_vars => (KeysInv /\ SrvInv)'
  BY KeysKeep
<1>2. KeysInv /\ SrvInv /\ TypeOK /\ Whence /\ [Next]_vars => Whence'
  <2>1. KeysInv => PipeInv
    BY DEF KeysInv
  <2> QED
    BY <2>1, OriginNext, StageNext, SaidNext, ServedNext
<1>3. ASSUME KeysInv, SrvInv, TypeOK, Whence, OnceEach, [Next]_vars
      PROVE  OnceEach'
  <2>1. ASSUME Premise' PROVE (OnceInv /\ NoCompleteFlightWaits)'
    <3>1. Premise
      BY <1>3, <2>1, PlanKept DEF Premise
    <3>2. OnceInv'
      BY <1>3, <3>1, OnceNext
    <3>3. HandlerOnce
      BY <1>3, <3>1 DEF OnceInv
    <3>4. NoCompleteFlightWaits'
      BY <1>3, <3>1, <3>3, WaitNext
    <3> QED
      BY <3>2, <3>4
  <2> QED
    BY <2>1
<1>4. OnceEach => FlightsAreTaken
  BY DEF FlightsAreTaken, Premise
<1>5. Spec => []TypeOK
  BY HandshakeTypes
<1>6. Init => Whence
  BY ServedInit
<1>7. ASSUME Init PROVE OnceEach
  <2>1. DOMAIN completeMessages = {}
    BY <1>7 DEF Init
  <2> QED
    BY <1>7, <2>1, OnceInit DEF NoCompleteFlightWaits
<1> HIDE DEF Whence, OnceEach
<1> QED
  BY <1>1, <1>2, <1>3, <1>4, <1>5, <1>6, <1>7, KeysInit, PTL DEF Spec
=============================================================================
