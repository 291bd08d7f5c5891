-------------------------- MODULE DtlsSocketProofs --------------------------
(***************************************************************************)
(* The safety of a Socket's life, for any number of datagrams, closes and   *)
(* errors.                                                                  *)
(***************************************************************************)
EXTENDS DtlsSocket, TLAPS

Events == {"connected", "message", "error", "close"}

\* The loop works on what is left of a datagram.
LoopInv == loop \in Seq(MessageKinds)

\* Who has closed the UDP socket: killConnection, or a close() that is no
\* longer pending.  Only two of them crash the process.
CloseInv ==
    /\ closes \in Nat /\ pendingCloses <= closes
    /\ udp = "closed" => killed \/ pendingCloses < closes
    /\ killed => isClosed
    /\ SingleEndIsSafe

\* No end is told before the Socket is closed.
EndInv ==
    /\ ~ isClosed => \A i \in DOMAIN events : ~ Ends(i)
    /\ OneEnd

IInv == TypeOK /\ HandleReleased /\ NeverUnwatched /\ LoopInv /\ CloseInv /\ EndInv

-----------------------------------------------------------------------------
\* The invariant holds in a Socket just constructed.
LEMMA InitIInv == Init => IInv
<1> SUFFICES ASSUME Init PROVE IInv
  OBVIOUS
<1>1. FlagsOK /\ ~ udpConnected /\ ~ closeEvent /\ ~ isClosed
  BY Zenon DEF Init, FlagsOK
<1>a. TypeOK /\ HandleReleased /\ NeverUnwatched
  BY <1>1 DEF Init, TypeOK, HandleReleased, NeverUnwatched
<1>2. LoopInv /\ CloseInv
  BY DEF Init, LoopInv, CloseInv, SingleEndIsSafe
<1>3. EndInv
  BY DEF Init, EndInv, OneEnd, Ends
<1> QED
  BY <1>a, <1>2, <1>3 DEF IInv

\* Taking a message leaves the rest of a datagram.
LEMMA TakeLoop ==
    ASSUME LoopInv, NEW type, Take(type)
    PROVE  LoopInv' /\ type \in MessageKinds
<1>1. loop \in Seq(MessageKinds) /\ loop # <<>> /\ loop' = Tail(loop)
  BY DEF LoopInv, Take
<1>2. Tail(loop) \in Seq(MessageKinds) /\ Head(loop) \in MessageKinds
  BY <1>1
<1> QED
  BY <1>1, <1>2 DEF LoopInv, Take

\* Events that are no end leave EndInv as it is.
LEMMA TellNoEnd ==
    ASSUME EndInv, events \in Seq(Events), NEW told \in Seq({"connected", "message"}),
           events' = events \o told, isClosed' = isClosed
    PROVE  EndInv' /\ events' \in Seq(Events)
<1>1. /\ events' \in Seq(Events)
      /\ DOMAIN events' = 1 .. Len(events) + Len(told)
      /\ Len(events) \in Nat /\ Len(told) \in Nat
      /\ \A i \in 1 .. Len(events) : events'[i] = events[i]
      /\ \A i \in Len(events) + 1 .. Len(events) + Len(told) :
            events'[i] \in {"connected", "message"}
  BY DEF Events
<1>2. \A i \in DOMAIN events' : Ends(i)' => i \in DOMAIN events /\ Ends(i)
  BY <1>1 DEF Ends
<1> QED
  BY <1>1, <1>2 DEF EndInv, OneEnd

\* The end itself, told by a Socket that was not closed.
LEMMA TellEnd ==
    ASSUME EndInv, events \in Seq(Events), NEW e \in {"error", "close"},
           events' = Append(events, e), ~ isClosed, isClosed'
    PROVE  EndInv' /\ events' \in Seq(Events)
<1>1. /\ events' \in Seq(Events)
      /\ DOMAIN events' = 1 .. Len(events) + 1
      /\ Len(events) \in Nat
      /\ \A i \in 1 .. Len(events) : events'[i] = events[i]
  BY DEF Events
<1>2. \A i \in DOMAIN events' : Ends(i)' => i = Len(events) + 1
  BY <1>1 DEF EndInv, Ends
<1> QED
  BY <1>1, <1>2 DEF EndInv, OneEnd

-----------------------------------------------------------------------------
\* A listener's close() moves both counters alike.
LEMMA MayCloseCounts ==
    ASSUME IInv, MayClose
    PROVE  /\ closes \in Nat /\ pendingCloses \in Nat
           /\ closes' \in Nat /\ pendingCloses' \in Nat
           /\ closes <= closes' /\ pendingCloses' <= closes'
           /\ pendingCloses < closes => pendingCloses' < closes'
BY DEF IInv, TypeOK, CloseInv, MayClose, close

\* Without a step of killConnection the account of the ends stays right.
LEMMA MayCloseCloseInv ==
    ASSUME IInv, MayClose, UNCHANGED <<udp, killed, crashed, isClosed>>
    PROVE  CloseInv' /\ pendingCloses' \in Nat
<1>1. closes \in Nat /\ pendingCloses \in Nat
  BY DEF IInv, TypeOK, CloseInv
<1> QED
  BY <1>1, MayCloseCounts DEF IInv, CloseInv, SingleEndIsSafe

\* killConnection, from wherever it is called: the Socket is closed, and told
\* of it unless it was closed before or the UDP socket throws.
LEMMA KillIInv ==
    ASSUME IInv, NEW told \in Seq({"connected", "message"}), KillAfter(told),
           MayClose, UNCHANGED <<closeEvent, udpConnected>>,
           handshakeFinished' \in BOOLEAN, isHandshaking' \in BOOLEAN,
           alertPending' \in BOOLEAN, listenerThrew' \in BOOLEAN,
           bufferedMessages' \in Nat, LoopInv'
    PROVE  IInv'
<1>1. /\ TypeOK /\ FlagsOK /\ EndInv /\ CloseInv /\ HandleReleased
      /\ events \in Seq(Events)
  BY DEF IInv, TypeOK, Events
<1>2. FlagsOK'
  BY <1>1, Zenon DEF FlagsOK, KillAfter, KillWith
<1>0. /\ closes \in Nat /\ pendingCloses \in Nat
      /\ closes' \in Nat /\ pendingCloses' \in Nat
      /\ closes <= closes' /\ pendingCloses' <= closes'
      /\ pendingCloses < closes => pendingCloses' < closes'
  BY MayCloseCounts
<1>3. CASE isClosed
  <2>1. /\ events' = events \o told
        /\ UNCHANGED <<udp, connectionTimeout, isClosed, killed, crashed>>
    BY <1>3 DEF KillAfter, KillWith
  <2>2. EndInv' /\ events' \in Seq(Events)
    BY <1>1, <2>1, TellNoEnd
  <2>3. TypeOK' /\ HandleReleased' /\ NeverUnwatched'
    BY <1>0, <1>1, <1>2, <1>3, <2>1, <2>2
       DEF TypeOK, HandleReleased, NeverUnwatched, Events
  <2>4. CloseInv'
    <3>1. SingleEndIsSafe'
      BY <1>0, <1>1, <2>1 DEF CloseInv, SingleEndIsSafe
    <3>2. udp' = "closed" => killed' \/ pendingCloses' < closes'
      BY <1>0, <1>1, <2>1 DEF CloseInv
    <3> QED
      BY <1>0, <1>1, <2>1, <3>1, <3>2 DEF CloseInv
  <2> QED
    BY <2>2, <2>3, <2>4 DEF IInv
<1>4. CASE ~ isClosed
  <2>1. /\ isClosed' /\ killed' /\ udp' = "closed"
        /\ connectionTimeout' = "none"
        /\ crashed' <=> udp = "closed"
        /\ events' = events \o told \o
                        (IF udp = "closed" THEN <<>> ELSE <<"error">>)
    BY <1>4, Zenon DEF KillAfter, KillWith
  <2>2. EndInv' /\ events' \in Seq(Events)
    <3> DEFINE s == events \o told
    <3>1. /\ s \in Seq(Events)
          /\ DOMAIN s = 1 .. Len(events) + Len(told)
          /\ Len(s) = Len(events) + Len(told)
          /\ Len(events) \in Nat /\ Len(told) \in Nat
          /\ \A i \in 1 .. Len(events) : s[i] = events[i]
          /\ \A i \in Len(events) + 1 .. Len(events) + Len(told) :
                s[i] \in {"connected", "message"}
      BY <1>1 DEF Events
    <3>2. \A i \in DOMAIN s : s[i] \notin {"error", "close"}
      BY <1>1, <1>4, <3>1 DEF EndInv, Ends
    <3>3. CASE udp = "closed"
      <4>1. events' = s
        BY <2>1, <3>1, <3>3
      <4> QED
        BY <2>1, <3>1, <3>2, <4>1 DEF EndInv, OneEnd, Ends
    <3>4. CASE udp # "closed"
      <4>1. events' = s \o <<"error">>
        BY <2>1, <3>4
      <4> HIDE DEF s
      <4>2. /\ events' \in Seq(Events)
            /\ DOMAIN events' = 1 .. Len(s) + 1
            /\ \A i \in DOMAIN s : events'[i] = s[i]
        <5>1. s \in Seq(Events) /\ <<"error">> \in Seq(Events)
          BY <3>1 DEF Events
        <5> QED
          BY <4>1, <5>1
      <4>3. \A i \in DOMAIN events' : Ends(i)' => i = Len(s) + 1
        BY <3>1, <3>2, <4>2 DEF Ends
      <4> QED
        BY <2>1, <3>1, <4>2, <4>3 DEF EndInv, OneEnd
    <3> QED
      BY <3>3, <3>4
  <2>3. TypeOK' /\ HandleReleased' /\ NeverUnwatched'
    BY <1>0, <1>1, <1>2, <2>1, <2>2
       DEF TypeOK, HandleReleased, NeverUnwatched, Events
  <2>4. CloseInv'
    <3>1. ~ killed
      BY <1>1, <1>4 DEF CloseInv
    <3>2. udp = "closed" => closes >= 1
      BY <1>0, <1>1, <3>1 DEF CloseInv
    <3> QED
      BY <1>0, <1>1, <2>1, <3>1, <3>2 DEF CloseInv, SingleEndIsSafe
  <2> QED
    BY <2>2, <2>3, <2>4 DEF IInv
<1> QED
  BY <1>1, <1>3, <1>4
\* A kill that follows nothing else, while the loop rests or has just moved on.
LEMMA KillPlain ==
    ASSUME IInv, Kill, LoopInv',
           UNCHANGED <<closeEvent, udpConnected, pendingCloses, closes,
                       handshakeFinished, listenerThrew, bufferedMessages>>,
           isHandshaking' \in BOOLEAN, alertPending' \in BOOLEAN
    PROVE  IInv'
<1>1. <<>> \in Seq({"connected", "message"}) /\ KillAfter(<<>>) /\ MayClose
  BY DEF Kill, MayClose
<1>2. /\ handshakeFinished' \in BOOLEAN /\ listenerThrew' \in BOOLEAN
      /\ bufferedMessages' \in Nat
  BY DEF IInv, TypeOK, FlagsOK
<1> QED
  BY <1>1, <1>2, KillIInv

-----------------------------------------------------------------------------
(* The steps that do not kill.                                              *)

\* udp_onListening replaces the timer and closes nothing.
LEMMA ListeningIInv == ASSUME IInv, Listening PROVE IInv'
<1> USE DEF Listening, ListeningWith
<1>0. UNCHANGED <<closeEvent, attached, handshakeFinished, isClosed,
                  alertPending, listenerThrew, killed, crashed>>
  BY DEF queueVars, countVars
<1>1. FlagsOK' /\ ~ closeEvent
  BY <1>0, Zenon DEF IInv, TypeOK, FlagsOK, Idle
<1>2. /\ udp = "binding" /\ udp' = "open" /\ connectionTimeout' = "handshake"
      /\ UNCHANGED <<isClosed, killed, crashed, events, loop, bufferedMessages,
                     pendingCloses, closes>>
  BY DEF queueVars, countVars
<1>3. TypeOK' /\ HandleReleased' /\ NeverUnwatched'
  BY <1>0, <1>1, <1>2 DEF IInv, TypeOK, HandleReleased, NeverUnwatched
<1>4. LoopInv' /\ CloseInv' /\ EndInv'
  BY <1>2 DEF IInv, LoopInv, CloseInv, SingleEndIsSafe, EndInv, OneEnd, Ends
<1> QED
  BY <1>3, <1>4 DEF IInv

\* A timer kills the connection it watches, or has nothing left to watch.
LEMMA TimeoutIInv ==
    ASSUME IInv, ConnectionTimeout \/ HandshakeTimeout
    PROVE  IInv'
<1>1. UNCHANGED <<closeEvent, ownVars, queueVars, countVars>>
  BY DEF ConnectionTimeout, HandshakeTimeout
<1>2. UNCHANGED <<closeEvent, udpConnected, pendingCloses, closes,
                  handshakeFinished, listenerThrew, bufferedMessages,
                  isHandshaking, alertPending, loop>>
  BY <1>1 DEF ownVars, queueVars, countVars
<1>3. LoopInv' /\ isHandshaking' \in BOOLEAN /\ alertPending' \in BOOLEAN
  BY <1>2 DEF IInv, LoopInv, TypeOK, FlagsOK
<1>4. CASE Kill
  BY <1>2, <1>3, <1>4, KillPlain
<1>5. CASE ~ Kill
  <2>1. /\ UNCHANGED <<udp, attached, isClosed, killed, events, crashed>>
        /\ connectionTimeout' = "none"
        /\ isClosed \/ handshakeFinished
    BY <1>5 DEF ConnectionTimeout, HandshakeTimeout, IInv, TypeOK
  <2>2. FlagsOK'
    BY <1>2, <2>1 DEF IInv, TypeOK, FlagsOK
  <2>3. TypeOK' /\ HandleReleased' /\ NeverUnwatched'
    BY <1>2, <2>1, <2>2 DEF IInv, TypeOK, HandleReleased, NeverUnwatched
  <2>4. CloseInv' /\ EndInv'
    BY <1>2, <2>1 DEF IInv, CloseInv, SingleEndIsSafe, EndInv, OneEnd, Ends
  <2> QED
    BY <1>3, <2>3, <2>4 DEF IInv
<1> QED
  BY <1>4, <1>5

\* close() by the user only adds a pending callback.
LEMMA UserCloseIInv == ASSUME IInv, UserClose PROVE IInv'
<1>1. /\ UNCHANGED <<udp, closeEvent, ownVars, connectionTimeout, isClosed,
                     killed, events, crashed, loop, alertPending, listenerThrew>>
      /\ closes' = closes + 1 /\ pendingCloses' = pendingCloses + 1
      /\ udp = "open" /\ attached' = attached
  BY DEF UserClose, close, udpVars, killVars
<1>2. FlagsOK'
  BY <1>1 DEF IInv, TypeOK, FlagsOK, ownVars
<1>3. TypeOK' /\ HandleReleased' /\ NeverUnwatched' /\ LoopInv' /\ EndInv'
  BY <1>1, <1>2 DEF IInv, TypeOK, HandleReleased, NeverUnwatched, LoopInv,
                    EndInv, OneEnd, Ends, ownVars
<1>4. CloseInv'
  BY <1>1 DEF IInv, TypeOK, CloseInv, SingleEndIsSafe
<1> QED
  BY <1>3, <1>4 DEF IInv

\* The callback of close() throws only when another end came first.
LEMMA CloseSentIInv == ASSUME IInv, CloseSent PROVE IInv'
<1>1. /\ UNCHANGED <<attached, connectionTimeout, isClosed, killed, events,
                     ownVars, loop, alertPending, closes, listenerThrew>>
      /\ pendingCloses > 0 /\ pendingCloses' = pendingCloses - 1
      /\ crashed' = (udp = "closed") /\ udp' = "closed" /\ Ready
      /\ closeEvent' = (closeEvent \/ udp # "closed")
  BY DEF CloseSent, countVars
<1>2. FlagsOK'
  BY <1>1, Zenon DEF IInv, TypeOK, FlagsOK, ownVars
<1>3. TypeOK' /\ HandleReleased'
  BY <1>1, <1>2 DEF IInv, TypeOK, HandleReleased, ownVars
<1>4. NeverUnwatched'
  BY <1>1, Zenon DEF IInv, NeverUnwatched, Ready, ownVars
<1>5. LoopInv' /\ EndInv'
  BY <1>1 DEF IInv, LoopInv, EndInv, OneEnd, Ends
<1>6. CloseInv'
  <2>1. /\ closes \in Nat /\ pendingCloses \in Nat
        /\ pendingCloses <= closes
        /\ udp = "closed" => killed \/ pendingCloses < closes
    BY DEF IInv, TypeOK, CloseInv
  <2>2. pendingCloses' < closes' /\ (killed' => isClosed')
    BY <1>1, <2>1 DEF IInv, CloseInv
  <2>3. CASE udp # "closed"
    <3>1. ~ crashed'
      BY <1>1, <2>3, Zenon
    <3> QED
      BY <1>1, <2>1, <2>2, <3>1 DEF CloseInv, SingleEndIsSafe
  <2>4. CASE udp = "closed"
    <3>1. closes > 1 \/ (closes > 0 /\ killed)
      BY <1>1, <2>1, <2>4
    <3> QED
      BY <1>1, <2>1, <2>2, <3>1 DEF CloseInv, SingleEndIsSafe
  <2> QED
    BY <2>3, <2>4
<1> QED
  BY <1>3, <1>4, <1>5, <1>6 DEF IInv

\* A callback that is dropped is no longer pending, and its socket is closed.
LEMMA ForgetIInv == ASSUME IInv, Forget PROVE IInv'
<1>1. /\ UNCHANGED <<udpVars, ownVars, killVars, loop, countVars>>
      /\ \/ pendingCloses > 0 /\ pendingCloses' = pendingCloses - 1
            /\ alertPending' = alertPending
         \/ alertPending' = FALSE /\ pendingCloses' = pendingCloses
  BY DEF Forget
<1>2. FlagsOK'
  BY <1>1, Zenon DEF IInv, TypeOK, FlagsOK, udpVars, ownVars, killVars, countVars
<1>3. TypeOK' /\ HandleReleased' /\ NeverUnwatched'
  BY <1>1, <1>2 DEF IInv, TypeOK, HandleReleased, NeverUnwatched,
                    udpVars, ownVars, killVars, countVars
<1>4. LoopInv' /\ EndInv'
  BY <1>1 DEF IInv, LoopInv, EndInv, OneEnd, Ends, killVars
<1>5. CloseInv'
  BY <1>1 DEF IInv, TypeOK, CloseInv, SingleEndIsSafe, killVars, countVars
<1> QED
  BY <1>3, <1>4, <1>5 DEF IInv

\* udp_onClose tells the end, unless it was told.
LEMMA UdpClosedIInv == ASSUME IInv, UdpClosed PROVE IInv'
<1> USE DEF UdpClosed, UdpClosedMarking
<1>1. /\ UNCHANGED <<udp, connectionTimeout, killed, crashed, ownVars, queueVars,
                     countVars>>
      /\ closeEvent /\ closeEvent' = FALSE /\ attached' = FALSE
      /\ udp = "closed" /\ events \in Seq(Events)
  BY DEF IInv, TypeOK, Events
<1>2. \/ isClosed' = TRUE /\ events' = Append(events, "close") /\ ~ isClosed
      \/ UNCHANGED <<isClosed, events>>
  BY Zenon
<1>3. FlagsOK'
  BY <1>1, <1>2, Zenon DEF IInv, TypeOK, FlagsOK, ownVars, queueVars, countVars
<1>4. EndInv' /\ events' \in Seq(Events)
  <2>1. CASE UNCHANGED <<isClosed, events>>
    BY <1>1, <2>1 DEF IInv, EndInv, OneEnd, Ends
  <2>2. CASE isClosed' = TRUE /\ events' = Append(events, "close") /\ ~ isClosed
    BY <1>1, <2>2, TellEnd DEF IInv
  <2> QED
    BY <1>2, <2>1, <2>2
<1>5. isClosed => isClosed'
  BY <1>2, Zenon
<1>6. ~ closeEvent'
  BY <1>1, Zenon
<1>7. TypeOK' /\ HandleReleased' /\ NeverUnwatched'
  BY <1>1, <1>3, <1>4, <1>5, <1>6
     DEF IInv, TypeOK, HandleReleased, NeverUnwatched, Events, ownVars,
         queueVars, countVars
<1>8. LoopInv' /\ CloseInv'
  BY <1>1, <1>5 DEF IInv, LoopInv, CloseInv, SingleEndIsSafe, queueVars, countVars
<1> QED
  BY <1>4, <1>7, <1>8 DEF IInv

\* A datagram starts the loop and changes nothing else.
LEMMA ReceiveDatagramIInv == ASSUME IInv, ReceiveDatagram PROVE IInv'
<1>1. /\ UNCHANGED <<udpVars, ownVars, killVars, pendingCloses, alertPending,
                     closes, listenerThrew>>
      /\ loop' \in Datagrams
  BY DEF ReceiveDatagram
<1>2. LoopInv'
  BY <1>1, DatagramsAssumption DEF LoopInv
<1>3. FlagsOK'
  BY <1>1 DEF IInv, TypeOK, FlagsOK, udpVars, ownVars, killVars
<1>4. TypeOK' /\ HandleReleased' /\ NeverUnwatched'
  BY <1>1, <1>3 DEF IInv, TypeOK, HandleReleased, NeverUnwatched,
                    udpVars, ownVars, killVars
<1>5. CloseInv' /\ EndInv'
  BY <1>1 DEF IInv, CloseInv, SingleEndIsSafe, EndInv, OneEnd, Ends,
              udpVars, killVars
<1> QED
  BY <1>2, <1>4, <1>5 DEF IInv

\* The user's events of Connected: connected, and what was buffered.
LEMMA ConnectedIInv == ASSUME IInv, Connected PROVE IInv'
<1> DEFINE buffered == [i \in 1 .. bufferedMessages |-> "message"]
           told     == <<"connected">> \o buffered
<1>1. /\ UNCHANGED <<udpVars, udpConnected, isClosed, killed, crashed,
                     alertPending, listenerThrew>>
      /\ handshakeFinished' = TRUE /\ isHandshaking' = FALSE
      /\ connectionTimeout' = "none" /\ bufferedMessages' = 0
      /\ events' = Append(events, "connected") \o buffered
      /\ MayClose /\ Take("finished")
  BY DEF Connected, Finish
<1>2. events \in Seq(Events) /\ bufferedMessages \in Nat
  BY DEF IInv, TypeOK, Events
<1>3. buffered \in Seq({"connected", "message"})
  BY <1>2
<1>4. told \in Seq({"connected", "message"}) /\ events' = events \o told
  BY <1>1, <1>2, <1>3 DEF Events
<1>5. EndInv' /\ events' \in Seq(Events)
  BY <1>1, <1>2, <1>4, TellNoEnd DEF IInv
<1>6. LoopInv'
  BY <1>1, TakeLoop DEF IInv
<1>7. FlagsOK' /\ handshakeFinished'
  BY <1>1, Zenon DEF IInv, TypeOK, FlagsOK, udpVars
<1>9. CloseInv' /\ pendingCloses' \in Nat
  BY <1>1, MayCloseCloseInv DEF udpVars
<1>8. TypeOK' /\ HandleReleased' /\ NeverUnwatched'
  BY <1>1, <1>5, <1>7, <1>9 DEF IInv, TypeOK, HandleReleased, NeverUnwatched,
                                Events, udpVars
<1> QED
  BY <1>5, <1>6, <1>8, <1>9 DEF IInv

\* A rejected Finished sends its alert, or kills what is closed already.
LEMMA RejectedIInv == ASSUME IInv, Rejected PROVE IInv'
<1>1. /\ UNCHANGED <<closeEvent, udpConnected, handshakeFinished,
                     bufferedMessages, pendingCloses, countVars>>
      /\ isHandshaking' = FALSE /\ Take("rejected")
      /\ \/ Kill /\ alertPending' = alertPending
         \/ alertPending' = TRUE /\ UNCHANGED killVars
  BY DEF Rejected, Finish
<1>2. LoopInv'
  BY <1>1, TakeLoop DEF IInv
<1>3. isHandshaking' \in BOOLEAN /\ alertPending' \in BOOLEAN
  BY <1>1 DEF IInv, TypeOK, FlagsOK
<1>4. CASE Kill
  BY <1>1, <1>2, <1>3, <1>4, KillPlain DEF countVars
<1>5. CASE UNCHANGED killVars
  <2>1. FlagsOK'
    BY <1>1, <1>3, <1>5, Zenon DEF IInv, TypeOK, FlagsOK, killVars, countVars
  <2>2. TypeOK' /\ HandleReleased' /\ NeverUnwatched'
    BY <1>1, <1>5, <2>1 DEF IInv, TypeOK, HandleReleased, NeverUnwatched,
                            killVars
  <2>3. CloseInv' /\ EndInv'
    BY <1>1, <1>5 DEF IInv, CloseInv, SingleEndIsSafe, EndInv, OneEnd, Ends,
                      killVars, countVars
  <2> QED
    BY <1>2, <2>2, <2>3 DEF IInv
<1> QED
  BY <1>1, <1>4, <1>5

\* A handshake message nobody expects changes nothing.
LEMMA UnexpectedIInv == ASSUME IInv, Unexpected PROVE IInv'
<1>1. PICK type : Take(type)
  BY DEF Unexpected
<1>2. UNCHANGED <<udpVars, ownVars, killVars, pendingCloses, alertPending,
                  countVars>>
  BY DEF Unexpected
<1>3. LoopInv'
  BY <1>1, TakeLoop DEF IInv
<1>4. FlagsOK'
  BY <1>2 DEF IInv, TypeOK, FlagsOK, udpVars, ownVars, killVars, countVars
<1>5. TypeOK' /\ HandleReleased' /\ NeverUnwatched'
  BY <1>2, <1>4 DEF IInv, TypeOK, HandleReleased, NeverUnwatched,
                    udpVars, ownVars, killVars
<1>6. CloseInv' /\ EndInv'
  BY <1>2 DEF IInv, CloseInv, SingleEndIsSafe, EndInv, OneEnd, Ends, killVars,
              countVars
<1> QED
  BY <1>3, <1>5, <1>6 DEF IInv

\* Application data tells no end.
LEMMA DataIInv == ASSUME IInv, Data PROVE IInv'
<1>1. /\ UNCHANGED <<udpVars, udpConnected, handshakeFinished, isHandshaking,
                     connectionTimeout, isClosed, killed, crashed,
                     alertPending, listenerThrew>>
      /\ MayClose /\ Take("data")
  BY DEF Data, DataEmittedIf, MayClose
<1>2. LoopInv'
  BY <1>1, TakeLoop DEF IInv
<1>3. events \in Seq(Events) /\ bufferedMessages \in Nat
  BY DEF IInv, TypeOK, Events
<1>4. EndInv' /\ events' \in Seq(Events) /\ bufferedMessages' \in Nat
  <2>1. CASE handshakeFinished
    <3>1. events' = events \o <<"message">> /\ bufferedMessages' = bufferedMessages
      BY <1>3, <2>1 DEF Data, DataEmittedIf
    <3>2. <<"message">> \in Seq({"connected", "message"})
      OBVIOUS
    <3> QED
      BY <1>1, <1>3, <3>1, <3>2, TellNoEnd DEF IInv
  <2>2. CASE ~ handshakeFinished
    <3>1. events' = events /\ bufferedMessages' = bufferedMessages + 1
      BY <2>2 DEF Data, DataEmittedIf
    <3> QED
      BY <1>1, <1>3, <3>1 DEF IInv, EndInv, OneEnd, Ends
  <2> QED
    BY <2>1, <2>2
<1>5. FlagsOK'
  BY <1>1 DEF IInv, TypeOK, FlagsOK, udpVars
<1>7. CloseInv' /\ pendingCloses' \in Nat
  BY <1>1, MayCloseCloseInv DEF udpVars
<1>6. TypeOK' /\ HandleReleased' /\ NeverUnwatched'
  BY <1>1, <1>4, <1>5, <1>7 DEF IInv, TypeOK, HandleReleased, NeverUnwatched,
                                Events, udpVars
<1> QED
  BY <1>2, <1>4, <1>6, <1>7 DEF IInv

\* close() for the peer's close_notify throws only after another end.
LEMMA CloseNotifyIInv == ASSUME IInv, CloseNotify PROVE IInv'
<1>1. /\ UNCHANGED <<udpVars, ownVars, connectionTimeout, isClosed, killed,
                     events, alertPending, listenerThrew>>
      /\ closes' = closes + 1 /\ pendingCloses' = pendingCloses + 1
      /\ crashed' = (udp = "closed") /\ ~ crashed /\ Take("close_notify")
  BY DEF CloseNotify, close, Take
<1>2. LoopInv'
  BY <1>1, TakeLoop DEF IInv
<1>3. FlagsOK'
  BY <1>1, Zenon DEF IInv, TypeOK, FlagsOK, udpVars, ownVars
<1>4. TypeOK' /\ HandleReleased' /\ EndInv'
  BY <1>1, <1>3 DEF IInv, TypeOK, HandleReleased, EndInv, OneEnd, Ends,
                    udpVars, ownVars
<1>5. NeverUnwatched'
  BY <1>1, Zenon DEF IInv, NeverUnwatched, ownVars
<1>6. CloseInv'
  <2>1. /\ closes \in Nat /\ pendingCloses \in Nat
        /\ pendingCloses <= closes /\ (killed => isClosed)
        /\ udp = "closed" => killed \/ pendingCloses < closes
        /\ udp' = udp
    BY <1>1 DEF IInv, TypeOK, CloseInv, udpVars
  <2>2. CASE udp # "closed"
    <3>1. ~ crashed'
      BY <1>1, <2>2, Zenon
    <3> QED
      BY <1>1, <2>1, <2>2, <3>1 DEF CloseInv, SingleEndIsSafe
  <2>3. CASE udp = "closed"
    <3>1. closes' > 1 \/ (closes' > 0 /\ killed)
      BY <1>1, <2>1, <2>3
    <3> QED
      BY <1>1, <2>1, <2>3, <3>1 DEF CloseInv, SingleEndIsSafe
  <2> QED
    BY <2>2, <2>3
<1> QED
  BY <1>2, <1>4, <1>5, <1>6 DEF IInv

-----------------------------------------------------------------------------
(* The steps that kill.                                                     *)

\* Errors of the UDP socket and the callback of the error alert kill.
LEMMA ErrorIInv == ASSUME IInv, UdpError \/ AlertSent PROVE IInv'
<1>1. /\ Kill
      /\ UNCHANGED <<closeEvent, ownVars, loop, pendingCloses, closes,
                     listenerThrew>>
      /\ alertPending' = alertPending \/ alertPending' = FALSE
  BY DEF UdpError, AlertSent, queueVars, countVars
<1>2. LoopInv' /\ isHandshaking' \in BOOLEAN /\ alertPending' \in BOOLEAN
  BY <1>1 DEF IInv, LoopInv, TypeOK, FlagsOK, ownVars
<1> QED
  BY <1>1, <1>2, KillPlain DEF ownVars

\* A handler that throws and a fatal alert kill.
LEMMA FatalIInv == ASSUME IInv, Broken \/ FatalAlert PROVE IInv'
<1>1. /\ Kill
      /\ UNCHANGED <<closeEvent, udpConnected, handshakeFinished,
                     bufferedMessages, pendingCloses, alertPending, countVars>>
      /\ isHandshaking' = isHandshaking \/ isHandshaking' = FALSE
      /\ Take("broken") \/ Take("fatal")
  BY DEF Broken, FatalAlert, Finish, ownVars
<1>2. LoopInv'
  BY <1>1, TakeLoop DEF IInv
<1>3. isHandshaking' \in BOOLEAN /\ alertPending' \in BOOLEAN
  BY <1>1 DEF IInv, TypeOK, FlagsOK
<1> QED
  BY <1>1, <1>2, <1>3, KillPlain DEF countVars

\* A listener that throws makes the handler kill what it has connected.
LEMMA ConnectedThrowsIInv == ASSUME IInv, ConnectedThrows PROVE IInv'
<1>0. PICK emitted \in 0 .. bufferedMessages :
         KillAfter(<<"connected">> \o [i \in 1 .. emitted |-> "message"])
  BY DEF ConnectedThrows
<1> DEFINE told == <<"connected">> \o [i \in 1 .. emitted |-> "message"]
<1>1. /\ MayClose
      /\ UNCHANGED <<closeEvent, udpConnected, bufferedMessages, alertPending>>
      /\ handshakeFinished' = TRUE /\ isHandshaking' = FALSE
      /\ listenerThrew' = TRUE /\ Take("finished")
  BY DEF ConnectedThrows, Finish
<1>2. LoopInv'
  BY <1>1, TakeLoop DEF IInv
<1>3. /\ handshakeFinished' \in BOOLEAN /\ isHandshaking' \in BOOLEAN
      /\ alertPending' \in BOOLEAN /\ listenerThrew' \in BOOLEAN
      /\ bufferedMessages' \in Nat
  BY <1>1 DEF IInv, TypeOK, FlagsOK
<1>4. told \in Seq({"connected", "message"})
  <2>1. emitted \in Nat
    BY DEF IInv, TypeOK
  <2>2. [i \in 1 .. emitted |-> "message"] \in Seq({"connected", "message"})
    BY <2>1
  <2> QED
    BY <2>2
<1> HIDE DEF told
<1>5. KillAfter(told)
  BY <1>0 DEF told
<1> QED
  BY <1>1, <1>2, <1>3, <1>4, <1>5, KillIInv

-----------------------------------------------------------------------------
\* Every step keeps the invariant.
LEMMA NextIInv == ASSUME IInv, [Next]_vars PROVE IInv'
<1>1. CASE Listening
  BY <1>1, ListeningIInv
<1>2. CASE ConnectionTimeout \/ HandshakeTimeout
  BY <1>2, TimeoutIInv
<1>3. CASE UdpError \/ AlertSent
  BY <1>3, ErrorIInv
<1>4. CASE UserClose
  BY <1>4, UserCloseIInv
<1>5. CASE CloseSent
  BY <1>5, CloseSentIInv
<1>6. CASE Forget
  BY <1>6, ForgetIInv
<1>7. CASE UdpClosed
  BY <1>7, UdpClosedIInv
<1>8. CASE ReceiveDatagram
  BY <1>8, ReceiveDatagramIInv
<1>9. CASE Connected
  BY <1>9, ConnectedIInv
<1>10. CASE ConnectedThrows
  BY <1>10, ConnectedThrowsIInv
<1>11. CASE Rejected
  BY <1>11, RejectedIInv
<1>12. CASE Broken \/ FatalAlert
  BY <1>12, FatalIInv
<1>13. CASE Unexpected
  BY <1>13, UnexpectedIInv
<1>14. CASE Data
  BY <1>14, DataIInv
<1>15. CASE CloseNotify
  BY <1>15, CloseNotifyIInv
<1>16. CASE UNCHANGED vars
  BY <1>16 DEF vars, udpVars, ownVars, killVars, queueVars, countVars, IInv,
               TypeOK, FlagsOK, HandleReleased, NeverUnwatched, LoopInv,
               CloseInv, SingleEndIsSafe, EndInv, OneEnd, Ends
<1> QED
  BY <1>1, <1>2, <1>3, <1>4, <1>5, <1>6, <1>7, <1>8, <1>9, <1>10, <1>11,
     <1>12, <1>13, <1>14, <1>15, <1>16 DEF Next, Driven

\* The inductive invariant holds: types, who closed the UDP socket, and what
\* the user was told.
THEOREM SocketInvariant == Spec => []IInv
<1>1. Init => IInv
  BY InitIInv
<1>2. IInv /\ [Next]_vars => IInv'
  BY NextIInv
<1> QED
  BY <1>1, <1>2, PTL DEF Spec

\* The flags keep their types and stay tied to each other: a close event is due
\* only from a closed UDP socket, the first timer ends with the binding.
THEOREM SocketTypes == Spec => []TypeOK
<1>1. IInv => TypeOK
  BY DEF IInv
<1> QED
  BY <1>1, SocketInvariant, PTL

\* A closed Socket has released its UDP socket, whatever closed it.
THEOREM Released == Spec => []HandleReleased
<1>1. IInv => HandleReleased
  BY DEF IInv
<1> QED
  BY <1>1, SocketInvariant, PTL

\* The user hears of the end of the connection at most once.
THEOREM EndsOnce == Spec => []OneEnd
<1>1. IInv => OneEnd
  BY DEF IInv, EndInv
<1> QED
  BY <1>1, SocketInvariant, PTL

\* A Socket that is connecting is watched by a timer.
THEOREM Watched == Spec => []NeverUnwatched
<1>1. IInv => NeverUnwatched
  BY DEF IInv
<1> QED
  BY <1>1, SocketInvariant, PTL

\* A connection that is ended once, by whichever side, crashes nothing.
THEOREM EndingOnceIsSafe == Spec => []SingleEndIsSafe
<1>1. IInv => SingleEndIsSafe
  BY DEF IInv, CloseInv
<1> QED
  BY <1>1, SocketInvariant, PTL

-----------------------------------------------------------------------------
(* The order of the events.                                                 *)

\* Before the handshake is finished only an end is told, afterwards it was told
\* that it is, and it is finished once.
OrderInv ==
    /\ udp = "binding" => ~ isHandshaking /\ ~ handshakeFinished
    /\ isHandshaking => ~ handshakeFinished
    /\ ~ handshakeFinished => \A i \in DOMAIN events : Ends(i)
    /\ handshakeFinished => \E c \in DOMAIN events : events[c] = "connected"
    /\ EventOrder

\* What may be told of a connection: its end at any time, messages once it was
\* told that there is one.
LEMMA TellOrder ==
    ASSUME OrderInv, IInv, NEW told \in Seq(Events), events' = events \o told,
           \A i \in DOMAIN told :
               \/ told[i] \in {"error", "close"}
               \/ handshakeFinished /\ told[i] = "message",
           handshakeFinished' = handshakeFinished,
           udp' = "binding" => udp = "binding" /\ isHandshaking' = isHandshaking,
           isHandshaking' => isHandshaking \/ udp = "binding"
    PROVE  OrderInv'
<1>1. /\ DOMAIN events' = 1 .. Len(events) + Len(told)
      /\ DOMAIN events = 1 .. Len(events) /\ Len(events) \in Nat
      /\ DOMAIN told = 1 .. Len(told) /\ Len(told) \in Nat
      /\ \A i \in DOMAIN events : events'[i] = events[i]
      /\ \A i \in Len(events) + 1 .. Len(events) + Len(told) :
            events'[i] = told[i - Len(events)]
  BY DEF IInv, TypeOK, Events
<1>2. \A i \in DOMAIN events' \ DOMAIN events :
         \/ events'[i] \in {"error", "close"}
         \/ handshakeFinished /\ events'[i] = "message"
  BY <1>1
<1>3. EventOrder'
  <2> SUFFICES ASSUME NEW i \in DOMAIN events', NEW j \in DOMAIN events'
               PROVE  /\ events'[i] = "connected" /\ events'[j] = "connected"
                            => i = j
                      /\ events'[i] = "message" =>
                            \E c \in 1 .. i - 1 : events'[c] = "connected"
    BY DEF EventOrder
  <2>0. \A k \in DOMAIN events' : events'[k] = "connected" =>
           k \in DOMAIN events /\ events[k] = "connected"
    BY <1>1, <1>2
  <2>1. events'[i] = "connected" /\ events'[j] = "connected" => i = j
    BY <2>0 DEF OrderInv, EventOrder
  <2>2. ASSUME events'[i] = "message"
        PROVE  \E c \in 1 .. i - 1 : events'[c] = "connected"
    <3>1. CASE i \in DOMAIN events
      <4>1. PICK c \in 1 .. i - 1 : events[c] = "connected"
        BY <1>1, <2>2, <3>1 DEF OrderInv, EventOrder
      <4> QED
        BY <1>1, <3>1, <4>1
    <3>2. CASE i \notin DOMAIN events
      <4>1. PICK c \in DOMAIN events : events[c] = "connected"
        BY <1>2, <2>2, <3>2 DEF OrderInv
      <4> QED
        BY <1>1, <3>2, <4>1
    <3> QED
      BY <3>1, <3>2
  <2> QED
    BY <2>1, <2>2
<1>4. ~ handshakeFinished => \A i \in DOMAIN events' : Ends(i)'
  BY <1>1, <1>2 DEF OrderInv, Ends
<1>5. handshakeFinished => \E c \in DOMAIN events' : events'[c] = "connected"
  BY <1>1 DEF OrderInv
<1> QED
  BY <1>3, <1>4, <1>5 DEF OrderInv

\* A step that tells nothing.
LEMMA QuietOrder ==
    ASSUME OrderInv, IInv, events' = events,
           handshakeFinished' = handshakeFinished,
           udp' = "binding" => udp = "binding" /\ isHandshaking' = isHandshaking,
           isHandshaking' => isHandshaking \/ udp = "binding"
    PROVE  OrderInv'
BY DEF OrderInv, EventOrder, Ends

\* killConnection tells an end, or nothing.
LEMMA KillOrder ==
    ASSUME OrderInv, IInv, Kill, handshakeFinished' = handshakeFinished,
           isHandshaking' => isHandshaking
    PROVE  OrderInv'
<1>1. events \in Seq(Events)
  BY DEF IInv, TypeOK, Events
<1>2. udp' # "binding"
  BY Zenon DEF Kill, KillAfter, KillWith, IInv, HandleReleased
<1>3. PICK told \in {<<>>, <<"error">>} : events' = events \o told
  <2>1. CASE isClosed
    <3>1. events' = events \o <<>>
      BY <2>1 DEF Kill, KillAfter, KillWith
    <3> QED
      BY <3>1
  <2>2. CASE ~ isClosed
    <3>1. events' = events \o <<>> \o
                       (IF udp = "closed" THEN <<>> ELSE <<"error">>)
      BY <2>2 DEF Kill, KillAfter, KillWith
    <3>2. events \o <<>> = events
      BY <1>1
    <3> QED
      BY <3>1, <3>2
  <2> QED
    BY <2>1, <2>2
<1>4. /\ told \in Seq(Events)
      /\ \A i \in DOMAIN told : told[i] \in {"error", "close"}
  <2>1. CASE told = <<>>
    BY <2>1
  <2>2. CASE told = <<"error">>
    BY <2>2 DEF Events
  <2> QED
    BY <1>3, <2>1, <2>2
<1> QED
  BY <1>2, <1>3, <1>4, TellOrder

\* When the handshake is finished, `connected' comes first and some of what was
\* buffered follows, and the end if a listener throws.
LEMMA ConnectedFirst ==
    ASSUME OrderInv, IInv, isHandshaking, udp' # "binding",
           handshakeFinished' = TRUE, isHandshaking' = FALSE,
           NEW told \in Seq({"message", "error"}),
           DOMAIN events' = 1 .. Len(events) + 1 + Len(told),
           \A i \in DOMAIN events : events'[i] = events[i],
           events'[Len(events) + 1] = "connected",
           \A i \in DOMAIN told : events'[Len(events) + 1 + i] = told[i]
    PROVE  OrderInv'
<1>1. /\ events \in Seq(Events) /\ udp' # "binding"
      /\ ~ handshakeFinished /\ handshakeFinished' /\ ~ isHandshaking'
  BY Zenon DEF IInv, TypeOK, Events, OrderInv
<1>2. \A i \in DOMAIN events : events[i] \in {"error", "close"}
  BY <1>1 DEF OrderInv, Ends
<1>3. /\ Len(events) \in Nat /\ Len(told) \in Nat
      /\ DOMAIN events = 1 .. Len(events) /\ DOMAIN told = 1 .. Len(told)
      /\ \A i \in DOMAIN told : told[i] \in {"message", "error"}
  BY <1>1
<1>4. ASSUME NEW i \in DOMAIN events'
      PROVE  /\ events'[i] = "connected" => i = Len(events) + 1
             /\ events'[i] = "message" => Len(events) + 1 \in 1 .. i - 1
  <2>1. CASE i \in DOMAIN events
    <3>1. events'[i] \in {"error", "close"}
      BY <1>2, <2>1
    <3> QED
      BY <3>1
  <2>2. CASE i = Len(events) + 1
    <3>1. events'[i] = "connected"
      BY <2>2
    <3> QED
      BY <2>2, <3>1
  <2>3. CASE i > Len(events) + 1
    <3>1. i - Len(events) - 1 \in DOMAIN told
      BY <1>3, <2>3
    <3>2. events'[i] \in {"message", "error"}
      BY <1>3, <2>3, <3>1
    <3>3. Len(events) + 1 \in 1 .. i - 1
      BY <1>3, <2>3
    <3> QED
      BY <3>2, <3>3
  <2> QED
    BY <1>3, <2>1, <2>2, <2>3
<1>5. EventOrder'
  <2> SUFFICES ASSUME NEW i \in DOMAIN events', NEW j \in DOMAIN events'
               PROVE  /\ events'[i] = "connected" /\ events'[j] = "connected"
                            => i = j
                      /\ events'[i] = "message" =>
                            \E c \in 1 .. i - 1 : events'[c] = "connected"
    BY DEF EventOrder
  <2> QED
    BY <1>4
<1>6. \E c \in DOMAIN events' : events'[c] = "connected"
  BY <1>3
<1> QED
  BY <1>1, <1>5, <1>6 DEF OrderInv

\* The events of a handshake that is finished, whether a listener throws or not.
LEMMA ConnectedOrder ==
    ASSUME OrderInv, IInv, Connected \/ ConnectedThrows PROVE OrderInv'
<1>0. /\ events \in Seq(Events) /\ bufferedMessages \in Nat
      /\ isClosed => udp = "closed"
  BY DEF IInv, TypeOK, Events, HandleReleased
<1>1. /\ handshakeFinished' = TRUE /\ isHandshaking' = FALSE /\ isHandshaking
  BY DEF Connected, ConnectedThrows, Finish
<1>2. udp # "binding"
  BY <1>1, Zenon DEF OrderInv
<1>3. CASE Connected
  <2> DEFINE buffered == [i \in 1 .. bufferedMessages |-> "message"]
  <2>1. udp' = udp /\ events' = Append(events, "connected") \o buffered
    BY <1>3 DEF Connected, udpVars
  <2>2. buffered \in Seq({"message", "error"})
    BY <1>0
  <2> HIDE DEF buffered
  <2>3. /\ DOMAIN events' = 1 .. Len(events) + 1 + Len(buffered)
        /\ \A i \in DOMAIN events : events'[i] = events[i]
        /\ events'[Len(events) + 1] = "connected"
        /\ \A i \in DOMAIN buffered :
              events'[Len(events) + 1 + i] = buffered[i]
    BY <1>0, <2>1, <2>2 DEF Events
  <2> QED
    BY <1>1, <1>2, <2>1, <2>2, <2>3, ConnectedFirst
<1>4. CASE ConnectedThrows
  <2>1. PICK n \in 0 .. bufferedMessages :
           KillAfter(<<"connected">> \o [i \in 1 .. n |-> "message"])
    BY <1>4 DEF ConnectedThrows
  <2> DEFINE some == [i \in 1 .. n |-> "message"]
             all  == Append(some, "error")
  <2>2. some \in Seq({"message", "error"})
    BY <1>0
  <2>3. KillAfter(<<"connected">> \o some)
    BY <2>1
  <2> HIDE DEF some
  <2>4. udp' # "binding"
    BY <1>2, <2>3, Zenon DEF KillAfter, KillWith
  <2>5. \/ events' = events \o (<<"connected">> \o some)
        \/ events' = events \o (<<"connected">> \o some) \o <<"error">>
    <3>1. CASE isClosed
      BY <2>3, <3>1 DEF KillAfter, KillWith
    <3>2. CASE ~ isClosed
      <4>1. events' = events \o (<<"connected">> \o some) \o
                         (IF udp = "closed" THEN <<>> ELSE <<"error">>)
        BY <2>3, <3>2 DEF KillAfter, KillWith
      <4>2. events \o (<<"connected">> \o some) \o <<>>
              = events \o (<<"connected">> \o some)
        BY <1>0, <2>2 DEF Events
      <4> QED
        BY <4>1, <4>2
    <3> QED
      BY <3>1, <3>2
  <2> DEFINE first == <<"connected">> \o some
  <2>f. /\ first \in Seq(Events) /\ Len(first) = 1 + Len(some)
        /\ first[1] = "connected" /\ Len(some) \in Nat
        /\ DOMAIN some = 1 .. Len(some)
        /\ \A i \in 1 .. Len(some) : first[1 + i] = some[i]
    BY <2>2 DEF Events
  <2> HIDE DEF first
  <2>g. /\ events \o first \in Seq(Events)
        /\ Len(events \o first) = Len(events) + 1 + Len(some)
        /\ \A i \in DOMAIN events : (events \o first)[i] = events[i]
        /\ (events \o first)[Len(events) + 1] = "connected"
        /\ \A i \in 1 .. Len(some) :
              (events \o first)[Len(events) + 1 + i] = some[i]
    <3>0. events \in Seq(Events) /\ first \in Seq(Events)
      BY <1>0, <2>f
    <3>1. /\ events \o first \in Seq(Events) /\ Len(events) \in Nat
          /\ Len(events \o first) = Len(events) + Len(first)
          /\ \A i \in DOMAIN events : (events \o first)[i] = events[i]
          /\ \A i \in 1 .. Len(first) :
                (events \o first)[Len(events) + i] = first[i]
      BY <3>0
    <3>2. ASSUME NEW i \in 1 .. Len(some)
          PROVE  (events \o first)[Len(events) + 1 + i] = some[i]
      <4>1. 1 + i \in 1 .. Len(first) /\ Len(events) + (1 + i) = Len(events) + 1 + i
        BY <2>f, <3>1
      <4>2. (events \o first)[Len(events) + (1 + i)] = first[1 + i]
        BY <3>1, <4>1
      <4> QED
        BY <2>f, <4>1, <4>2
    <3> QED
      BY <2>f, <3>1, <3>2
  <2>6. CASE events' = events \o first
    <3>1. DOMAIN events' = 1 .. Len(events) + 1 + Len(some)
      BY <2>6, <2>g
    <3> QED
      BY <1>1, <2>2, <2>4, <2>6, <2>f, <2>g, <3>1, ConnectedFirst
  <2>7. CASE events' = (events \o first) \o <<"error">>
    <3>1. /\ all \in Seq({"message", "error"}) /\ Len(all) = Len(some) + 1
          /\ \A i \in 1 .. Len(some) : all[i] = some[i]
          /\ all[Len(some) + 1] = "error" /\ Len(events) \in Nat
          /\ DOMAIN all = 1 .. Len(some) + 1
      BY <1>0, <2>2
    <3> HIDE DEF all
    <3>2. /\ DOMAIN events' = 1 .. Len(events) + 1 + Len(all)
          /\ \A i \in 1 .. Len(events) + 1 + Len(some) :
                events'[i] = (events \o first)[i]
          /\ events'[Len(events) + 1 + Len(some) + 1] = "error"
      <4> DEFINE told == events \o first
      <4>1. told \in Seq(Events) /\ events' = told \o <<"error">>
        BY <2>7, <2>g
      <4>2. Len(told) = Len(events) + 1 + Len(some)
        BY <2>g
      <4> HIDE DEF told
      <4>3. /\ DOMAIN events' = 1 .. Len(told) + 1
            /\ \A i \in 1 .. Len(told) : events'[i] = told[i]
            /\ events'[Len(told) + 1] = "error"
        BY <4>1 DEF Events
      <4> QED
        BY <2>f, <3>1, <4>2, <4>3 DEF told
    <3>3. ASSUME NEW i \in DOMAIN all
          PROVE  events'[Len(events) + 1 + i] = all[i]
      <4>1. CASE i \in 1 .. Len(some)
        <5>1. Len(events) + 1 + i \in 1 .. Len(events) + 1 + Len(some)
          BY <2>f, <3>1, <4>1
        <5>2. events'[Len(events) + 1 + i] = (events \o first)[Len(events) + 1 + i]
          BY <3>2, <5>1
        <5> QED
          BY <2>g, <3>1, <4>1, <5>2
      <4>2. CASE i = Len(some) + 1
        <5>1. Len(events) + 1 + i = Len(events) + 1 + Len(some) + 1
          BY <2>f, <3>1, <4>2
        <5> QED
          BY <3>1, <3>2, <4>2, <5>1
      <4> QED
        BY <2>f, <3>1, <4>1, <4>2
    <3>4. ASSUME NEW i \in DOMAIN events PROVE events'[i] = events[i]
      <4>1. i \in 1 .. Len(events) + 1 + Len(some)
        BY <1>0, <2>f
      <4> QED
        BY <2>g, <3>2, <4>1
    <3>5. events'[Len(events) + 1] = "connected"
      BY <2>f, <2>g, <3>1, <3>2
    <3> QED
      BY <1>1, <2>4, <3>1, <3>2, <3>3, <3>4, <3>5, ConnectedFirst
  <2> QED
    BY <2>5, <2>6, <2>7 DEF first
<1> QED
  BY <1>3, <1>4

\* Data is told after connected, or kept.
LEMMA DataOrder == ASSUME OrderInv, IInv, Data PROVE OrderInv'
<1>1. UNCHANGED <<udp, handshakeFinished, isHandshaking>>
  BY DEF Data, DataEmittedIf, udpVars
<1>2. events \in Seq(Events)
  BY DEF IInv, TypeOK, Events
<1>3. CASE ~ handshakeFinished
  <2>1. events' = events
    BY <1>3 DEF Data, DataEmittedIf
  <2> QED
    BY <1>1, <2>1, QuietOrder
<1>4. CASE handshakeFinished
  <2>1. events' = events \o <<"message">>
    BY <1>2, <1>4 DEF Data, DataEmittedIf
  <2>2. /\ <<"message">> \in Seq(Events)
        /\ \A i \in DOMAIN <<"message">> : <<"message">>[i] = "message"
    BY DEF Events
  <2> QED
    BY <1>1, <1>4, <2>1, <2>2, TellOrder
<1> QED
  BY <1>3, <1>4

\* udp_onClose tells an end, or nothing.
LEMMA UdpClosedOrder == ASSUME OrderInv, IInv, UdpClosed PROVE OrderInv'
<1> USE DEF UdpClosed, UdpClosedMarking
<1>1. /\ UNCHANGED <<udp, handshakeFinished, isHandshaking>>
      /\ events \in Seq(Events)
  BY DEF IInv, TypeOK, Events, ownVars
<1>2. CASE UNCHANGED events
  BY <1>1, <1>2, QuietOrder
<1>3. CASE ~ UNCHANGED events
  <2>1. events' = events \o <<"close">>
    BY <1>1, <1>3
  <2>2. /\ <<"close">> \in Seq(Events)
        /\ \A i \in DOMAIN <<"close">> : <<"close">>[i] = "close"
    BY DEF Events
  <2> QED
    BY <1>1, <2>1, <2>2, TellOrder
<1> QED
  BY <1>2, <1>3

\* Every step keeps the order of the events.
LEMMA NextOrder == ASSUME OrderInv, IInv, [Next]_vars PROVE OrderInv'
<1>2. CASE \/ Listening \/ UserClose \/ CloseSent \/ Forget \/ ReceiveDatagram
           \/ CloseNotify \/ Unexpected \/ UNCHANGED vars
  <2>1. events' = events /\ handshakeFinished' = handshakeFinished
    BY <1>2 DEF Listening, ListeningWith, UserClose, CloseSent, Forget,
                ReceiveDatagram, CloseNotify, Unexpected,
                vars, ownVars, killVars, queueVars, countVars
  <2>2. /\ udp' = "binding" => udp = "binding" /\ isHandshaking' = isHandshaking
        /\ isHandshaking' => isHandshaking \/ udp = "binding"
    <3>1. CASE Listening
      BY <3>1 DEF Listening, ListeningWith
    <3>2. CASE CloseSent
      BY <3>2 DEF CloseSent, ownVars
    <3>3. CASE UserClose \/ Forget \/ ReceiveDatagram \/ CloseNotify
                 \/ Unexpected \/ UNCHANGED vars
      BY <3>3 DEF UserClose, Forget, ReceiveDatagram, CloseNotify, Unexpected,
                  vars, udpVars, ownVars
    <3> QED
      BY <1>2, <3>1, <3>2, <3>3
  <2> QED
    BY <2>1, <2>2, QuietOrder
<1>3. CASE ConnectionTimeout \/ HandshakeTimeout
  <2>1. UNCHANGED <<handshakeFinished, isHandshaking>>
    BY <1>3 DEF ConnectionTimeout, HandshakeTimeout, ownVars
  <2>2. CASE Kill
    BY <2>1, <2>2, KillOrder
  <2>3. CASE ~ Kill
    <3>1. UNCHANGED <<udp, events>>
      BY <1>3, <2>3 DEF ConnectionTimeout, HandshakeTimeout
    <3> QED
      BY <2>1, <3>1, QuietOrder
  <2> QED
    BY <2>2, <2>3
<1>4. CASE UdpError \/ AlertSent \/ FatalAlert
  <2>1. UNCHANGED <<handshakeFinished, isHandshaking>> /\ Kill
    BY <1>4 DEF UdpError, AlertSent, FatalAlert, ownVars
  <2> QED
    BY <2>1, KillOrder
<1>5. CASE Broken \/ Rejected
  <2>1. /\ handshakeFinished' = handshakeFinished
        /\ isHandshaking' = FALSE /\ isHandshaking
        /\ Kill \/ UNCHANGED killVars
    BY <1>5 DEF Broken, Rejected, Finish
  <2>2. udp # "binding" /\ ~ isHandshaking'
    BY <2>1, Zenon DEF OrderInv
  <2>3. CASE Kill
    BY <2>1, <2>2, <2>3, KillOrder
  <2>4. CASE UNCHANGED killVars
    BY <2>1, <2>2, <2>4, QuietOrder DEF killVars
  <2> QED
    BY <2>1, <2>3, <2>4
<1>6. CASE UdpClosed
  BY <1>6, UdpClosedOrder
<1>7. CASE Connected \/ ConnectedThrows
  BY <1>7, ConnectedOrder
<1>8. CASE Data
  BY <1>8, DataOrder
<1> QED
  BY <1>2, <1>3, <1>4, <1>5, <1>6, <1>7, <1>8 DEF Next, Driven

\* `connected' comes at most once and no message before it, whatever arrives,
\* whoever throws, and also behind an alert that has ended the connection.
THEOREM EventsInOrder == Spec => []EventOrder
<1>1. Init => OrderInv
  <2> SUFFICES ASSUME Init PROVE OrderInv
    OBVIOUS
  <2>1. ~ isHandshaking /\ ~ handshakeFinished
    BY Zenon DEF Init
  <2>2. events = <<>>
    BY DEF Init
  <2> QED
    BY <2>1, <2>2 DEF OrderInv, EventOrder, Ends
<1>2. OrderInv /\ IInv /\ [Next]_vars => OrderInv'
  BY NextOrder
<1>3. OrderInv => EventOrder
  BY DEF OrderInv
<1> QED
  BY <1>1, <1>2, <1>3, SocketInvariant, PTL DEF Spec

-----------------------------------------------------------------------------
(* Nothing is told once the end was told and the loop is through.           *)

\* A Socket whose user was told of the end is closed, and so is its UDP socket.
LEMMA ToldIsClosed ==
    ASSUME IInv, \E i \in DOMAIN events : Ends(i)
    PROVE  isClosed /\ udp = "closed"
BY DEF IInv, EndInv, HandleReleased

\* Once the user was told of the end and the loop is through, the Socket stays
\* silent, whatever its timers, its callbacks and the UDP socket still do.
THEOREM Silence == Spec => SilentAfterEnd
<1> DEFINE Told == \E i \in DOMAIN events : Ends(i)
           Silent == Told /\ loop = <<>> => loop' = <<>> /\ events' = events
<1>1. ASSUME IInv, [Next]_vars PROVE Silent
  <2> SUFFICES ASSUME Told, loop = <<>> PROVE loop' = <<>> /\ events' = events
    OBVIOUS
  <2>1. isClosed /\ udp = "closed" /\ events \in Seq(Events)
    BY <1>1, ToldIsClosed DEF IInv, TypeOK, Events
  <2>2. ASSUME Kill PROVE events' = events
    BY <2>1, <2>2 DEF Kill, KillAfter, KillWith
  <2>3. ~ (\/ Connected \/ ConnectedThrows \/ Rejected \/ Broken \/ Unexpected
           \/ Data \/ FatalAlert \/ CloseNotify)
    BY DEF Connected, ConnectedThrows, Rejected, Broken, Unexpected, Data,
           DataEmittedIf, FatalAlert, CloseNotify, Finish, Take
  <2>4. ~ ReceiveDatagram /\ ~ Listening /\ ~ UserClose
    BY <2>1 DEF ReceiveDatagram, Listening, ListeningWith, UserClose
  <2>5. CASE ConnectionTimeout \/ HandshakeTimeout \/ UdpError \/ AlertSent
    BY <2>2, <2>5 DEF ConnectionTimeout, HandshakeTimeout, UdpError, AlertSent,
                      queueVars
  <2>6. CASE CloseSent \/ Forget \/ UdpClosed \/ UNCHANGED vars
    BY <2>1, <2>6 DEF CloseSent, Forget, UdpClosed, UdpClosedMarking, vars,
                      killVars, queueVars
  <2> QED
    BY <1>1, <2>3, <2>4, <2>5, <2>6 DEF Next, Driven
<1>2. IInv /\ [Next]_vars => [Silent]_vars
  BY <1>1
<1> QED
  BY <1>2, SocketInvariant, PTL DEF Spec, SilentAfterEnd
=============================================================================
