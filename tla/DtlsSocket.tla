----------------------------- MODULE DtlsSocket -----------------------------
(***************************************************************************)
(* The life of a Socket of src/dtls.ts as its user sees it: connecting, the *)
(* two timeouts, close() and the peer's close_notify, errors, and the       *)
(* events.  The handshake is reduced to its outcome; ClientHandshake has    *)
(* the rest of it.                                                          *)
(*                                                                          *)
(* External is the UDP socket: it is bound or fails, calls back when a      *)
(* datagram has left, drops that callback when it is closed meanwhile,      *)
(* throws when it is closed twice, and emits `close' before anything else   *)
(* but callbacks that are due already.  An exception that no code catches   *)
(* ends the process.                                                        *)
(***************************************************************************)
EXTENDS Integers, Sequences

CONSTANTS
    Datagrams,      \* what the peer sends: sequences of MessageKinds
    MaxDatagrams,   \* how many of them arrive
    MaxCloses,      \* calls of close() by the user
    MaxErrors       \* errors of the UDP socket

\* What the loop of udp_onMessage tells apart: a Finished that is accepted, one
\* that is not and for which an alert is sent, a message whose handling throws,
\* application data, and the alerts.
MessageKinds == {"finished", "rejected", "broken", "data", "fatal",
                 "close_notify"}

\* Any messages in any order, also behind an alert that ends the connection.
ASSUME DatagramsAssumption == \A d \in Datagrams : d \in Seq(MessageKinds)

VARIABLES
    \* the UDP socket: binding, open, closed; its close event is due; the
    \* listeners for listening, message and close are still there
    udp, closeEvent, attached,
    \* the Socket
    udpConnected, connectionTimeout, handshakeFinished, isClosed,
    bufferedMessages, isHandshaking,
    loop,           \* messages the loop of udp_onMessage has not taken yet
    pendingCloses,  \* close_notify alerts sent by close(), callback pending
    alertPending,   \* the alert of a failed handshake, callback pending
    crashed,        \* an exception was not caught
    \* history: events emitted, how often close() was run, killConnection
    \* closed the socket, a listener threw, what arrived
    events, closes, killed, listenerThrew, datagrams, errors

udpVars   == <<udp, closeEvent, attached>>
ownVars   == <<udpConnected, handshakeFinished, bufferedMessages, isHandshaking>>
killVars  == <<udp, attached, connectionTimeout, isClosed, killed, events,
               crashed>>
queueVars == <<loop, pendingCloses, alertPending>>
countVars == <<closes, listenerThrew, datagrams, errors>>
vars == <<udpVars, ownVars, killVars, queueVars, countVars>>

Init ==
    /\ udp = "binding" /\ closeEvent = FALSE /\ attached = TRUE
    /\ udpConnected = FALSE
    /\ connectionTimeout = "connection"
    /\ handshakeFinished = FALSE /\ isClosed = FALSE
    /\ bufferedMessages = 0 /\ isHandshaking = FALSE
    /\ loop = <<>> /\ pendingCloses = 0 /\ alertPending = FALSE
    /\ crashed = FALSE /\ killed = FALSE /\ listenerThrew = FALSE
    /\ events = <<>> /\ closes = 0 /\ datagrams = 0 /\ errors = 0

-----------------------------------------------------------------------------
\* A callback or an event of the UDP socket can run.
Ready == ~ crashed /\ loop = <<>>

\* ... and so can a timer or a message: nothing is due before them.
Idle == Ready /\ ~ closeEvent

KillWith(returns, told, releases) ==
    IF returns
    THEN /\ events' = events \o told
         /\ UNCHANGED <<udp, attached, connectionTimeout, isClosed, killed,
                        crashed>>
    ELSE /\ isClosed' = TRUE
         /\ killed' = TRUE
         /\ connectionTimeout' = "none"
         /\ attached' = FALSE
         /\ udp' = IF releases THEN "closed" ELSE udp
         /\ crashed' = (udp = "closed")
         /\ events' = events \o told \o
                         (IF udp = "closed" THEN <<>> ELSE <<"error">>)

\* Mutants: without the early return; without udp.close(); the error is emitted
\* by a socket that is closed already.
KillAnew(told) == KillWith(FALSE, told, TRUE)
KillUnreleased(told) == KillWith(isClosed, told, FALSE)
KillTold(told) == KillWith(isClosed, IF isClosed THEN told \o <<"error">> ELSE told, TRUE)

\* killConnection, which returns early when the Socket is closed.  A second
\* udp.close() throws before the error is emitted.  `told' are the events
\* emitted just before.
KillAfter(told) == KillWith(isClosed, told, TRUE)

Kill == KillAfter(<<>>)

ListeningWith(timer) ==
    /\ Idle /\ udp = "binding"
    /\ udp' = "open"
    /\ udpConnected' = TRUE
    /\ isHandshaking' = TRUE
    /\ connectionTimeout' = timer
    /\ UNCHANGED <<closeEvent, attached, handshakeFinished, isClosed,
                   bufferedMessages, killed, events, crashed, queueVars,
                   countVars>>

\* Mutants: the first timer is left running; no timer is set.
ListeningOldTimer == ListeningWith("connection")
ListeningNoTimer == ListeningWith("none")

\* udp_onListening
Listening == ListeningWith("handshake")

\* Mutant: the timer forgets the connection it was to end.
ConnectionTimeoutIdle ==
    /\ Idle /\ connectionTimeout = "connection"
    /\ connectionTimeout' = "none"
    /\ UNCHANGED <<udpVars, ownVars, isClosed, killed, events, crashed,
                   queueVars, countVars>>

\* expectConnection
ConnectionTimeout ==
    /\ Idle /\ connectionTimeout = "connection"
    /\ IF ~ isClosed /\ ~ udpConnected
       THEN Kill
       ELSE /\ connectionTimeout' = "none"
            /\ UNCHANGED <<udp, attached, isClosed, killed, events, crashed>>
    /\ UNCHANGED <<closeEvent, ownVars, queueVars, countVars>>

\* expectHandshake
HandshakeTimeout ==
    /\ Idle /\ connectionTimeout = "handshake"
    /\ IF ~ isClosed /\ ~ handshakeFinished
       THEN Kill
       ELSE /\ connectionTimeout' = "none"
            /\ UNCHANGED <<udp, attached, isClosed, killed, events, crashed>>
    /\ UNCHANGED <<closeEvent, ownVars, queueVars, countVars>>

\* udp_onError: the bind failed, or a name was not resolved.
UdpError ==
    /\ Ready /\ errors < MaxErrors
    /\ udp # "closed" \/ closeEvent
    /\ errors' = errors + 1
    /\ Kill
    /\ UNCHANGED <<closeEvent, ownVars, queueVars, closes, listenerThrew,
                   datagrams>>

-----------------------------------------------------------------------------
\* close(), where it does not throw at its caller, which would change nothing:
\* there is a record layer, and the UDP socket takes its datagram.
close == /\ closes' = closes + 1
         /\ pendingCloses' = pendingCloses + 1

UserClose ==
    /\ Idle /\ udpConnected /\ udp = "open"
    /\ closes < MaxCloses
    /\ close
    /\ UNCHANGED <<udpVars, ownVars, killVars, loop, alertPending,
                   listenerThrew, datagrams, errors>>

\* A listener for the events a message of the loop raises may call close(), and
\* the loop goes on.  When killConnection came before it, close() throws at the
\* listener, whose own matter that is.
MayClose == \/ closes < MaxCloses /\ udp = "open" /\ close
            \/ UNCHANGED <<closes, pendingCloses>>

\* The close_notify has left: its callback closes the UDP socket.
CloseSent ==
    /\ Ready /\ pendingCloses > 0
    /\ pendingCloses' = pendingCloses - 1
    /\ crashed' = (udp = "closed")
    /\ udp' = "closed"
    /\ closeEvent' = (closeEvent \/ udp # "closed")
    /\ UNCHANGED <<attached, connectionTimeout, isClosed, killed, events,
                   ownVars, loop, alertPending, countVars>>

\* The alert of a failed handshake has left: its callback is nextStep.
AlertSent ==
    /\ Ready /\ alertPending
    /\ alertPending' = FALSE
    /\ Kill
    /\ UNCHANGED <<closeEvent, ownVars, loop, pendingCloses, countVars>>

\* A closed UDP socket forgets what it has not sent.
Forget ==
    /\ Ready /\ udp = "closed"
    /\ \/ /\ pendingCloses > 0
          /\ pendingCloses' = pendingCloses - 1
          /\ UNCHANGED alertPending
       \/ /\ alertPending
          /\ alertPending' = FALSE
          /\ UNCHANGED pendingCloses
    /\ UNCHANGED <<udpVars, ownVars, killVars, loop, countVars>>

UdpClosedMarking(closed) ==
    /\ Ready /\ closeEvent
    /\ closeEvent' = FALSE
    /\ IF attached /\ ~ isClosed
       THEN isClosed' = closed /\ events' = Append(events, "close")
       ELSE UNCHANGED <<isClosed, events>>
    /\ attached' = FALSE
    /\ UNCHANGED <<udp, connectionTimeout, killed, crashed, ownVars, queueVars,
                   countVars>>

\* Mutant: the close event does not mark the Socket closed.
UdpClosedUnmarked == UdpClosedMarking(FALSE)

\* udp_onClose, unless killConnection has removed it.
UdpClosed == UdpClosedMarking(TRUE)

-----------------------------------------------------------------------------
\* udp_onMessage
ReceiveDatagram ==
    /\ Idle /\ udp = "open" /\ attached /\ udpConnected
    /\ datagrams < MaxDatagrams
    /\ datagrams' = datagrams + 1
    /\ loop' \in Datagrams
    /\ UNCHANGED <<udpVars, ownVars, killVars, pendingCloses, alertPending,
                   closes, listenerThrew, errors>>

\* The loop takes its next message, also when one before it has closed the
\* socket.
Take(type) == /\ ~ crashed
              /\ loop # <<>> /\ Head(loop) = type
              /\ loop' = Tail(loop)

\* The end of the handshake, which happens once.
Finish(type) == /\ Take(type)
                /\ isHandshaking
                /\ isHandshaking' = FALSE

Connected ==
    /\ Finish("finished")
    /\ handshakeFinished' = TRUE
    /\ connectionTimeout' = "none"
    /\ events' = Append(events, "connected")
                   \o [i \in 1 .. bufferedMessages |-> "message"]
    /\ bufferedMessages' = 0
    /\ MayClose
    /\ UNCHANGED <<udpVars, udpConnected, isClosed, killed, crashed,
                   alertPending, listenerThrew, datagrams, errors>>

\* A listener for `connected', or for one of the messages emitted after it,
\* throws: the handshake handler takes that for an exception of its own and
\* calls the finished callback again.  The buffer is not emptied then.
ConnectedThrows ==
    /\ Finish("finished")
    /\ handshakeFinished' = TRUE
    /\ listenerThrew' = TRUE
    /\ MayClose
    /\ \E emitted \in 0 .. bufferedMessages :
          KillAfter(<<"connected">> \o [i \in 1 .. emitted |-> "message"])
    /\ UNCHANGED <<closeEvent, udpConnected, bufferedMessages, alertPending,
                   datagrams, errors>>

\* The alert is sent and its callback awaited.  When the loop has gone on after
\* killConnection, sending throws, and the handler calls the finished callback
\* with that exception.
Rejected ==
    /\ Finish("rejected")
    /\ IF udp = "closed"
       THEN Kill /\ UNCHANGED alertPending
       ELSE alertPending' = TRUE /\ UNCHANGED killVars
    /\ UNCHANGED <<closeEvent, udpConnected, handshakeFinished,
                   bufferedMessages, pendingCloses, countVars>>

Broken ==
    /\ Finish("broken")
    /\ Kill
    /\ UNCHANGED <<closeEvent, udpConnected, handshakeFinished,
                   bufferedMessages, pendingCloses, alertPending, countVars>>

\* A handshake message when none is expected.
Unexpected ==
    /\ \E type \in {"finished", "rejected", "broken"} : Take(type)
    /\ ~ isHandshaking
    /\ UNCHANGED <<udpVars, ownVars, killVars, pendingCloses, alertPending,
                   countVars>>

DataEmittedIf(emitted) ==
    /\ Take("data")
    /\ IF emitted
       THEN /\ events' = Append(events, "message")
            /\ MayClose
            /\ UNCHANGED bufferedMessages
       ELSE /\ bufferedMessages' = bufferedMessages + 1
            /\ UNCHANGED <<events, closes, pendingCloses>>
    /\ UNCHANGED <<udpVars, udpConnected, handshakeFinished, isHandshaking,
                   connectionTimeout, isClosed, killed, crashed, alertPending,
                   listenerThrew, datagrams, errors>>

\* Mutant: data is emitted as it arrives.
DataUnbuffered == DataEmittedIf(TRUE)

\* Application data is kept until the handshake is finished.
Data == DataEmittedIf(handshakeFinished)

FatalAlert ==
    /\ Take("fatal")
    /\ Kill
    /\ UNCHANGED <<closeEvent, ownVars, pendingCloses, alertPending, countVars>>

\* The peer's close_notify is answered by close(); sending throws when the
\* loop goes on after killConnection.
CloseNotify ==
    /\ Take("close_notify")
    /\ close
    /\ crashed' = (udp = "closed")
    /\ UNCHANGED <<udpVars, ownVars, connectionTimeout, isClosed, killed,
                   events, alertPending, listenerThrew, datagrams, errors>>

-----------------------------------------------------------------------------
\* What the process does by itself, once it is due.
Driven ==
    \/ ConnectionTimeout \/ HandshakeTimeout
    \/ CloseSent \/ AlertSent \/ Forget \/ UdpClosed
    \/ Connected \/ ConnectedThrows \/ Rejected \/ Broken \/ Unexpected
    \/ Data \/ FatalAlert \/ CloseNotify

Next == Driven \/ Listening \/ UdpError \/ UserClose \/ ReceiveDatagram

\* Timers expire and callbacks run; nothing else has to happen.
Spec == Init /\ [][Next]_vars /\ WF_vars(Driven)

-----------------------------------------------------------------------------
FlagsOK ==
    /\ closeEvent \in BOOLEAN /\ attached \in BOOLEAN
    /\ udpConnected \in BOOLEAN /\ handshakeFinished \in BOOLEAN
    /\ isClosed \in BOOLEAN /\ isHandshaking \in BOOLEAN
    /\ alertPending \in BOOLEAN /\ listenerThrew \in BOOLEAN
    /\ killed \in BOOLEAN /\ crashed \in BOOLEAN

\* Types, and what ties the flags to each other: only a closed UDP socket has
\* a close event due, and the first timer runs only until it is bound.
TypeOK ==
    /\ FlagsOK
    /\ udp \in {"binding", "open", "closed"}
    /\ connectionTimeout \in {"none", "connection", "handshake"}
    /\ bufferedMessages \in Nat /\ pendingCloses \in Nat
    /\ events \in Seq({"connected", "message", "error", "close"})
    /\ closeEvent => udp = "closed"
    /\ connectionTimeout = "connection" => ~ udpConnected

\* A Socket that is closed, whichever of the ways led there, has released its
\* UDP socket.
HandleReleased == isClosed => udp = "closed"

Ends(i) == events[i] \in {"error", "close"}

\* However timeouts, alerts, errors and close() meet, the user hears of the end
\* of the connection at most once, as `error' or as `close'.
OneEnd == \A i, j \in DOMAIN events : Ends(i) /\ Ends(j) => i = j

\* Through buffering, the flush, a listener that throws and data behind an
\* alert: `connected' comes at most once, and no message comes before it.
EventOrder ==
    \A i, j \in DOMAIN events :
        /\ events[i] = "connected" /\ events[j] = "connected" => i = j
        /\ events[i] = "message" =>
              \E c \in 1 .. i - 1 : events[c] = "connected"

\* Once the user was told of the end, and the loop that was at work is through,
\* the Socket never speaks again: no datagram, timer, callback or error that
\* comes later raises an event.
SilentAfterEnd ==
    [][(\E i \in DOMAIN events : Ends(i)) /\ loop = <<>> =>
           loop' = <<>> /\ events' = events]_vars

\* "terminate the connection when receiving a fatal alert" (src/dtls.ts:194):
\* nothing is emitted after the end.  The loop goes on behind the alert, and
\* what it emits does not ask whether the Socket is closed.
NothingAfterEnd ==
    ~ listenerThrew => \A i, j \in DOMAIN events : Ends(i) => j <= i

\* Until the handshake is finished or the Socket closed, a timer watches it,
\* also while the UDP socket is replaced by the record layer and after close().
NeverUnwatched ==
    isClosed \/ handshakeFinished \/ crashed \/ connectionTimeout # "none"

\* The UDP socket is closed twice, which throws in a callback, only if the
\* connection is ended twice: by two runs of close(), or by one and by
\* killConnection.  One end never crashes the process.
SingleEndIsSafe == crashed => closes > 1 \/ (closes > 0 /\ killed)

\* Connecting comes to an end: connected, closed or, if the connection was
\* ended twice, in an exception.
Settles == <>(handshakeFinished \/ isClosed \/ crashed)

\* close() closes the Socket, or something else does first.
CloseCompletes == pendingCloses > 0 ~> (isClosed \/ crashed)

=============================================================================
