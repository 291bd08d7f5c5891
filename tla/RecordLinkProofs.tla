--------------------------- MODULE RecordLinkProofs ---------------------------
(***************************************************************************)
(* The safety of a RecordLayer for every size of the window, every number   *)
(* of records, epochs and records per datagram, and every order and         *)
(* repetition in which the network packs and delivers what was sent.        *)
(***************************************************************************)
EXTENDS RecordLink, OperatorLemmas

Keys    == {NullKeys} \cup ({"keys", "old"} \X Nat)
Types   == {"application_data", "change_cipher_spec"}
Datas   == {"data", Garbled}
Record  == [epoch : Nat, sequence_number : Nat, keys : Keys, type : Types,
            data : Datas]
Message == [type : Types, data : Datas]
Epoch   == [keys : Keys, decipher : Keys \cup {Undefined},
            antiReplayWindow : Window, writeSequenceNumber : -1 .. MaxWrite]

\* How many numbers of the write epoch the messages to be sent still take: what
\* follows a ChangeCipherSpec is numbered in the next one.
Pending == IF outgoing = <<>> THEN 0 ELSE 1

\* The state has its shape, and what was let into sendFlight fits the bound on
\* record numbers.
Shape ==
    /\ readEpochNr \in Nat /\ writeEpochNr \in Nat
    /\ epochs \in [0 .. nextEpochNr(readEpochNr, writeEpochNr) -> Epoch]
    /\ datagram \in Seq(Record) /\ unmarked \in Seq(Record)
    /\ messages \in Seq(Message)
    /\ outgoing \in {<<>>, <<Data>>, <<CCS, Data>>}
    /\ peerSent \in Seq(Record)
    /\ epochs[writeEpochNr].writeSequenceNumber + Pending <= MaxWrite
    /\ \A e \in DOMAIN epochs :
          e > writeEpochNr => epochs[e].writeSequenceNumber = -1

-----------------------------------------------------------------------------
(* The operators on epochs.                                                 *)

\* A fresh epoch is one, and the window of a fresh epoch is a window.
LEMMA FreshEpoch == createEpoch \in Epoch /\ width \in Nat /\ width > 0
<1>1. width \in Nat /\ width > 0
  BY WindowAssumption, SMTT(30) DEF width
<1>2. NewWindow \in Window
  BY <1>1 DEF NewWindow, Window
<1>3. -1 \in -1 .. MaxWrite
  BY LinkAssumption
<1> QED
  BY <1>1, <1>2, <1>3 DEF createEpoch, Epoch, Keys

\* A switch of either direction by one leaves every epoch there is as it was,
\* and those it adds are fresh: epochs keep being numbered without a gap.
LEMMA EnsureNext ==
    ASSUME NEW r \in Nat, NEW w \in Nat, NEW q \in Nat, NEW v \in Nat,
           (q = r + 1 /\ v = w) \/ (q = r /\ v = w + 1),
           NEW eps \in [0 .. nextEpochNr(r, w) -> Epoch]
    PROVE  /\ ensureNextEpoch(eps, q, v) \in [0 .. nextEpochNr(q, v) -> Epoch]
           /\ nextEpochNr(r, w) \in Nat /\ nextEpochNr(q, v) \in Nat
           /\ nextEpochNr(q, v) >= nextEpochNr(r, w)
           /\ \A e \in 0 .. nextEpochNr(q, v) :
                 ensureNextEpoch(eps, q, v)[e] =
                     IF e \in DOMAIN eps THEN eps[e] ELSE createEpoch
<1> DEFINE n == nextEpochNr(r, w)
           m == nextEpochNr(q, v)
<1>1. n \in Nat /\ m \in {n, n + 1}
  BY DEF nextEpochNr, Larger
<1>2. DOMAIN eps \cup {m} = 0 .. m /\ DOMAIN eps = 0 .. n
  BY <1>1
<1>3. ensureNextEpoch(eps, q, v)
        = [e \in 0 .. m |-> IF e \in DOMAIN eps THEN eps[e] ELSE createEpoch]
  BY <1>2, Zenon DEF ensureNextEpoch
<1> HIDE DEF n, m
<1> QED
  BY <1>1, <1>2, <1>3, FreshEpoch DEF n, m

\* Both epochs in use are there, and so are those after them.
LEMMA EpochsInUse ==
    ASSUME NEW r \in Nat, NEW w \in Nat
    PROVE  /\ nextEpochNr(r, w) \in Nat
           /\ r + 1 \in 0 .. nextEpochNr(r, w) /\ r \in 0 .. nextEpochNr(r, w)
           /\ w + 1 \in 0 .. nextEpochNr(r, w) /\ w \in 0 .. nextEpochNr(r, w)
  BY DEF nextEpochNr, Larger

\* What Shape says of the epochs, as the steps below need it.
LEMMA EpochTypes ==
    ASSUME Shape
    PROVE  /\ nextEpochNr(readEpochNr, writeEpochNr) \in Nat
           /\ DOMAIN epochs = 0 .. nextEpochNr(readEpochNr, writeEpochNr)
           /\ epochs \in [DOMAIN epochs -> Epoch]
           /\ readEpochNr \in DOMAIN epochs /\ readEpochNr + 1 \in DOMAIN epochs
           /\ writeEpochNr \in DOMAIN epochs /\ writeEpochNr + 1 \in DOMAIN epochs
           /\ \A e \in DOMAIN epochs :
                 /\ epochs[e] \in Epoch
                 /\ epochs[e].writeSequenceNumber \in -1 .. MaxWrite
                 /\ epochs[e].antiReplayWindow \in Window
                 /\ epochs[e].keys \in Keys
<1>1. /\ epochs \in [0 .. nextEpochNr(readEpochNr, writeEpochNr) -> Epoch]
      /\ readEpochNr \in Nat /\ writeEpochNr \in Nat
  BY DEF Shape
<1>2. \A e \in Epoch : /\ e.writeSequenceNumber \in -1 .. MaxWrite
                       /\ e.antiReplayWindow \in Window
                       /\ e.keys \in Keys
  BY DEF Epoch
<1> QED
  BY <1>1, <1>2, EpochsInUse

-----------------------------------------------------------------------------
(* The fields of an epoch are assigned one at a time.                       *)

KeysPut(eps, n, k)     == [eps EXCEPT ![n].keys = k]
NumberPut(eps, n)      == [eps EXCEPT ![n].writeSequenceNumber = @ + 1]
DecipherPut(eps, n, k) == [eps EXCEPT ![n].decipher = k]
WindowPut(eps, n, s)   == [eps EXCEPT ![n].antiReplayWindow = markAsReceived(@, s)]

\* Assigning the keys of an epoch leaves the rest of it and the other epochs.
LEMMA PutKeys ==
    ASSUME NEW D, NEW f \in [D -> Epoch], NEW n \in D, NEW k \in Keys
    PROVE  /\ KeysPut(f, n, k) \in [D -> Epoch]
           /\ \A e \in D :
                 /\ KeysPut(f, n, k)[e].keys = IF e = n THEN k ELSE f[e].keys
                 /\ KeysPut(f, n, k)[e].antiReplayWindow = f[e].antiReplayWindow
                 /\ KeysPut(f, n, k)[e].writeSequenceNumber = f[e].writeSequenceNumber
<1> DEFINE h == [f[n] EXCEPT !.keys = k]
<1>1. f[n] \in Epoch
  OBVIOUS
<1>2. /\ h \in Epoch
      /\ h.keys = k
      /\ h.antiReplayWindow = f[n].antiReplayWindow
      /\ h.writeSequenceNumber = f[n].writeSequenceNumber
  BY <1>1 DEF Epoch
<1>3. KeysPut(f, n, k) = [e \in D |-> IF e = n THEN h ELSE f[e]]
  BY Zenon DEF KeysPut
<1> HIDE DEF h
<1> QED
  BY <1>2, <1>3

\* Counting a record of an epoch leaves the rest of it and the other epochs.
LEMMA PutNumber ==
    ASSUME NEW D, NEW f \in [D -> Epoch], NEW n \in D,
           f[n].writeSequenceNumber + 1 \in -1 .. MaxWrite
    PROVE  /\ NumberPut(f, n) \in [D -> Epoch]
           /\ \A e \in D :
                 /\ NumberPut(f, n)[e].writeSequenceNumber =
                        IF e = n THEN f[e].writeSequenceNumber + 1
                                 ELSE f[e].writeSequenceNumber
                 /\ NumberPut(f, n)[e].keys = f[e].keys
                 /\ NumberPut(f, n)[e].antiReplayWindow = f[e].antiReplayWindow
<1> DEFINE s == f[n].writeSequenceNumber + 1
           h == [f[n] EXCEPT !.writeSequenceNumber = s]
<1>1. f[n] \in Epoch /\ s \in -1 .. MaxWrite
  OBVIOUS
<1>2. NumberPut(f, n) = [e \in D |-> IF e = n THEN h ELSE f[e]]
  BY Zenon DEF NumberPut
<1>3. s = f[n].writeSequenceNumber + 1
  OBVIOUS
<1> HIDE DEF s
<1>4. /\ h \in Epoch
      /\ h.writeSequenceNumber = s
      /\ h.keys = f[n].keys
      /\ h.antiReplayWindow = f[n].antiReplayWindow
  BY <1>1 DEF Epoch
<1> HIDE DEF h
<1> QED
  BY <1>2, <1>3, <1>4

\* Making the delegate of an epoch leaves the rest of it and the other epochs.
LEMMA PutDecipher ==
    ASSUME NEW D, NEW f \in [D -> Epoch], NEW n \in D, NEW k \in Keys
    PROVE  /\ DecipherPut(f, n, k) \in [D -> Epoch]
           /\ \A e \in D :
                 /\ DecipherPut(f, n, k)[e].keys = f[e].keys
                 /\ DecipherPut(f, n, k)[e].antiReplayWindow = f[e].antiReplayWindow
                 /\ DecipherPut(f, n, k)[e].writeSequenceNumber = f[e].writeSequenceNumber
<1> DEFINE h == [f[n] EXCEPT !.decipher = k]
<1>1. f[n] \in Epoch
  OBVIOUS
<1>2. /\ h \in Epoch
      /\ h.keys = f[n].keys
      /\ h.antiReplayWindow = f[n].antiReplayWindow
      /\ h.writeSequenceNumber = f[n].writeSequenceNumber
  BY <1>1 DEF Epoch
<1>3. DecipherPut(f, n, k) = [e \in D |-> IF e = n THEN h ELSE f[e]]
  BY Zenon DEF DecipherPut
<1> HIDE DEF h
<1> QED
  BY <1>2, <1>3

\* Marking a record leaves all but the window of its epoch.
LEMMA PutWindow ==
    ASSUME NEW D, NEW f \in [D -> Epoch], NEW n \in D, NEW s \in Int
    PROVE  /\ WindowPut(f, n, s) \in [D -> Epoch]
           /\ \A e \in D :
                 /\ WindowPut(f, n, s)[e].antiReplayWindow =
                        IF e = n THEN markAsReceived(f[e].antiReplayWindow, s)
                                 ELSE f[e].antiReplayWindow
                 /\ WindowPut(f, n, s)[e].keys = f[e].keys
                 /\ WindowPut(f, n, s)[e].writeSequenceNumber = f[e].writeSequenceNumber
<1> DEFINE w == markAsReceived(f[n].antiReplayWindow, s)
           h == [f[n] EXCEPT !.antiReplayWindow = w]
<1>1. f[n] \in Epoch
  OBVIOUS
<1>2. w \in Window
  BY <1>1, MarkType DEF Epoch
<1>3. WindowPut(f, n, s) = [e \in D |-> IF e = n THEN h ELSE f[e]]
  BY Zenon DEF WindowPut
<1>4. w = markAsReceived(f[n].antiReplayWindow, s)
  OBVIOUS
<1> HIDE DEF w
<1>5. /\ h \in Epoch
      /\ h.antiReplayWindow = w
      /\ h.keys = f[n].keys
      /\ h.writeSequenceNumber = f[n].writeSequenceNumber
  BY <1>1, <1>2 DEF Epoch
<1> HIDE DEF h
<1> QED
  BY <1>3, <1>4, <1>5

-----------------------------------------------------------------------------
(* What the steps do to the epochs.                                         *)

KeysKept == \A e \in DOMAIN epochs : epochs'[e].keys = epochs[e].keys
NumbersKept == \A e \in DOMAIN epochs :
                   epochs'[e].writeSequenceNumber = epochs[e].writeSequenceNumber
WindowsKept == \A e \in DOMAIN epochs :
                   epochs'[e].antiReplayWindow = epochs[e].antiReplayWindow

\* No epoch is lost, and those that are new are fresh.
Grown == /\ epochs' \in [0 .. nextEpochNr(readEpochNr, writeEpochNr)' -> Epoch]
         /\ DOMAIN epochs \subseteq DOMAIN epochs'
         /\ \A e \in DOMAIN epochs' \ DOMAIN epochs : epochs'[e] = createEpoch

\* The handshake gives the next epoch its keys.
LEMMA InstallKeysEpochs ==
    ASSUME Shape, InstallKeys
    PROVE  /\ Grown /\ DOMAIN epochs' = DOMAIN epochs
           /\ NumbersKept /\ WindowsKept
           /\ UNCHANGED <<readEpochNr, writeEpochNr>>
           /\ \A e \in DOMAIN epochs :
                 epochs'[e].keys = epochs[e].keys
                 \/ (epochs[e].keys = NullKeys /\ epochs'[e].keys = KeysOf(e)
                       /\ e > writeEpochNr)
<1> DEFINE next == nextEpochNr(readEpochNr, writeEpochNr)
<1>1. next \in Nat /\ next \in DOMAIN epochs /\ next > writeEpochNr
  BY EpochTypes DEF Shape, nextEpochNr, Larger
<1>2. KeysOf(next) \in Keys
  BY <1>1 DEF KeysOf, Keys
<1>3. epochs' = KeysPut(epochs, next, KeysOf(next))
  BY DEF InstallKeys, KeysPut
<1>4. epochs[next].keys = NullKeys
      /\ UNCHANGED <<readEpochNr, writeEpochNr>>
  BY DEF InstallKeys
<1>5. DOMAIN epochs = 0 .. next /\ nextEpochNr(readEpochNr, writeEpochNr)' = next
      /\ epochs \in [DOMAIN epochs -> Epoch]
  BY <1>4, EpochTypes DEF nextEpochNr
<1> HIDE DEF next
<1>6. /\ epochs' \in [DOMAIN epochs -> Epoch]
      /\ \A e \in DOMAIN epochs :
            /\ epochs'[e].keys = IF e = next THEN KeysOf(next) ELSE epochs[e].keys
            /\ epochs'[e].antiReplayWindow = epochs[e].antiReplayWindow
            /\ epochs'[e].writeSequenceNumber = epochs[e].writeSequenceNumber
  <2> DEFINE new == KeysOf(next)
             put == KeysPut(epochs, next, new)
  <2>1. epochs \in [DOMAIN epochs -> Epoch]
    BY <1>5
  <2>2. new \in Keys /\ epochs' = put
    BY <1>2, <1>3
  <2> HIDE DEF new
  <2>3. /\ put \in [DOMAIN epochs -> Epoch]
        /\ \A e \in DOMAIN epochs :
              /\ put[e].keys = IF e = next THEN new ELSE epochs[e].keys
              /\ put[e].antiReplayWindow = epochs[e].antiReplayWindow
              /\ put[e].writeSequenceNumber = epochs[e].writeSequenceNumber
    BY <2>1, <2>2, <1>1, PutKeys
  <2> HIDE DEF put
  <2> QED
    BY <2>2, <2>3 DEF new
<1> QED
  BY <1>1, <1>4, <1>5, <1>6 DEF Grown, NumbersKept, WindowsKept

\* Sending takes a number of the write epoch; after a ChangeCipherSpec the rest
\* of the flight is sent in the next epoch.
LEMMA ProcessOutgoingEpochs ==
    ASSUME Shape, ProcessOutgoing
    PROVE  /\ Grown /\ KeysKept /\ WindowsKept
           /\ UNCHANGED readEpochNr
           /\ epochs[writeEpochNr].writeSequenceNumber + 1 \in -1 .. MaxWrite
           /\ \A e \in DOMAIN epochs :
                 epochs'[e].writeSequenceNumber =
                     IF e = writeEpochNr THEN epochs[e].writeSequenceNumber + 1
                                         ELSE epochs[e].writeSequenceNumber
           /\ \/ /\ outgoing = <<Data>> /\ outgoing' = <<>>
                 /\ writeEpochNr' = writeEpochNr
              \/ /\ outgoing = <<CCS, Data>> /\ outgoing' = <<Data>>
                 /\ writeEpochNr' = writeEpochNr + 1
<1> DEFINE counted == NumberPut(epochs, writeEpochNr)
           next == nextEpochNr(readEpochNr, writeEpochNr)
<1>1. /\ outgoing \in {<<Data>>, <<CCS, Data>>} /\ outgoing # <<>>
      /\ writeEpochNr \in 0 .. next /\ DOMAIN epochs = 0 .. next
      /\ epochs \in [0 .. next -> Epoch]
      /\ epochs[writeEpochNr].writeSequenceNumber \in -1 .. MaxWrite
      /\ next \in Nat
      /\ readEpochNr \in Nat /\ writeEpochNr \in Nat /\ writeEpochNr + 1 \in Nat
  <2>1. outgoing \in {<<Data>>, <<CCS, Data>>} /\ outgoing # <<>>
    <3>1. outgoing # <<>>
      BY Zenon DEF ProcessOutgoing, processOutgoingMessage
    <3> QED
      BY <3>1 DEF Shape
  <2>2. /\ epochs \in [0 .. next -> Epoch]
        /\ readEpochNr \in Nat /\ writeEpochNr \in Nat
    BY DEF Shape
  <2>3. /\ DOMAIN epochs = 0 .. next /\ writeEpochNr \in 0 .. next
        /\ epochs[writeEpochNr].writeSequenceNumber \in -1 .. MaxWrite
        /\ next \in Nat
    <3> HIDE DEF next
    <3> QED
      BY EpochTypes DEF next
  <2> QED
    BY <2>1, <2>2, <2>3
<1>2. epochs[writeEpochNr].writeSequenceNumber + 1 \in -1 .. MaxWrite
  <2>1. Pending = 1
    BY <1>1, Zenon DEF Pending
  <2> QED
    BY <2>1, <1>1, LinkAssumption DEF Shape
<1> HIDE DEF next
<1>3. /\ counted \in [0 .. next -> Epoch]
      /\ \A e \in 0 .. next :
            /\ counted[e].writeSequenceNumber =
                   IF e = writeEpochNr THEN epochs[e].writeSequenceNumber + 1
                                       ELSE epochs[e].writeSequenceNumber
            /\ counted[e].keys = epochs[e].keys
            /\ counted[e].antiReplayWindow = epochs[e].antiReplayWindow
  <2> DEFINE w   == writeEpochNr
             Es  == 0 .. next
             put == NumberPut(epochs, w)
  <2>1. w \in Es /\ epochs \in [Es -> Epoch]
        /\ epochs[w].writeSequenceNumber + 1 \in -1 .. MaxWrite
    BY <1>1, <1>2
  <2> HIDE DEF w, Es
  <2>2. /\ put \in [Es -> Epoch]
        /\ \A e \in Es :
              /\ put[e].writeSequenceNumber =
                     IF e = w THEN epochs[e].writeSequenceNumber + 1
                              ELSE epochs[e].writeSequenceNumber
              /\ put[e].keys = epochs[e].keys
              /\ put[e].antiReplayWindow = epochs[e].antiReplayWindow
    BY <2>1, PutNumber
  <2> QED
    BY <2>2 DEF w, Es
<1> HIDE DEF counted
<1>4. CASE outgoing = <<Data>>
  <2>1. Head(outgoing).type # "change_cipher_spec" /\ Tail(outgoing) = <<>>
    BY <1>4 DEF Data
  <2>2. epochs' = counted /\ outgoing' = <<>> /\ writeEpochNr' = writeEpochNr
        /\ readEpochNr' = readEpochNr
    BY <2>1, Zenon DEF ProcessOutgoing, processOutgoingMessage, counted, NumberPut
  <2>3. nextEpochNr(readEpochNr, writeEpochNr)' = next
    BY <2>2 DEF next, nextEpochNr
  <2> QED
    BY <1>1, <1>2, <1>3, <1>4, <2>2, <2>3 DEF Grown, KeysKept, WindowsKept
<1>5. CASE outgoing = <<CCS, Data>>
  <2> DEFINE grown == nextEpochNr(readEpochNr, writeEpochNr + 1)
  <2>1. Head(outgoing).type = "change_cipher_spec" /\ Tail(outgoing) = <<Data>>
    BY <1>5 DEF CCS
  <2>2. /\ epochs' = ensureNextEpoch(counted, readEpochNr, writeEpochNr + 1)
        /\ outgoing' = <<Data>> /\ writeEpochNr' = writeEpochNr + 1
        /\ readEpochNr' = readEpochNr
    BY <2>1, Zenon DEF ProcessOutgoing, processOutgoingMessage, counted, NumberPut
  <2>3. /\ epochs' \in [0 .. grown -> Epoch]
        /\ \A e \in 0 .. grown :
              epochs'[e] = IF e \in DOMAIN counted THEN counted[e] ELSE createEpoch
        /\ grown \in Nat /\ grown >= next
    <3>1. counted \in [0 .. nextEpochNr(readEpochNr, writeEpochNr) -> Epoch]
      BY <1>3 DEF next
    <3>2. /\ readEpochNr \in Nat /\ writeEpochNr \in Nat
          /\ writeEpochNr + 1 \in Nat
      BY <1>1
    <3>3. /\ ensureNextEpoch(counted, readEpochNr, writeEpochNr + 1)
                \in [0 .. grown -> Epoch]
          /\ \A e \in 0 .. grown :
                ensureNextEpoch(counted, readEpochNr, writeEpochNr + 1)[e]
                  = IF e \in DOMAIN counted THEN counted[e] ELSE createEpoch
          /\ grown \in Nat /\ grown >= next
      <4> HIDE DEF counted
      <4> QED
        BY <3>1, <3>2, EnsureNext, SMTT(20) DEF next, grown
    <3> QED
      BY <2>2, <3>3, Zenon
  <2>4. nextEpochNr(readEpochNr, writeEpochNr)' = grown
    BY <2>2 DEF nextEpochNr
  <2> HIDE DEF grown
  <2>5. DOMAIN epochs \subseteq DOMAIN epochs' /\ DOMAIN counted = DOMAIN epochs
    BY <2>3, <1>1, <1>3
  <2> QED
    BY <1>1, <1>2, <1>3, <1>5, <2>2, <2>3, <2>4, <2>5
       DEF Grown, KeysKept, WindowsKept
<1> QED
  BY <1>1, <1>4, <1>5

\* Filtering a record makes at most a delegate.
LEMMA FilterEpochs ==
    ASSUME Shape, Filter
    PROVE  /\ Grown /\ DOMAIN epochs' = DOMAIN epochs
           /\ KeysKept /\ NumbersKept /\ WindowsKept
           /\ UNCHANGED <<readEpochNr, writeEpochNr>>
<1>1. UNCHANGED <<readEpochNr, writeEpochNr>>
  BY DEF Filter, Discard, Decipher, layerVars
<1>2. /\ epochs \in [DOMAIN epochs -> Epoch]
      /\ DOMAIN epochs = 0 .. nextEpochNr(readEpochNr, writeEpochNr)'
  BY <1>1, EpochTypes DEF nextEpochNr
<1>3. CASE Discard
  BY <1>1, <1>2, <1>3
     DEF Grown, KeysKept, NumbersKept, WindowsKept, Discard, layerVars
<1>4. CASE Decipher
  <2> DEFINE p == Head(datagram)
  <2>1. p \in Record /\ p.epoch \in DOMAIN epochs
    BY <1>4 DEF Decipher, Shape, PassesFilter
  <2>2. DecipherOf(p.epoch) \in Keys
    <3>1. epochs[p.epoch] \in Epoch
      BY <2>1, EpochTypes
    <3> QED
      BY <3>1 DEF DecipherOf, Epoch
  <2>3. epochs' = DecipherPut(epochs, p.epoch, DecipherOf(p.epoch))
    BY <1>4, Zenon DEF Decipher, DecipherPut
  <2> HIDE DEF p
  <2>4. /\ epochs' \in [DOMAIN epochs -> Epoch]
        /\ \A e \in DOMAIN epochs :
              /\ epochs'[e].keys = epochs[e].keys
              /\ epochs'[e].antiReplayWindow = epochs[e].antiReplayWindow
              /\ epochs'[e].writeSequenceNumber = epochs[e].writeSequenceNumber
    <3> DEFINE new == DecipherOf(p.epoch)
               e0  == p.epoch
               put == DecipherPut(epochs, e0, new)
    <3>1. epochs \in [DOMAIN epochs -> Epoch] /\ e0 \in DOMAIN epochs
      BY <1>2, <2>1
    <3>2. new \in Keys /\ epochs' = put
      BY <2>2, <2>3
    <3> HIDE DEF new, e0
    <3>3. /\ put \in [DOMAIN epochs -> Epoch]
          /\ \A e \in DOMAIN epochs :
                /\ put[e].keys = epochs[e].keys
                /\ put[e].antiReplayWindow = epochs[e].antiReplayWindow
                /\ put[e].writeSequenceNumber = epochs[e].writeSequenceNumber
      BY <3>1, <3>2, PutDecipher
    <3> HIDE DEF put
    <3> QED
      BY <3>2, <3>3
  <2> QED
    BY <1>1, <1>2, <2>4 DEF Grown, KeysKept, NumbersKept, WindowsKept
<1> QED
  BY <1>3, <1>4 DEF Filter

\* Marking a record changes at most the window of its epoch.
LEMMA HandOnEpochs ==
    ASSUME Shape, HandOn
    PROVE  /\ Grown /\ DOMAIN epochs' = DOMAIN epochs
           /\ KeysKept /\ NumbersKept
           /\ UNCHANGED <<readEpochNr, writeEpochNr>>
           /\ unmarked # <<>> /\ Head(unmarked) \in Record
           /\ \A e \in DOMAIN epochs :
                 epochs'[e].antiReplayWindow =
                     IF e = Head(unmarked).epoch
                     THEN markAsReceived(epochs[e].antiReplayWindow,
                                         Head(unmarked).sequence_number)
                     ELSE epochs[e].antiReplayWindow
<1> DEFINE p == Head(unmarked)
<1>1. p \in Record /\ unmarked # <<>> /\ p.sequence_number \in Int
  <2>1. p \in Record /\ unmarked # <<>>
    BY DEF HandOn, Mark, Shape
  <2> HIDE DEF p
  <2> QED
    BY <2>1 DEF Record
<1>2. UNCHANGED <<readEpochNr, writeEpochNr>>
  BY DEF HandOn, Mark
<1>3. epochs' = [epochs EXCEPT ![p.epoch].antiReplayWindow =
                     markAsReceived(@, p.sequence_number)]
  BY Zenon DEF HandOn, Mark
<1>4. /\ epochs \in [DOMAIN epochs -> Epoch]
      /\ DOMAIN epochs = 0 .. nextEpochNr(readEpochNr, writeEpochNr)'
  BY <1>2, EpochTypes DEF nextEpochNr
<1> HIDE DEF p
<1>5. /\ epochs' \in [DOMAIN epochs -> Epoch]
      /\ \A e \in DOMAIN epochs :
            /\ epochs'[e].antiReplayWindow =
                  IF e = p.epoch
                  THEN markAsReceived(epochs[e].antiReplayWindow, p.sequence_number)
                  ELSE epochs[e].antiReplayWindow
            /\ epochs'[e].keys = epochs[e].keys
            /\ epochs'[e].writeSequenceNumber = epochs[e].writeSequenceNumber
  <2>1. CASE p.epoch \in DOMAIN epochs
    <3>1. epochs' = WindowPut(epochs, p.epoch, p.sequence_number)
      BY <1>3, Zenon DEF WindowPut
    <3> QED
      <4> DEFINE e0  == p.epoch
                 s0  == p.sequence_number
                 put == WindowPut(epochs, e0, s0)
      <4>1. epochs \in [DOMAIN epochs -> Epoch] /\ e0 \in DOMAIN epochs /\ s0 \in Int
        BY <1>1, <1>4, <2>1
      <4>2. epochs' = put
        BY <3>1
      <4> HIDE DEF e0, s0
      <4>3. /\ put \in [DOMAIN epochs -> Epoch]
            /\ \A e \in DOMAIN epochs :
                  /\ put[e].antiReplayWindow =
                        IF e = e0 THEN markAsReceived(epochs[e].antiReplayWindow, s0)
                                  ELSE epochs[e].antiReplayWindow
                  /\ put[e].keys = epochs[e].keys
                  /\ put[e].writeSequenceNumber = epochs[e].writeSequenceNumber
        BY <4>1, PutWindow
      <4> HIDE DEF put
      <4> QED
        BY <4>2, <4>3 DEF e0, s0
  <2>2. CASE p.epoch \notin DOMAIN epochs
    <3>1. epochs' = epochs
      BY <1>3, <1>4, <2>2, Zenon
    <3> QED
      BY <3>1, <1>4, <2>2
  <2> QED
    BY <2>1, <2>2
<1> QED
  BY <1>1, <1>2, <1>4, <1>5 DEF Grown, KeysKept, NumbersKept, p

\* A ChangeCipherSpec advances the read epoch; no other message touches it.
LEMMA DispatchEpochs ==
    ASSUME Shape, Dispatch
    PROVE  /\ Grown /\ KeysKept /\ NumbersKept /\ WindowsKept
           /\ UNCHANGED writeEpochNr
           /\ messages # <<>> /\ messages' = Tail(messages)
           /\ IF Head(messages).type = "change_cipher_spec"
              THEN readEpochNr' = readEpochNr + 1
              ELSE readEpochNr' = readEpochNr
<1>1. /\ epochs \in [0 .. nextEpochNr(readEpochNr, writeEpochNr) -> Epoch]
      /\ readEpochNr \in Nat /\ writeEpochNr \in Nat /\ readEpochNr + 1 \in Nat
  BY DEF Shape
<1>2. messages # <<>> /\ messages' = Tail(messages)
  BY DEF Dispatch, NextMessage
<1>3. CASE Head(messages).type = "change_cipher_spec"
  <2>1. /\ readEpochNr' = readEpochNr + 1 /\ writeEpochNr' = writeEpochNr
        /\ epochs' = ensureNextEpoch(epochs, readEpochNr + 1, writeEpochNr)
    BY <1>3 DEF Dispatch, advanceReadEpoch
  <2> DEFINE next  == nextEpochNr(readEpochNr, writeEpochNr)
             grown == nextEpochNr(readEpochNr + 1, writeEpochNr)
  <2>2. /\ epochs' \in [0 .. grown -> Epoch]
        /\ \A e \in 0 .. grown :
              epochs'[e] = IF e \in DOMAIN epochs THEN epochs[e] ELSE createEpoch
        /\ grown \in Nat /\ next \in Nat /\ grown >= next
    BY <1>1, <2>1, EnsureNext
  <2>3. nextEpochNr(readEpochNr, writeEpochNr)' = grown /\ DOMAIN epochs = 0 .. next
    BY <2>1, <1>1 DEF nextEpochNr
  <2> HIDE DEF grown, next
  <2>4. DOMAIN epochs \subseteq DOMAIN epochs'
    BY <2>2, <2>3
  <2> QED
    BY <1>2, <1>3, <2>1, <2>2, <2>3, <2>4
       DEF Grown, KeysKept, NumbersKept, WindowsKept
<1>4. CASE Head(messages).type # "change_cipher_spec"
  <2>1. epochs' = epochs /\ UNCHANGED <<readEpochNr, writeEpochNr>>
    BY <1>4 DEF Dispatch, layerVars
  <2>2. nextEpochNr(readEpochNr, writeEpochNr)'
          = nextEpochNr(readEpochNr, writeEpochNr)
    BY <2>1 DEF nextEpochNr
  <2> QED
    BY <1>1, <1>2, <1>4, <2>1, <2>2 DEF Grown, KeysKept, NumbersKept, WindowsKept
<1> QED
  BY <1>3, <1>4

-----------------------------------------------------------------------------
(* The shape of the state.                                                  *)

\* The state the constructor leaves has the shape.
LEMMA InitShape == Init => Shape
<1> SUFFICES ASSUME Init PROVE Shape
  OBVIOUS
<1>1. nextEpochNr(0, 0) = 1
  BY DEF nextEpochNr, Larger
<1>2. epochs \in [0 .. 1 -> Epoch]
      /\ \A e \in 0 .. 1 : epochs[e].writeSequenceNumber = -1
  BY FreshEpoch DEF Init, RecordInit, createEpoch
<1> QED
  BY <1>1, <1>2, LinkAssumption DEF Init, RecordInit, Shape, Pending

\* The peer's records are records.
LEMMA PeerSendShape ==
    ASSUME Shape, NEW type \in Types, PeerSend(type)
    PROVE  Shape'
<1>1. PeerEpoch \in Nat /\ PeerSeq \in Nat
  <2>1. IsFiniteSet(DOMAIN peerSent)
    BY FS_Interval DEF Shape
  <2>2. IsFiniteSet({i \in DOMAIN peerSent : peerSent[i].type = "change_cipher_spec"})
        /\ IsFiniteSet({i \in DOMAIN peerSent : peerSent[i].epoch = PeerEpoch})
    BY <2>1, FS_Subset
  <2> QED
    BY <2>2, FS_CardinalityType DEF PeerEpoch, PeerSeq
<1>2. KeysOf(PeerEpoch) \in Keys
  BY <1>1 DEF KeysOf, Keys
<1>3. PeerRecord(type) \in Record
  BY <1>1, <1>2 DEF PeerRecord, Record, Datas
<1>4. peerSent' \in Seq(Record)
  BY <1>3 DEF PeerSend, Shape
<1> QED
  BY <1>4 DEF PeerSend, Shape, Pending, recordVars, layerVars, receiveVars,
              sendVars

\* New keys leave the shape.
LEMMA InstallKeysShape ==
    ASSUME Shape, InstallKeys
    PROVE  Shape'
<1>1. UNCHANGED <<datagram, unmarked, messages, outgoing, peerSent>>
  BY DEF InstallKeys, historyVars, receiveVars, sendVars
<1>2. writeEpochNr \in DOMAIN epochs
  BY EpochTypes
<1> QED
  BY <1>1, <1>2, InstallKeysEpochs DEF Shape, Grown, NumbersKept, Pending

\* What the guard of SendFlight lets in fits the bound.
LEMMA SendFlightShape ==
    ASSUME Shape, NEW msgs \in {<<Data>>, <<CCS, Data>>}, SendFlight(msgs)
    PROVE  Shape'
<1>1. outgoing' = msgs
      /\ epochs[writeEpochNr].writeSequenceNumber < MaxWrite
  BY DEF SendFlight
<1>2. Pending' = 1
  BY <1>1 DEF Pending
<1>3. epochs[writeEpochNr].writeSequenceNumber \in Int
  BY EpochTypes
<1>4. epochs[writeEpochNr].writeSequenceNumber + Pending' <= MaxWrite
  BY <1>1, <1>2, <1>3, LinkAssumption DEF Pending
<1> QED
  BY <1>1, <1>4 DEF SendFlight, Shape, historyVars, layerVars, receiveVars

\* Sending keeps what is left of the flight within the bound: a flight behind a
\* ChangeCipherSpec is numbered from 0.
LEMMA ProcessOutgoingShape ==
    ASSUME Shape, ProcessOutgoing
    PROVE  Shape'
<1>1. /\ datagram' = datagram /\ unmarked' = unmarked
      /\ messages' = messages /\ peerSent' = peerSent
  BY Zenon DEF ProcessOutgoing, processOutgoingMessage, receiveVars
<1>2. \A e \in DOMAIN epochs : e > writeEpochNr =>
          e # writeEpochNr /\ epochs[e].writeSequenceNumber = -1
  BY EpochTypes DEF Shape
<1>3. \A e \in DOMAIN epochs' : e > writeEpochNr =>
          epochs'[e].writeSequenceNumber = -1
  BY <1>2, ProcessOutgoingEpochs DEF Grown, createEpoch
<1>4. writeEpochNr \in DOMAIN epochs /\ writeEpochNr + 1 \in DOMAIN epochs
      /\ writeEpochNr \in Nat /\ readEpochNr \in Nat
      /\ \A e \in DOMAIN epochs' : e \in Nat
  <2>1. writeEpochNr \in DOMAIN epochs /\ writeEpochNr + 1 \in DOMAIN epochs
    BY EpochTypes
  <2>2. writeEpochNr \in Nat /\ readEpochNr \in Nat
    BY DEF Shape
  <2>3. DOMAIN epochs' = 0 .. nextEpochNr(readEpochNr, writeEpochNr)'
    BY ProcessOutgoingEpochs DEF Grown
  <2> QED
    BY <2>1, <2>2, <2>3
<1>5. CASE outgoing = <<Data>> /\ outgoing' = <<>> /\ writeEpochNr' = writeEpochNr
  <2>1. Pending' = 0
    BY <1>5 DEF Pending
  <2>2. epochs'[writeEpochNr'].writeSequenceNumber + Pending' <= MaxWrite
    BY <2>1, <1>4, <1>5, LinkAssumption, ProcessOutgoingEpochs
  <2> QED
    BY <1>1, <1>3, <1>4, <1>5, <2>2, ProcessOutgoingEpochs DEF Shape, Grown
<1>6. CASE /\ outgoing = <<CCS, Data>> /\ outgoing' = <<Data>>
           /\ writeEpochNr' = writeEpochNr + 1
  <2>1. Pending' = 1
    BY <1>6 DEF Pending
  <2>2. epochs'[writeEpochNr'].writeSequenceNumber = -1
    BY <1>3, <1>4, <1>6, ProcessOutgoingEpochs DEF Grown
  <2>3. \A e \in DOMAIN epochs' : e > writeEpochNr' =>
            epochs'[e].writeSequenceNumber = -1
    BY <1>3, <1>4, <1>6
  <2> QED
    BY <1>1, <1>4, <1>6, <2>1, <2>2, <2>3, LinkAssumption, ProcessOutgoingEpochs
       DEF Shape, Grown
<1> QED
  BY <1>5, <1>6, ProcessOutgoingEpochs

\* What is in the network are records, and a datagram is made of them.
LEMMA DatagramRecords ==
    ASSUME Shape, Deliver
    PROVE  /\ InNetwork \subseteq Record
           /\ datagram' \in Seq(Record)
           /\ \A i \in DOMAIN datagram' : datagram'[i] \in InNetwork
           /\ doubled' = (doubled \/ HoldsCCSTwice(datagram'))
           /\ UNCHANGED <<layerVars, unmarked, messages, sendVars, peerSent,
                          delivered, sent>>
           /\ unmarked = <<>> /\ messages = <<>>
<1>1. StaleRecord \subseteq Record
  BY DEF StaleRecord, Record, Keys, Types, Datas
<1>2. InNetwork \subseteq Record
  BY <1>1, LinkAssumption DEF InNetwork, Shape
<1>3. PICK n \in 1 .. MaxPacked : \E d \in [1 .. n -> InNetwork] :
          /\ Receive(d)
          /\ doubled' = (doubled \/ HoldsCCSTwice(d))
          /\ UNCHANGED <<peerSent, delivered, sent>>
  BY DEF Deliver
<1>4. PICK d \in [1 .. n -> InNetwork] :
          /\ Receive(d)
          /\ doubled' = (doubled \/ HoldsCCSTwice(d))
          /\ UNCHANGED <<peerSent, delivered, sent>>
  BY <1>3
<1>5. datagram' = d
      /\ UNCHANGED <<layerVars, unmarked, messages, sendVars>>
      /\ unmarked = <<>> /\ messages = <<>>
  BY <1>4, Zenon DEF Receive, Busy, Receiving
<1>6. n \in Nat
  BY LinkAssumption
<1>7. d \in Seq(Record) /\ \A i \in DOMAIN d : d[i] \in InNetwork
  BY <1>2, <1>6
<1> QED
  BY <1>2, <1>4, <1>5, <1>7

\* A datagram leaves everything else.
LEMMA DeliverShape ==
    ASSUME Shape, Deliver
    PROVE  Shape'
  BY DatagramRecords DEF Shape, Pending, layerVars, sendVars

\* What Filter does to the records: the first of the datagram is dropped or,
\* if it passes and deciphers, kept, its content read or garbled.
LEMMA FilterRecords ==
    ASSUME Shape, Filter
    PROVE  /\ datagram # <<>> /\ datagram' = Tail(datagram)
           /\ Head(datagram) \in Record
           /\ UNCHANGED <<messages, outgoing, peerSent, delivered, sent>>
           /\ \/ unmarked' = unmarked
              \/ /\ PassesFilter(Head(datagram))
                 /\ unmarked' = Append(unmarked, Plain(Head(datagram)))
<1>1. /\ datagram # <<>> /\ datagram' = Tail(datagram)
      /\ UNCHANGED <<messages, outgoing, peerSent, delivered, sent>>
  BY Zenon DEF Filter, Discard, Decipher, sendVars, historyVars
<1>2. \/ unmarked' = unmarked
      \/ /\ PassesFilter(Head(datagram))
         /\ unmarked' = Append(unmarked, Plain(Head(datagram)))
  BY Zenon DEF Filter, Discard, Decipher
<1>3. datagram \in Seq(Record)
  BY DEF Shape
<1> QED
  BY <1>1, <1>2, <1>3

\* Reading a record changes nothing but its content.
LEMMA PlainRecord ==
    ASSUME NEW p \in Record
    PROVE  /\ Plain(p) \in Record
           /\ Id(Plain(p)) = Id(p)
           /\ Plain(p).epoch = p.epoch /\ Plain(p).type = p.type
<1> DEFINE g == [p EXCEPT !.data = Garbled]
<1>1. g \in Record /\ g.epoch = p.epoch /\ g.type = p.type
      /\ g.sequence_number = p.sequence_number
  BY DEF Record, Datas
<1>2. Plain(p) \in {p, g}
  BY Zenon DEF Plain
<1> HIDE DEF g
<1> QED
  BY <1>1, <1>2 DEF Id

\* The records that are kept are records.
LEMMA FilterShape ==
    ASSUME Shape, Filter
    PROVE  Shape'
<1>1. datagram' \in Seq(Record) /\ unmarked' \in Seq(Record)
  <2>1. datagram \in Seq(Record) /\ unmarked \in Seq(Record)
    BY DEF Shape
  <2>2. Plain(Head(datagram)) \in Record
    BY FilterRecords, PlainRecord
  <2>3. Tail(datagram) \in Seq(Record)
    BY <2>1, FilterRecords
  <2>4. Append(unmarked, Plain(Head(datagram))) \in Seq(Record)
    BY <2>1, <2>2
  <2> QED
    BY <2>1, <2>3, <2>4, FilterRecords
<1>2. writeEpochNr \in DOMAIN epochs
  BY EpochTypes
<1> QED
  BY <1>1, <1>2, FilterRecords, FilterEpochs DEF Shape, Grown, NumbersKept, Pending

\* Marking hands on the first record that was kept.
LEMMA HandOnShape ==
    ASSUME Shape, HandOn
    PROVE  Shape'
<1>1. UNCHANGED <<datagram, outgoing, peerSent>>
  BY DEF HandOn, Mark, sendVars
<1>2. messages' \in Seq(Message) /\ unmarked' \in Seq(Record)
  <2> DEFINE p == Head(unmarked)
  <2>1. unmarked' = Tail(unmarked)
        /\ messages' = Append(messages, [type |-> p.type, data |-> p.data])
    BY Zenon DEF HandOn, Mark
  <2>2. p \in Record /\ unmarked # <<>>
    BY HandOnEpochs
  <2> HIDE DEF p
  <2>3. [type |-> p.type, data |-> p.data] \in Message
    BY <2>2 DEF Record, Message
  <2> QED
    BY <2>1, <2>2, <2>3 DEF Shape
<1>3. writeEpochNr \in DOMAIN epochs
  BY EpochTypes
<1> QED
  BY <1>1, <1>2, <1>3, HandOnEpochs DEF Shape, Grown, NumbersKept, Pending

\* The epoch a switch adds is not written in yet.
LEMMA DispatchShape ==
    ASSUME Shape, Dispatch
    PROVE  Shape'
<1>1. UNCHANGED <<datagram, unmarked, outgoing, peerSent>>
  BY DEF Dispatch, NextMessage, sendVars, historyVars
<1>2. messages' \in Seq(Message)
  <2>1. messages \in Seq(Message)
    BY DEF Shape
  <2>2. messages # <<>> /\ messages' = Tail(messages)
    BY DispatchEpochs
  <2> QED
    BY <2>1, <2>2
<1>3. writeEpochNr \in DOMAIN epochs
  BY EpochTypes
<1>4. readEpochNr' \in Nat /\ writeEpochNr' = writeEpochNr
  BY DispatchEpochs DEF Shape
<1>5. \A e \in DOMAIN epochs' : e > writeEpochNr =>
          epochs'[e].writeSequenceNumber = -1
  <2>1. \A e \in DOMAIN epochs : e > writeEpochNr =>
            epochs[e].writeSequenceNumber = -1
    BY DEF Shape
  <2> QED
    BY <2>1, DispatchEpochs DEF Grown, NumbersKept, createEpoch
<1>6. epochs'[writeEpochNr].writeSequenceNumber
        = epochs[writeEpochNr].writeSequenceNumber
      /\ Pending' = Pending
  BY <1>1, <1>3, DispatchEpochs DEF NumbersKept, Pending
<1> QED
  BY <1>1, <1>2, <1>4, <1>5, <1>6, DispatchEpochs DEF Shape, Grown

\* Every step keeps the shape.
LEMMA NextShape == Shape /\ [Next]_vars => Shape'
<1> SUFFICES ASSUME Shape, [Next]_vars PROVE Shape'
  OBVIOUS
<1>1. CASE Leave
  BY <1>1 DEF Leave, Transmit, Shape, Pending, layerVars, receiveVars, historyVars
<1>2. CASE UNCHANGED vars
  BY <1>2 DEF vars, recordVars, layerVars, receiveVars, sendVars, Shape, Pending
<1> QED
  BY <1>1, <1>2, PeerSendShape, InstallKeysShape, SendFlightShape,
     ProcessOutgoingShape, DeliverShape, FilterShape, HandOnShape, DispatchShape
     DEF Next, Types

\* The shape says what TypeOK says of the epochs.
THEOREM LinkTypes == Spec => []TypeOK
<1>1. Shape => TypeOK
  BY EpochTypes DEF Shape, TypeOK
<1> QED
  BY <1>1, InitShape, NextShape, PTL DEF Spec

-----------------------------------------------------------------------------
(* Keys and the numbers of what was sent.                                   *)

\* An epoch has no keys yet or its own, its own from the moment something is
\* written in it; what was sent is numbered below the epoch's counter.
SentInv ==
    /\ \A e \in DOMAIN epochs :
          /\ epochs[e].keys \in {NullKeys, KeysOf(e)}
          /\ e <= writeEpochNr => epochs[e].keys = KeysOf(e)
    /\ outgoing = <<CCS, Data>> => epochs[writeEpochNr + 1].keys # NullKeys
    /\ \A p \in sent :
          /\ p.epoch \in 0 .. writeEpochNr
          /\ p.sequence_number \in Int
          /\ p.sequence_number <= epochs[p.epoch].writeSequenceNumber
          /\ p.keys = KeysOf(p.epoch)

\* Nothing was sent, and epoch 0 has no keys.
LEMMA InitSent == Init => SentInv
<1> SUFFICES ASSUME Init PROVE SentInv
  OBVIOUS
<1>1. epochs = [e \in {0, 1} |-> createEpoch] /\ sent = {} /\ writeEpochNr = 0
      /\ outgoing = <<>>
  BY DEF Init, RecordInit
<1>2. \A e \in DOMAIN epochs : epochs[e].keys = NullKeys
  BY <1>1 DEF createEpoch
<1>3. \A e \in DOMAIN epochs : e <= writeEpochNr => e = 0
  BY <1>1
<1>4. outgoing # <<CCS, Data>>
  BY <1>1
<1> QED
  BY <1>1, <1>2, <1>3, <1>4 DEF SentInv, KeysOf

\* A step that sends nothing, keeps the write epoch and what is already
\* counted, and gives an epoch at most its own keys, keeps the invariant.
LEMMA SentFrame ==
    ASSUME Shape, SentInv, Grown, NumbersKept,
           UNCHANGED <<writeEpochNr, sent>>,
           \A e \in DOMAIN epochs :
              epochs'[e].keys = epochs[e].keys
              \/ (epochs[e].keys = NullKeys /\ epochs'[e].keys = KeysOf(e)
                    /\ e > writeEpochNr),
           outgoing' = <<CCS, Data>> => epochs'[writeEpochNr + 1].keys # NullKeys
    PROVE  SentInv'
<1>1. /\ DOMAIN epochs' = 0 .. nextEpochNr(readEpochNr, writeEpochNr)'
      /\ DOMAIN epochs = 0 .. nextEpochNr(readEpochNr, writeEpochNr)
      /\ writeEpochNr \in Nat /\ writeEpochNr \in DOMAIN epochs
      /\ nextEpochNr(readEpochNr, writeEpochNr) \in Nat
  BY EpochTypes DEF Grown, Shape
<1>2. \A e \in 0 .. writeEpochNr : e \in DOMAIN epochs
  BY <1>1
<1>3. ASSUME NEW e \in DOMAIN epochs'
      PROVE  /\ epochs'[e].keys \in {NullKeys, KeysOf(e)}
             /\ e <= writeEpochNr => epochs'[e].keys = KeysOf(e)
  <2>1. CASE e \in DOMAIN epochs
    <3>1. e \in Int
      BY <2>1, <1>1
    <3> QED
      BY <2>1, <3>1, <1>1 DEF SentInv
  <2>2. CASE e \notin DOMAIN epochs
    <3>1. epochs'[e].keys = NullKeys
      BY <2>2 DEF Grown, createEpoch
    <3>2. ~ (e <= writeEpochNr)
      BY <2>2, <1>1
    <3> QED
      BY <3>1, <3>2
  <2> QED
    BY <2>1, <2>2
<1>4. ASSUME NEW p \in sent
      PROVE  epochs'[p.epoch].writeSequenceNumber
                = epochs[p.epoch].writeSequenceNumber
  BY <1>2 DEF SentInv, NumbersKept
<1> QED
  BY <1>3, <1>4 DEF SentInv

\* A record is stamped with the counter's next number and the epoch's keys.
LEMMA ProcessOutgoingSent ==
    ASSUME Shape, SentInv, ProcessOutgoing
    PROVE  SentInv'
<1> DEFINE s == epochs[writeEpochNr].writeSequenceNumber
           q == Stamp(Head(outgoing))
<1>1. /\ DOMAIN epochs' = 0 .. nextEpochNr(readEpochNr, writeEpochNr)'
      /\ DOMAIN epochs = 0 .. nextEpochNr(readEpochNr, writeEpochNr)
      /\ writeEpochNr \in Nat /\ writeEpochNr \in DOMAIN epochs
      /\ writeEpochNr + 1 \in DOMAIN epochs
      /\ nextEpochNr(readEpochNr, writeEpochNr) \in Nat
      /\ s \in Int
  BY EpochTypes, ProcessOutgoingEpochs DEF Grown, Shape
<1>2. sent' = sent \cup {q}
  BY Zenon DEF ProcessOutgoing
<1>3. q.epoch = writeEpochNr /\ q.sequence_number = s + 1
      /\ q.keys = epochs[writeEpochNr].keys
  BY DEF Stamp
<1> HIDE DEF s, q
<1>4. writeEpochNr' \in {writeEpochNr, writeEpochNr + 1}
      /\ outgoing' # <<CCS, Data>>
  <2>1. <<>> # <<CCS, Data>> /\ <<Data>> # <<CCS, Data>>
    OBVIOUS
  <2> QED
    BY <2>1, ProcessOutgoingEpochs
<1>5. /\ \A e \in DOMAIN epochs : e \in DOMAIN epochs'
            /\ epochs'[e].keys = epochs[e].keys
            /\ epochs'[e].writeSequenceNumber
                 = IF e = writeEpochNr THEN s + 1
                                       ELSE epochs[e].writeSequenceNumber
      /\ \A e \in DOMAIN epochs' : e \in DOMAIN epochs \/ epochs'[e].keys = NullKeys
  BY ProcessOutgoingEpochs DEF Grown, KeysKept, createEpoch, s
<1>6. writeEpochNr' = writeEpochNr + 1 =>
          epochs[writeEpochNr + 1].keys = KeysOf(writeEpochNr + 1)
  <2>1. writeEpochNr' = writeEpochNr + 1 => outgoing = <<CCS, Data>>
    BY <1>1, ProcessOutgoingEpochs
  <2> QED
    BY <2>1, <1>1 DEF SentInv
<1>7. ASSUME NEW e \in DOMAIN epochs'
      PROVE  /\ epochs'[e].keys \in {NullKeys, KeysOf(e)}
             /\ e <= writeEpochNr' => epochs'[e].keys = KeysOf(e)
  <2>1. e \in Int
    BY <1>1
  <2>2. CASE e \in DOMAIN epochs
    BY <2>1, <2>2, <1>1, <1>4, <1>5, <1>6 DEF SentInv
  <2>3. CASE e \notin DOMAIN epochs
    BY <2>1, <2>3, <1>1, <1>4, <1>5
  <2> QED
    BY <2>2, <2>3
<1>8. ASSUME NEW p \in sent'
      PROVE  /\ p.epoch \in 0 .. writeEpochNr'
             /\ p.sequence_number \in Int
             /\ p.sequence_number <= epochs'[p.epoch].writeSequenceNumber
             /\ p.keys = KeysOf(p.epoch)
  <2>1. CASE p = q
    BY <2>1, <1>1, <1>3, <1>4, <1>5 DEF SentInv
  <2>2. CASE p \in sent
    <3>1. /\ p.epoch \in 0 .. writeEpochNr /\ p.sequence_number \in Int
          /\ p.sequence_number <= epochs[p.epoch].writeSequenceNumber
          /\ p.keys = KeysOf(p.epoch)
      BY <2>2 DEF SentInv
    <3>2. p.epoch \in DOMAIN epochs
      BY <3>1, <1>1
    <3>3. p.sequence_number <= epochs'[p.epoch].writeSequenceNumber
      <4>1. CASE p.epoch = writeEpochNr
        <5>1. epochs'[p.epoch].writeSequenceNumber = s + 1
          BY <3>2, <4>1, <1>5
        <5>2. p.sequence_number <= s
          BY <3>1, <4>1 DEF s
        <5> QED
          BY <3>1, <5>1, <5>2, <1>1
      <4>2. CASE p.epoch # writeEpochNr
        <5>1. epochs'[p.epoch].writeSequenceNumber
                = epochs[p.epoch].writeSequenceNumber
          BY <3>2, <4>2, <1>5
        <5> QED
          BY <3>1, <5>1
      <4> QED
        BY <4>1, <4>2
    <3> QED
      BY <3>1, <3>3, <1>1, <1>4
  <2> QED
    BY <2>1, <2>2, <1>2
<1> QED
  BY <1>4, <1>7, <1>8 DEF SentInv

\* Every step keeps the invariant.
LEMMA NextSent == Shape /\ SentInv /\ [Next]_vars => SentInv'
<1> SUFFICES ASSUME Shape, SentInv, [Next]_vars PROVE SentInv'
  OBVIOUS
<1>0. /\ writeEpochNr \in DOMAIN epochs /\ writeEpochNr + 1 \in DOMAIN epochs
      /\ writeEpochNr \in Nat
  BY EpochTypes DEF Shape
<1>1. CASE InstallKeys
  <2>1. UNCHANGED <<outgoing, sent>>
    BY <1>1 DEF InstallKeys, sendVars, historyVars
  <2>2. writeEpochNr + 1 > 0 /\ writeEpochNr + 1 \in Nat
    BY <1>0
  <2>3. \A e \in DOMAIN epochs : epochs[e].keys # NullKeys =>
            epochs'[e].keys # NullKeys
    BY <1>1, InstallKeysEpochs
  <2> QED
    BY <1>0, <1>1, <2>1, <2>3, InstallKeysEpochs, SentFrame DEF SentInv
<1>2. CASE Filter
  <2>1. UNCHANGED <<outgoing, sent>>
    BY <1>2, FilterRecords
  <2> QED
    BY <1>0, <1>2, <2>1, FilterEpochs, SentFrame DEF SentInv, KeysKept
<1>3. CASE HandOn
  <2>1. UNCHANGED <<outgoing, sent>>
    BY <1>3 DEF HandOn, Mark, sendVars
  <2> QED
    BY <1>0, <1>3, <2>1, HandOnEpochs, SentFrame DEF SentInv, KeysKept
<1>4. CASE Dispatch
  <2>1. UNCHANGED <<outgoing, sent>>
    BY <1>4 DEF Dispatch, sendVars, historyVars
  <2> QED
    BY <1>0, <1>4, <2>1, DispatchEpochs, SentFrame DEF SentInv, KeysKept
<1>5. CASE \E msgs \in {<<Data>>, <<CCS, Data>>} : SendFlight(msgs)
  <2>1. PICK msgs \in {<<Data>>, <<CCS, Data>>} : SendFlight(msgs)
    BY <1>5
  <2>2. UNCHANGED <<epochs, writeEpochNr, sent>> /\ outgoing' = msgs
    BY <2>1 DEF SendFlight, layerVars, historyVars
  <2>3. msgs = <<CCS, Data>> => epochs[writeEpochNr + 1].keys # NullKeys
    <3>1. msgs = <<CCS, Data>> => CCS \in {msgs[i] : i \in DOMAIN msgs}
      OBVIOUS
    <3> QED
      BY <2>1, <3>1 DEF SendFlight
  <2> QED
    BY <2>2, <2>3 DEF SentInv
<1>6. CASE \E type \in {"application_data", "change_cipher_spec"} : PeerSend(type)
  BY <1>6 DEF PeerSend, SentInv, recordVars, layerVars, sendVars
<1>7. CASE Leave
  BY <1>7 DEF Leave, Transmit, SentInv, layerVars, historyVars
<1>8. CASE Deliver
  BY <1>8 DEF Deliver, Receive, SentInv, layerVars, sendVars, historyVars
<1>9. CASE UNCHANGED vars
  BY <1>9 DEF vars, recordVars, layerVars, sendVars, SentInv
<1> QED
  BY <1>1, <1>2, <1>3, <1>4, <1>5, <1>6, <1>7, <1>8, <1>9, ProcessOutgoingSent
     DEF Next

\* Shape and SentInv together are inductive.
LEMMA SentInvariant == Spec => [](Shape /\ SentInv)
  BY InitShape, InitSent, NextShape, NextSent, PTL DEF Spec

\* Records leave under the keys of the epoch they name, for every number of
\* epochs and every order of the two switches.
THEOREM SentUnderKeys == Spec => []SentUnderEpochKeys
<1>1. SentInv => SentUnderEpochKeys
  BY DEF SentInv, SentUnderEpochKeys
<1> QED
  BY <1>1, SentInvariant, PTL

\* No switch repeats or resets a counter: the next number is always fresh.
THEOREM NumbersFresh == Spec => []NextNumberIsFresh
<1>1. Shape /\ SentInv => NextNumberIsFresh
  <2> SUFFICES ASSUME Shape, SentInv, NEW p \in sent
               PROVE  Id(p) # <<writeEpochNr,
                               epochs[writeEpochNr].writeSequenceNumber + 1>>
    BY DEF NextNumberIsFresh
  <2>1. epochs[writeEpochNr].writeSequenceNumber \in Int
    BY EpochTypes
  <2> QED
    BY <2>1 DEF SentInv, Id
<1> QED
  BY <1>1, SentInvariant, PTL

\* No step gives an epoch other keys than those it has once derived.
THEOREM DerivedKeysStay == Spec => KeysStay
<1> DEFINE Stay == \A e \in DOMAIN epochs : epochs[e].keys # NullKeys =>
                      e \in DOMAIN epochs' /\ epochs'[e].keys = epochs[e].keys
<1>1. Shape /\ [Next]_vars => Stay
  <2> SUFFICES ASSUME Shape, [Next]_vars PROVE Stay
    OBVIOUS
  <2>1. CASE epochs' = epochs
    BY <2>1
  <2>2. CASE InstallKeys
    BY <2>2, InstallKeysEpochs
  <2>3. CASE ProcessOutgoing
    BY <2>3, ProcessOutgoingEpochs DEF Grown, KeysKept
  <2>4. CASE Filter
    BY <2>4, FilterEpochs DEF KeysKept
  <2>5. CASE HandOn
    BY <2>5, HandOnEpochs DEF KeysKept
  <2>6. CASE Dispatch
    BY <2>6, DispatchEpochs DEF Grown, KeysKept
  <2>7. ASSUME NEW type, PeerSend(type) PROVE epochs' = epochs
    BY <2>7 DEF PeerSend, recordVars, layerVars
  <2>8. ASSUME NEW msgs, SendFlight(msgs) PROVE epochs' = epochs
    BY <2>8 DEF SendFlight, layerVars
  <2>9. Leave \/ Deliver \/ UNCHANGED vars => epochs' = epochs
    BY DEF Leave, Transmit, Deliver, Receive, vars, recordVars, layerVars
  <2> HIDE DEF Stay
  <2> QED
    BY <2>1, <2>2, <2>3, <2>4, <2>5, <2>6, <2>7, <2>8, <2>9 DEF Next
<1> QED
  BY <1>1, SentInvariant, PTL DEF Spec, KeysStay

-----------------------------------------------------------------------------
(* Sequences of records.                                                    *)

\* What is left of a sequence without its first record.
LEMMA TailRecords ==
    ASSUME NEW S, NEW s \in Seq(S), s # <<>>
    PROVE  /\ Tail(s) \in Seq(S) /\ Head(s) = s[1] /\ 1 \in DOMAIN s
           /\ Head(s) \in S
           /\ \A i \in DOMAIN Tail(s) : i + 1 \in DOMAIN s /\ i + 1 # 1
                                     /\ i \in Int /\ Tail(s)[i] = s[i + 1]
  OBVIOUS

\* A record more.
LEMMA AppendRecord ==
    ASSUME NEW S, NEW s \in Seq(S), NEW x \in S
    PROVE  /\ Append(s, x) \in Seq(S)
           /\ Len(s) + 1 \in DOMAIN Append(s, x) /\ Append(s, x)[Len(s) + 1] = x
           /\ Len(s) \in Nat
           /\ DOMAIN Append(s, x) = DOMAIN s \cup {Len(s) + 1}
           /\ \A i \in DOMAIN s : i # Len(s) + 1 /\ i \in Int /\ i < Len(s) + 1
                               /\ Append(s, x)[i] = s[i]
  OBVIOUS

\* The ChangeCipherSpecs of a sequence, and how many there are.
IsCCS(p) == p.type = "change_cipher_spec"
CCSs(s)  == {i \in DOMAIN s : IsCCS(s[i])}
Count(s) == Cardinality(CCSs(s))

\* No two of them are of one epoch.
Apart(s) == \A i, j \in DOMAIN s :
    IsCCS(s[i]) /\ IsCCS(s[j]) /\ s[i].epoch = s[j].epoch => i = j

\* The count is a number.
LEMMA CountType ==
    ASSUME NEW S, NEW s \in Seq(S)
    PROVE  IsFiniteSet(CCSs(s)) /\ Count(s) \in Nat
<1>1. IsFiniteSet(DOMAIN s)
  BY FS_Interval
<1>2. IsFiniteSet(CCSs(s))
  BY <1>1, FS_Subset DEF CCSs
<1> QED
  BY <1>2, FS_CardinalityType DEF Count

\* There is none in the empty sequence.
LEMMA CountEmpty == Count(<<>>) = 0
<1>1. CCSs(<<>>) = {}
  BY DEF CCSs
<1> QED
  BY <1>1, FS_EmptySet DEF Count

\* A ChangeCipherSpec at the end counts.
LEMMA CountAppend ==
    ASSUME NEW S, NEW s \in Seq(S), NEW x \in S
    PROVE  Count(Append(s, x)) = IF IsCCS(x) THEN Count(s) + 1 ELSE Count(s)
<1> DEFINE n == Len(s) + 1
<1>1. /\ Append(s, x)[n] = x
      /\ DOMAIN Append(s, x) = DOMAIN s \cup {n}
      /\ \A i \in DOMAIN s : i # n /\ Append(s, x)[i] = s[i]
  BY AppendRecord
<1> HIDE DEF n
<1>2. CASE IsCCS(x)
  <2>1. CCSs(Append(s, x)) = CCSs(s) \cup {n} /\ n \notin CCSs(s)
    BY <1>1, <1>2 DEF CCSs
  <2> QED
    BY <2>1, <1>2, CountType, FS_AddElement DEF Count
<1>3. CASE ~ IsCCS(x)
  <2>1. CCSs(Append(s, x)) = CCSs(s)
    BY <1>1, <1>3 DEF CCSs
  <2> QED
    BY <2>1, <1>3 DEF Count
<1> QED
  BY <1>2, <1>3

\* Without the first element there is one less, if that was one.
LEMMA CountTail ==
    ASSUME NEW S, NEW s \in Seq(S), s # <<>>
    PROVE  Count(Tail(s)) <= IF IsCCS(Head(s)) THEN Count(s) - 1 ELSE Count(s)
<1> DEFINE T == CCSs(Tail(s))
           R == CCSs(s) \ {1}
           f == [i \in T |-> i + 1]
<1>1. /\ Tail(s) \in Seq(S) /\ Head(s) = s[1] /\ 1 \in DOMAIN s
      /\ \A i \in DOMAIN Tail(s) : i + 1 \in DOMAIN s /\ i + 1 # 1
                                /\ i \in Int /\ Tail(s)[i] = s[i + 1]
  BY TailRecords
<1>2. \A i \in T : i \in Int /\ i + 1 \in R
  BY <1>1 DEF CCSs
<1>3. f \in [T -> R]
  BY <1>2
<1>4. \A i, j \in T : f[i] = f[j] => i = j
  BY <1>2
<1>5. f \in Injection(T, R)
  BY <1>3, <1>4 DEF Injection, IsInjective
<1>6. IsFiniteSet(CCSs(s)) /\ Count(s) \in Nat /\ Count(Tail(s)) \in Nat
  BY <1>1, CountType
<1>7. IsFiniteSet(R)
      /\ Cardinality(R) = IF IsCCS(Head(s)) THEN Count(s) - 1 ELSE Count(s)
  <2>1. 1 \in CCSs(s) <=> IsCCS(Head(s))
    BY <1>1 DEF CCSs
  <2> QED
    BY <2>1, <1>6, FS_RemoveElement DEF Count
<1> HIDE DEF T, R, f
<1>8. Cardinality(T) <= Cardinality(R)
  BY <1>5, <1>7, FS_Injection
<1> QED
  BY <1>7, <1>8 DEF T, Count

\* Of different epochs, there are no more than epochs they can be of.
LEMMA CountApart ==
    ASSUME NEW S, NEW s \in Seq(S), Apart(s), NEW a \in Nat, NEW b \in Nat, a <= b,
           \A i \in DOMAIN s : IsCCS(s[i]) => s[i].epoch \in a .. b - 1
    PROVE  Count(s) <= b - a
<1> DEFINE C == CCSs(s)
           R == a .. b - 1
           f == [i \in C |-> s[i].epoch]
<1>1. f \in [C -> R]
  BY DEF CCSs
<1>2. \A i, j \in C : f[i] = f[j] => i = j
  BY DEF CCSs, Apart
<1>3. f \in Injection(C, R)
  BY <1>1, <1>2 DEF Injection, IsInjective
<1>4. IsFiniteSet(R) /\ Cardinality(R) = b - a
  <2> DEFINE c == b - 1
  <2>1. c \in Int
    OBVIOUS
  <2> HIDE DEF c
  <2>2. /\ IsFiniteSet(a .. c)
        /\ Cardinality(a .. c) = IF a > c THEN 0 ELSE c - a + 1
    BY <2>1, FS_Interval
  <2> QED
    BY <2>2 DEF c
<1> HIDE DEF C, R, f
<1>5. Cardinality(C) <= Cardinality(R)
  BY <1>3, <1>4, FS_Injection
<1> QED
  BY <1>4, <1>5 DEF C, Count

-----------------------------------------------------------------------------
(* The peer.                                                                *)

\* The peer numbers its records and ends each epoch once.
PeerInv ==
    /\ \A i \in DOMAIN peerSent :
          /\ peerSent[i].epoch <= PeerEpoch
          /\ peerSent[i].epoch = PeerEpoch => peerSent[i].sequence_number < PeerSeq
          /\ IsCCS(peerSent[i]) => peerSent[i].epoch < PeerEpoch
    /\ Apart(peerSent)

\* The peer has sent nothing.
LEMMA InitPeer == Init => PeerInv
  BY DEF Init, PeerInv, Apart

\* The peer's epoch and number are counts of its records.
LEMMA PeerCounts ==
    ASSUME peerSent \in Seq(Record)
    PROVE  /\ PeerEpoch = Count(peerSent) /\ PeerEpoch \in Nat
           /\ PeerSeq \in Nat
           /\ IsFiniteSet({i \in DOMAIN peerSent : peerSent[i].epoch = PeerEpoch})
<1>1. PeerEpoch = Count(peerSent)
  BY DEF PeerEpoch, Count, CCSs, IsCCS
<1>2. IsFiniteSet({i \in DOMAIN peerSent : peerSent[i].epoch = PeerEpoch})
  <2>1. IsFiniteSet(DOMAIN peerSent)
    BY FS_Interval
  <2> QED
    BY <2>1, FS_Subset
<1>3. PeerSeq \in Nat
  BY <1>2, FS_CardinalityType DEF PeerSeq
<1> QED
  BY <1>1, <1>2, <1>3, CountType

\* What the peer sends has its epoch's next number.
LEMMA PeerSendPeer ==
    ASSUME Shape, PeerInv, NEW type \in Types, PeerSend(type)
    PROVE  /\ PeerInv'
           /\ PeerEpoch' = IF type = "change_cipher_spec" THEN PeerEpoch + 1
                                                          ELSE PeerEpoch
           /\ UNCHANGED <<recordVars, delivered, doubled, sent>>
<1> DEFINE q == PeerRecord(type)
           n == Len(peerSent) + 1
<1>0. peerSent \in Seq(Record) /\ Shape'
  BY PeerSendShape DEF Shape
<1>1. /\ q.epoch = PeerEpoch /\ q.sequence_number = PeerSeq /\ q.type = type
      /\ PeerEpoch \in Nat /\ PeerSeq \in Nat
  BY <1>0, PeerCounts DEF PeerRecord
<1>2. peerSent' = Append(peerSent, q)
      /\ UNCHANGED <<recordVars, delivered, doubled, sent>>
  BY DEF PeerSend
<1>3. q \in Record
  <2>1. KeysOf(PeerEpoch) \in Keys
    BY <1>1 DEF KeysOf, Keys
  <2> QED
    BY <1>1, <2>1 DEF PeerRecord, Record, Datas
<1> HIDE DEF q
<1>4. /\ peerSent'[n] = q
      /\ DOMAIN peerSent' = DOMAIN peerSent \cup {n}
      /\ \A i \in DOMAIN peerSent : /\ i # n /\ i \in Int /\ i < n
                                    /\ peerSent'[i] = peerSent[i]
      /\ peerSent' \in Seq(Record) /\ n \in Nat
  BY <1>0, <1>2, <1>3, AppendRecord
<1>5. PeerEpoch' = IF IsCCS(q) THEN PeerEpoch + 1 ELSE PeerEpoch
  <2>1. PeerEpoch' = Count(peerSent)'
    BY DEF PeerEpoch, Count, CCSs, IsCCS
  <2>2. Count(peerSent') = IF IsCCS(q) THEN Count(peerSent) + 1 ELSE Count(peerSent)
    BY <1>0, <1>2, <1>3, CountAppend
  <2>3. PeerEpoch = Count(peerSent) /\ Count(peerSent)' = Count(peerSent')
    BY DEF PeerEpoch, Count, CCSs, IsCCS
  <2> QED
    BY <2>1, <2>2, <2>3
<1>6. ~ IsCCS(q) => PeerSeq' = PeerSeq + 1
  <2> SUFFICES ASSUME ~ IsCCS(q) PROVE PeerSeq' = PeerSeq + 1
    OBVIOUS
  <2> DEFINE S == {i \in DOMAIN peerSent : peerSent[i].epoch = PeerEpoch}
             R == {i \in DOMAIN peerSent' : peerSent'[i].epoch = PeerEpoch}
  <2>1. R = S \cup {n} /\ n \notin S
    BY <1>1, <1>4
  <2>2. PeerSeq' = Cardinality(R) /\ PeerSeq = Cardinality(S)
    BY <1>5 DEF PeerSeq
  <2>3. IsFiniteSet(S)
    BY <1>0, PeerCounts
  <2> HIDE DEF S, R
  <2> QED
    BY <2>1, <2>2, <2>3, FS_AddElement
<1> HIDE DEF n
<1>7. ASSUME NEW i \in DOMAIN peerSent'
      PROVE  /\ peerSent'[i].epoch <= PeerEpoch'
             /\ peerSent'[i].epoch = PeerEpoch' =>
                    peerSent'[i].sequence_number < PeerSeq'
             /\ IsCCS(peerSent'[i]) => peerSent'[i].epoch < PeerEpoch'
  <2>1. CASE i = n
    BY <2>1, <1>1, <1>4, <1>5, <1>6
  <2>2. CASE i \in DOMAIN peerSent
    <3>1. peerSent[i] \in Record
      BY <2>2, <1>0
    <3>2. /\ peerSent[i].epoch <= PeerEpoch
          /\ peerSent[i].epoch = PeerEpoch => peerSent[i].sequence_number < PeerSeq
          /\ IsCCS(peerSent[i]) => peerSent[i].epoch < PeerEpoch
      BY <2>2 DEF PeerInv
    <3>3. peerSent[i].epoch \in Nat /\ peerSent[i].sequence_number \in Nat
      BY <3>1 DEF Record
    <3> QED
      BY <2>2, <3>2, <3>3, <1>1, <1>4, <1>5, <1>6
  <2> QED
    BY <2>1, <2>2, <1>4
<1>8. Apart(peerSent')
  <2>1. \A i \in DOMAIN peerSent : IsCCS(peerSent[i]) => peerSent[i].epoch # q.epoch
    <3>1. \A i \in DOMAIN peerSent : peerSent[i] \in Record
      BY <1>0
    <3>2. \A p \in Record : p.epoch \in Nat
      BY DEF Record
    <3> QED
      BY <3>1, <3>2, <1>1 DEF PeerInv
  <2> QED
    BY <2>1, <1>4 DEF PeerInv, Apart
<1> QED
  BY <1>1, <1>2, <1>5, <1>7, <1>8 DEF PeerInv, IsCCS, Apart

\* A step that leaves the peer's records leaves all that is said of them.
LEMMA PeerFrame ==
    ASSUME PeerInv, peerSent' = peerSent
    PROVE  PeerInv' /\ PeerEpoch' = PeerEpoch
<1>1. PeerEpoch' = PeerEpoch /\ PeerSeq' = PeerSeq
  BY DEF PeerEpoch, PeerSeq
<1> QED
  BY <1>1 DEF PeerInv, Apart, IsCCS

\* Every step but a sending of the peer leaves its records.
LEMMA PeerIdle ==
    ASSUME [Next]_vars, \A type \in Types : ~ PeerSend(type)
    PROVE  peerSent' = peerSent
<1>1. InstallKeys => peerSent' = peerSent
  BY DEF InstallKeys, historyVars
<1>2. ASSUME NEW msgs, SendFlight(msgs) PROVE peerSent' = peerSent
  BY <1>2 DEF SendFlight, historyVars
<1>3. ProcessOutgoing => peerSent' = peerSent
  BY Zenon DEF ProcessOutgoing
<1>4. Filter => peerSent' = peerSent
  BY Zenon DEF Filter, historyVars
<1>5. HandOn => peerSent' = peerSent
  BY Zenon DEF HandOn
<1>6. Dispatch => peerSent' = peerSent
  BY Zenon DEF Dispatch, historyVars
<1>7. Leave \/ Deliver \/ UNCHANGED vars => peerSent' = peerSent
  BY DEF Leave, Deliver, vars, historyVars
<1> QED
  BY <1>1, <1>2, <1>3, <1>4, <1>5, <1>6, <1>7 DEF Next, Types

\* Every step keeps the invariant.
LEMMA NextPeer == Shape /\ PeerInv /\ [Next]_vars => PeerInv'
<1> SUFFICES ASSUME Shape, PeerInv, [Next]_vars PROVE PeerInv'
  OBVIOUS
<1>1. CASE \E type \in Types : PeerSend(type)
  BY <1>1, PeerSendPeer
<1>2. CASE \A type \in Types : ~ PeerSend(type)
  BY <1>2, PeerIdle, PeerFrame
<1> QED
  BY <1>1, <1>2

-----------------------------------------------------------------------------
(* What is handed on.                                                       *)

\* The window of an epoch remembers a number that was handed on.
Remembered(e, n) ==
    /\ e \in DOMAIN epochs /\ n \in Int
    /\ n <= epochs[e].antiReplayWindow.ceiling
    /\ n >= lowerBound(epochs[e].antiReplayWindow) =>
           hasReceived(epochs[e].antiReplayWindow, n)

\* What was handed on is remembered, and what is still to be marked is of an
\* epoch there is.
DupInv ==
    /\ \A i \in DOMAIN unmarked : unmarked[i].epoch \in DOMAIN epochs
    /\ delivered \subseteq Nat \X Nat
    /\ \A e, n : <<e, n>> \in delivered => Remembered(e, n)

\* Nothing has arrived.
LEMMA InitDup == Init => DupInv
  BY DEF Init, RecordInit, DupInv

\* Without the records being filtered, only what is handed on matters.
LEMMA DupFrame ==
    ASSUME Shape, DupInv, Grown, WindowsKept,
           UNCHANGED <<unmarked, delivered>>
    PROVE  DupInv'
<1>1. \A e, n : Remembered(e, n) => Remembered(e, n)'
  BY DEF Remembered, Grown, WindowsKept
<1>2. \A e \in DOMAIN epochs : e \in DOMAIN epochs'
  BY DEF Grown
<1> QED
  BY <1>1, <1>2 DEF DupInv

\* Nothing that is said depends on more than these variables.
LEMMA DupIdle ==
    ASSUME DupInv, UNCHANGED <<epochs, unmarked, delivered>>
    PROVE  DupInv'
<1>1. \A e, n : Remembered(e, n) => Remembered(e, n)'
  BY DEF Remembered
<1> QED
  BY <1>1 DEF DupInv

\* A record the filter lets through was not handed on before.
LEMMA PassesOnce ==
    ASSUME Shape, DupInv, NEW p \in Record, PassesFilter(p)
    PROVE  Id(p) \notin delivered /\ p.epoch \in DOMAIN epochs
<1> SUFFICES ASSUME Id(p) \in delivered PROVE FALSE
  BY DEF PassesFilter
<1> DEFINE w == epochs[p.epoch].antiReplayWindow
           s == p.sequence_number
<1>1. p.epoch \in DOMAIN epochs /\ mayReceive(w, s)
  BY DEF PassesFilter
<1>2. s \in Int /\ w \in Window
  BY <1>1, EpochTypes DEF Record
<1>3. s <= w.ceiling /\ (s >= lowerBound(w) => hasReceived(w, s))
  BY DEF DupInv, Remembered, Id
<1> HIDE DEF w, s
<1>4. w.ceiling \in Int /\ width \in Nat
  BY <1>2, FreshEpoch DEF Window
<1>5. s >= lowerBound(w) /\ ~ hasReceived(w, s)
  BY <1>1, <1>2, <1>3, <1>4 DEF mayReceive, lowerBound
<1> QED
  BY <1>3, <1>5

\* A record that is kept is of an epoch there is.
LEMMA FilterDup ==
    ASSUME Shape, DupInv, Filter
    PROVE  DupInv'
<1> DEFINE p == Head(datagram)
           q == Plain(p)
<1>1. /\ p \in Record /\ delivered' = delivered
      /\ \/ unmarked' = unmarked
         \/ PassesFilter(p) /\ unmarked' = Append(unmarked, q)
  BY FilterRecords
<1>2. q \in Record /\ q.epoch = p.epoch
  BY <1>1, PlainRecord
<1>3. unmarked \in Seq(Record)
  BY DEF Shape
<1> HIDE DEF p, q
<1>4. /\ DOMAIN epochs' = DOMAIN epochs
      /\ \A e, n : Remembered(e, n) => Remembered(e, n)'
  BY FilterEpochs DEF Remembered, WindowsKept
<1>5. ASSUME NEW i \in DOMAIN unmarked' PROVE unmarked'[i].epoch \in DOMAIN epochs
  <2>1. CASE unmarked' = unmarked
    BY <1>5, <2>1 DEF DupInv
  <2>2. CASE PassesFilter(p) /\ unmarked' = Append(unmarked, q)
    <3>1. p.epoch \in DOMAIN epochs
      BY <2>2 DEF PassesFilter
    <3>2. /\ unmarked'[Len(unmarked) + 1] = q
          /\ DOMAIN unmarked' = DOMAIN unmarked \cup {Len(unmarked) + 1}
          /\ \A j \in DOMAIN unmarked : unmarked'[j] = unmarked[j]
      BY <1>2, <1>3, <2>2, AppendRecord
    <3> QED
      BY <1>2, <1>5, <3>1, <3>2 DEF DupInv
  <2> QED
    BY <1>1, <2>1, <2>2
<1> QED
  BY <1>1, <1>4, <1>5 DEF DupInv

\* The record that is handed on is remembered from then on, and what was
\* handed on before still is.
LEMMA HandOnDup ==
    ASSUME Shape, DupInv, HandOn
    PROVE  DupInv'
<1> DEFINE p == Head(unmarked)
           s == p.sequence_number
<1>1. /\ p \in Record /\ unmarked # <<>> /\ DOMAIN epochs' = DOMAIN epochs
      /\ \A e \in DOMAIN epochs :
            epochs'[e].antiReplayWindow =
                IF e = p.epoch THEN markAsReceived(epochs[e].antiReplayWindow, s)
                               ELSE epochs[e].antiReplayWindow
  BY HandOnEpochs
<1>2. unmarked' = Tail(unmarked) /\ delivered' = delivered \cup {Id(p)}
  BY Zenon DEF HandOn, Mark
<1>3. unmarked \in Seq(Record)
  BY DEF Shape
<1>4. /\ p = unmarked[1] /\ 1 \in DOMAIN unmarked
      /\ \A i \in DOMAIN unmarked' : /\ i + 1 \in DOMAIN unmarked
                                     /\ unmarked'[i] = unmarked[i + 1]
  BY <1>1, <1>2, <1>3, TailRecords
<1>5. p.epoch \in Nat /\ s \in Nat
  <2> HIDE DEF p
  <2> QED
    BY <1>1 DEF Record
<1>6. p.epoch \in DOMAIN epochs
  BY <1>4 DEF DupInv
<1> HIDE DEF p, s
<1>7. ASSUME NEW e, NEW n, <<e, n>> \in delivered'
      PROVE  Remembered(e, n)'
  <2> DEFINE w == epochs[e].antiReplayWindow
  <2>1. \/ Remembered(e, n)
        \/ e = p.epoch /\ n = s
    <3>1. <<e, n>> = Id(p) => e = p.epoch /\ n = s
      BY DEF Id, s
    <3> QED
      BY <1>2, <1>7, <3>1 DEF DupInv
  <2>2. e \in DOMAIN epochs /\ n \in Int /\ s \in Int
    BY <2>1, <1>5, <1>6 DEF Remembered
  <2>3. w \in Window
    BY <2>2, EpochTypes
  <2>4. CASE e # p.epoch
    BY <1>1, <2>1, <2>2, <2>4 DEF Remembered
  <2>5. CASE e = p.epoch
    <3> DEFINE v == markAsReceived(w, s)
    <3>1. epochs'[e].antiReplayWindow = v
      BY <1>1, <2>2, <2>5
    <3>2. n = s \/ (n <= w.ceiling /\ (n >= lowerBound(w) => hasReceived(w, n)))
      BY <2>1 DEF Remembered
    <3> HIDE DEF w
    <3>3. v \in Window /\ v.ceiling = IF s > w.ceiling THEN s ELSE w.ceiling
      BY <2>2, <2>3, MarkType
    <3>4. w.ceiling \in Int /\ width \in Nat
      BY <2>3, FreshEpoch DEF Window
    <3> HIDE DEF v
    <3>5. n <= v.ceiling
      BY <2>2, <3>2, <3>3, <3>4
    <3>6. n >= lowerBound(v) => n = s \/ hasReceived(w, n)
      BY <2>2, <3>2, <3>3, <3>4 DEF lowerBound
    <3>7. n >= lowerBound(v) => hasReceived(v, n)
      BY <2>2, <2>3, <3>6, MarkSets DEF v
    <3> QED
      BY <1>1, <2>2, <3>1, <3>5, <3>7 DEF Remembered
  <2> QED
    BY <2>4, <2>5
<1>8. \A i \in DOMAIN unmarked' : unmarked'[i].epoch \in DOMAIN epochs'
  BY <1>1, <1>4 DEF DupInv
<1>9. delivered' \subseteq Nat \X Nat
  BY <1>2, <1>5 DEF DupInv, Id, s
<1> QED
  BY <1>7, <1>8, <1>9 DEF DupInv

\* Every step keeps the invariant.
LEMMA NextDup == Shape /\ DupInv /\ [Next]_vars => DupInv'
<1> SUFFICES ASSUME Shape, DupInv, [Next]_vars PROVE DupInv'
  OBVIOUS
<1>1. CASE InstallKeys
  <2>1. UNCHANGED <<unmarked, delivered>>
    BY <1>1 DEF InstallKeys, receiveVars, historyVars
  <2> QED
    BY <1>1, <2>1, InstallKeysEpochs, DupFrame
<1>2. CASE ProcessOutgoing
  <2>1. UNCHANGED <<unmarked, delivered>>
    BY <1>2, Zenon DEF ProcessOutgoing, processOutgoingMessage, receiveVars
  <2> QED
    BY <1>2, <2>1, ProcessOutgoingEpochs, DupFrame
<1>3. CASE Dispatch
  <2>1. UNCHANGED <<unmarked, delivered>>
    BY <1>3, Zenon DEF Dispatch, NextMessage, historyVars
  <2> QED
    BY <1>3, <2>1, DispatchEpochs, DupFrame
<1>4. ASSUME NEW msgs, SendFlight(msgs) PROVE DupInv'
  <2>1. UNCHANGED <<epochs, unmarked, delivered>>
    BY <1>4 DEF SendFlight, layerVars, receiveVars, historyVars
  <2> QED
    BY <2>1, DupIdle
<1>5. ASSUME NEW type, PeerSend(type) PROVE DupInv'
  <2>1. UNCHANGED <<epochs, unmarked, delivered>>
    BY <1>5 DEF PeerSend, recordVars, layerVars, receiveVars
  <2> QED
    BY <2>1, DupIdle
<1>6. CASE Leave \/ UNCHANGED vars
  <2>1. UNCHANGED <<epochs, unmarked, delivered>>
    BY <1>6 DEF Leave, Transmit, vars, recordVars, layerVars, receiveVars, historyVars
  <2> QED
    BY <2>1, DupIdle
<1>7. CASE Deliver
  <2>1. UNCHANGED <<epochs, unmarked, delivered>>
    BY <1>7, DatagramRecords DEF layerVars
  <2> QED
    BY <2>1, DupIdle
<1> QED
  BY <1>1, <1>2, <1>3, <1>4, <1>5, <1>6, <1>7, FilterDup, HandOnDup DEF Next

\* Only the filter adds to what is to be marked, and only one record at a time.
LEMMA LongerByFilter ==
    ASSUME Shape, [Next]_vars, Len(unmarked') > Len(unmarked)
    PROVE  Filter
<1>0. Len(unmarked) \in Nat
  BY DEF Shape
<1> SUFFICES ASSUME ~ Filter PROVE unmarked' = unmarked \/ Len(unmarked') < Len(unmarked)
  BY <1>0
<1>1. CASE HandOn
  <2>1. unmarked' = Tail(unmarked) /\ unmarked # <<>> /\ unmarked \in Seq(Record)
    BY <1>1, Zenon DEF HandOn, Mark, Shape
  <2> QED
    BY <2>1
<1>2. ASSUME NEW msgs, SendFlight(msgs) PROVE unmarked' = unmarked
  BY <1>2 DEF SendFlight, receiveVars
<1>3. ASSUME NEW type, PeerSend(type) PROVE unmarked' = unmarked
  BY <1>3 DEF PeerSend, recordVars, receiveVars
<1>4. ProcessOutgoing \/ Dispatch => unmarked' = unmarked
  BY Zenon DEF ProcessOutgoing, processOutgoingMessage, receiveVars, Dispatch,
               NextMessage
<1>5. InstallKeys \/ Leave \/ UNCHANGED vars => unmarked' = unmarked
  BY DEF InstallKeys, Leave, Transmit, vars, recordVars, receiveVars
<1>6. Deliver => unmarked' = unmarked
  BY DatagramRecords
<1> QED
  BY <1>1, <1>2, <1>3, <1>4, <1>5, <1>6 DEF Next

\* Whatever the network duplicates and reorders and however it packs records
\* into datagrams, none that was handed on passes the filter in a later one.
THEOREM DeliveredOnce == Spec => NoneDeliveredTwice
<1> DEFINE Once == Len(unmarked') > Len(unmarked) =>
                       Id(unmarked'[Len(unmarked')]) \notin delivered
<1>1. Shape /\ DupInv /\ [Next]_vars => Once
  <2> SUFFICES ASSUME Shape, DupInv, [Next]_vars, Len(unmarked') > Len(unmarked)
               PROVE  Id(unmarked'[Len(unmarked')]) \notin delivered
    OBVIOUS
  <2> DEFINE p == Head(datagram)
             q == Plain(p)
  <2>1. unmarked \in Seq(Record) /\ Filter
    BY LongerByFilter DEF Shape
  <2>2. ~ Len(unmarked) > Len(unmarked)
    BY <2>1
  <2>3. p \in Record /\ PassesFilter(p) /\ unmarked' = Append(unmarked, q)
    BY <2>1, <2>2, FilterRecords
  <2>4. Id(p) \notin delivered /\ Id(q) = Id(p)
    BY <2>3, PassesOnce, PlainRecord
  <2> HIDE DEF p, q
  <2>5. unmarked'[Len(unmarked')] = q
    BY <2>1, <2>3
  <2> QED
    BY <2>4, <2>5
<1>2. Init => Shape /\ DupInv
  BY InitShape, InitDup
<1>3. Shape /\ DupInv /\ [Next]_vars => (Shape /\ DupInv)'
  BY NextShape, NextDup
<1> HIDE DEF Once
<1>4. [Next]_vars /\ Shape /\ DupInv => [Once]_vars
  BY <1>1
<1> QED
  BY <1>1, <1>2, <1>3, PTL DEF Spec, NoneDeliveredTwice, Once

-----------------------------------------------------------------------------
(* The read epoch.                                                          *)

\* Switches of the read epoch that are due: the ChangeCipherSpecs let through.
Due == Count(messages) + Count(unmarked)

\* They do not lead past the peer.  While a datagram is filtered, those of its
\* ChangeCipherSpecs that were let through and those still to be filtered are
\* all of different epochs; the former are of epochs not read to the end.
ReadInv ==
    /\ readEpochNr + Due <= PeerEpoch
    /\ datagram # <<>> =>
          /\ messages = <<>>
          /\ Apart(datagram) /\ Apart(unmarked)
          /\ \A j \in DOMAIN datagram : IsCCS(datagram[j]) =>
                 datagram[j].epoch < PeerEpoch
          /\ \A i \in DOMAIN unmarked : IsCCS(unmarked[i]) =>
                 /\ unmarked[i].epoch >= readEpochNr
                 /\ unmarked[i].epoch < PeerEpoch
                 /\ \A j \in DOMAIN datagram : IsCCS(datagram[j]) =>
                        unmarked[i].epoch # datagram[j].epoch

\* Both sides are in epoch 0.
LEMMA InitRead == Init => ReadInv
<1> SUFFICES ASSUME Init PROVE ReadInv
  OBVIOUS
<1>1. /\ readEpochNr = 0 /\ messages = <<>> /\ unmarked = <<>> /\ datagram = <<>>
      /\ peerSent = <<>> /\ peerSent \in Seq(Record)
  BY DEF Init, RecordInit
<1>2. Due = 0 /\ PeerEpoch = 0
  <2>1. PeerEpoch = Count(peerSent)
    BY <1>1, PeerCounts
  <2> QED
    BY <1>1, <2>1, CountEmpty DEF Due
<1> QED
  BY <1>1, <1>2 DEF ReadInv

\* The counts are numbers.
LEMMA ReadTypes ==
    ASSUME Shape
    PROVE  /\ Count(messages) \in Nat /\ Count(unmarked) \in Nat /\ Due \in Nat
           /\ readEpochNr \in Nat /\ PeerEpoch \in Nat
           /\ messages \in Seq(Message) /\ unmarked \in Seq(Record)
           /\ datagram \in Seq(Record)
           /\ \A j \in DOMAIN datagram : datagram[j].epoch \in Nat
           /\ \A i \in DOMAIN unmarked : unmarked[i].epoch \in Nat
<1>1. messages \in Seq(Message) /\ unmarked \in Seq(Record)
      /\ datagram \in Seq(Record) /\ peerSent \in Seq(Record) /\ readEpochNr \in Nat
  BY DEF Shape
<1>2. \A p \in Record : p.epoch \in Nat
  BY DEF Record
<1> QED
  BY <1>1, <1>2, CountType, PeerCounts DEF Due

\* ... the numbers among them.
LEMMA ReadNumbers ==
    ASSUME Shape
    PROVE  /\ Count(messages) \in Nat /\ Count(unmarked) \in Nat /\ Due \in Nat
           /\ readEpochNr \in Nat /\ PeerEpoch \in Nat
BY ReadTypes

\* A step that neither filters nor switches keeps the invariant.
LEMMA ReadIdle ==
    ASSUME Shape, ReadInv, PeerEpoch' \in Nat, PeerEpoch' >= PeerEpoch,
           UNCHANGED <<readEpochNr, datagram, unmarked, messages>>
    PROVE  ReadInv'
<1>1. Due' = Due
  BY DEF Due, Count, CCSs, IsCCS
<1>2. readEpochNr' + Due' <= PeerEpoch'
  BY <1>1, ReadNumbers DEF ReadInv
<1>3. ASSUME NEW e \in Nat, e < PeerEpoch PROVE e < PeerEpoch'
  BY <1>3, ReadNumbers
<1>4. /\ \A j \in DOMAIN datagram : datagram[j].epoch \in Nat
      /\ \A i \in DOMAIN unmarked : unmarked[i].epoch \in Nat
  BY ReadTypes
<1> QED
  BY <1>2, <1>3, <1>4 DEF ReadInv, Apart, IsCCS

\* The ChangeCipherSpecs of a datagram that holds none twice are of different
\* epochs, as the peer ends each epoch with one.
LEMMA DeliverRead ==
    ASSUME Shape, PeerInv, ReadInv, Deliver, ~ doubled'
    PROVE  ReadInv'
<1>1. /\ UNCHANGED <<readEpochNr, messages, unmarked, peerSent>>
      /\ messages = <<>> /\ unmarked = <<>>
      /\ ~ HoldsCCSTwice(datagram')
      /\ \A k \in DOMAIN datagram' : datagram'[k] \in InNetwork
  BY DatagramRecords DEF layerVars
<1>2. Due = 0 /\ Due' = 0 /\ PeerEpoch' = PeerEpoch
  BY <1>1, CountEmpty DEF Due, PeerEpoch
<1>3. ASSUME NEW k \in DOMAIN datagram', IsCCS(datagram'[k])
      PROVE  \E i \in DOMAIN peerSent : datagram'[k] = peerSent[i]
  <2>1. \A p \in Stale : ~ IsCCS(p)
    BY LinkAssumption DEF StaleRecord, IsCCS
  <2> QED
    BY <1>1, <1>3, <2>1 DEF InNetwork
<1>4. \A k \in DOMAIN datagram' :
          IsCCS(datagram'[k]) => datagram'[k].epoch < PeerEpoch
  BY <1>3 DEF PeerInv
<1>5. Apart(datagram')
  <2> SUFFICES ASSUME NEW k \in DOMAIN datagram', NEW l \in DOMAIN datagram',
                      IsCCS(datagram'[k]), IsCCS(datagram'[l]),
                      datagram'[k].epoch = datagram'[l].epoch, k # l
               PROVE  FALSE
    BY DEF Apart
  <2>1. datagram'[k] = datagram'[l]
    BY <1>3 DEF PeerInv, Apart
  <2> QED
    BY <1>1, <2>1 DEF HoldsCCSTwice, IsCCS
<1>6. readEpochNr + Due <= PeerEpoch
  BY DEF ReadInv
<1> QED
  BY <1>1, <1>2, <1>4, <1>5, <1>6 DEF ReadInv, Apart, IsCCS

\* While a datagram is filtered, the ChangeCipherSpecs let through are of
\* different epochs between the one read and the one the peer is in: there are
\* no more of them than switches the peer is ahead.
LEMMA FilterRead ==
    ASSUME Shape, ReadInv, Filter
    PROVE  ReadInv'
<1> DEFINE p == Head(datagram)
           q == Plain(p)
<1>1. /\ datagram # <<>> /\ datagram' = Tail(datagram) /\ p \in Record
      /\ messages' = messages /\ peerSent' = peerSent
      /\ \/ unmarked' = unmarked
         \/ PassesFilter(p) /\ unmarked' = Append(unmarked, q)
      /\ readEpochNr' = readEpochNr
  BY FilterRecords, FilterEpochs
<1>2. q \in Record /\ q.epoch = p.epoch /\ (IsCCS(q) <=> IsCCS(p))
  BY <1>1, PlainRecord DEF IsCCS
<1>3. /\ p = datagram[1] /\ 1 \in DOMAIN datagram
      /\ \A j \in DOMAIN datagram' : /\ j \in Int /\ j + 1 # 1
                                     /\ j + 1 \in DOMAIN datagram
                                     /\ datagram'[j] = datagram[j + 1]
  BY <1>1, ReadTypes, TailRecords
<1> HIDE DEF p, q
<1>4. PeerEpoch' = PeerEpoch /\ PeerEpoch \in Nat /\ readEpochNr \in Nat
      /\ messages = <<>> /\ messages' = <<>> /\ p.epoch \in Nat
  BY <1>1, <1>3, ReadTypes DEF PeerEpoch, ReadInv
<1>5. /\ Apart(datagram')
      /\ \A j \in DOMAIN datagram' : IsCCS(datagram'[j]) =>
            /\ datagram'[j].epoch < PeerEpoch
            /\ IsCCS(p) => datagram'[j].epoch # p.epoch
  <2>1. Apart(datagram)
        /\ \A j \in DOMAIN datagram : IsCCS(datagram[j]) =>
               datagram[j].epoch < PeerEpoch
    BY <1>1 DEF ReadInv
  <2>2. \A j, k \in DOMAIN datagram' : j + 1 = k + 1 => j = k
    BY <1>3
  <2> QED
    BY <2>1, <2>2, <1>3 DEF Apart
<1>6. unmarked' \in Seq(Record)
  BY FilterShape DEF Shape
<1>7. /\ Apart(unmarked')
      /\ \A i \in DOMAIN unmarked' : IsCCS(unmarked'[i]) =>
            /\ unmarked'[i].epoch >= readEpochNr
            /\ unmarked'[i].epoch < PeerEpoch
            /\ \A j \in DOMAIN datagram' : IsCCS(datagram'[j]) =>
                   unmarked'[i].epoch # datagram'[j].epoch
  <2>1. /\ Apart(unmarked)
        /\ \A i \in DOMAIN unmarked : IsCCS(unmarked[i]) =>
              /\ unmarked[i].epoch >= readEpochNr
              /\ unmarked[i].epoch < PeerEpoch
              /\ IsCCS(p) => unmarked[i].epoch # p.epoch
              /\ \A j \in DOMAIN datagram' : IsCCS(datagram'[j]) =>
                     unmarked[i].epoch # datagram'[j].epoch
    BY <1>1, <1>3 DEF ReadInv
  <2>2. CASE unmarked' = unmarked
    BY <2>1, <2>2
  <2>3. CASE PassesFilter(p) /\ unmarked' = Append(unmarked, q)
    <3>1. p.epoch >= readEpochNr /\ (IsCCS(p) => p.epoch < PeerEpoch)
      BY <1>1, <1>3, <2>3 DEF PassesFilter, ReadInv
    <3>2. /\ unmarked'[Len(unmarked) + 1] = q
          /\ DOMAIN unmarked' = DOMAIN unmarked \cup {Len(unmarked) + 1}
          /\ \A j \in DOMAIN unmarked : unmarked'[j] = unmarked[j]
      BY <1>2, <2>3, ReadTypes, AppendRecord
    <3>3. Apart(unmarked')
      BY <1>2, <2>1, <3>2 DEF Apart
    <3> QED
      BY <1>2, <1>5, <2>1, <3>1, <3>2, <3>3
  <2> QED
    BY <1>1, <2>2, <2>3
<1>8. readEpochNr + Due' <= PeerEpoch
  <2>1. readEpochNr <= PeerEpoch
    BY ReadTypes DEF ReadInv
  <2>2. \A i \in DOMAIN unmarked' : unmarked'[i].epoch \in Nat
    <3>1. \A x \in Record : x.epoch \in Nat
      BY DEF Record
    <3> QED
      BY <1>6, <3>1
  <2>3. \A i \in DOMAIN unmarked' : IsCCS(unmarked'[i]) =>
            unmarked'[i].epoch \in readEpochNr .. PeerEpoch - 1
    BY <1>4, <1>7, <2>2
  <2>4. Count(unmarked') <= PeerEpoch - readEpochNr
    BY <1>4, <1>6, <1>7, <2>1, <2>3, CountApart
  <2>5. Due' = Count(messages') + Count(unmarked')
    BY DEF Due, Count, CCSs, IsCCS
  <2>6. Count(messages') = 0 /\ Count(unmarked') \in Nat
    BY <1>4, <1>6, CountEmpty, CountType
  <2> QED
    BY <1>4, <2>4, <2>5, <2>6
<1> QED
  BY <1>1, <1>4, <1>5, <1>7, <1>8 DEF ReadInv, Apart, IsCCS

\* Marking makes no switch due that was not.
LEMMA HandOnRead ==
    ASSUME Shape, ReadInv, HandOn
    PROVE  ReadInv'
<1> DEFINE p == Head(unmarked)
           m == [type |-> p.type, data |-> p.data]
<1>1. /\ unmarked' = Tail(unmarked) /\ messages' = Append(messages, m)
      /\ peerSent' = peerSent /\ datagram' = <<>>
  BY Zenon DEF HandOn, Mark
<1>2. p \in Record /\ unmarked # <<>> /\ readEpochNr' = readEpochNr
  BY HandOnEpochs
<1>3. m \in Message /\ (IsCCS(m) <=> IsCCS(p))
  <2> HIDE DEF p
  <2> QED
    BY <1>2 DEF Record, Message, IsCCS
<1> HIDE DEF m
<1>4. Count(unmarked)' = Count(Tail(unmarked))
      /\ Count(messages)' = Count(Append(messages, m))
  BY <1>1 DEF Count, CCSs, IsCCS
<1>5. /\ Count(Tail(unmarked)) <= IF IsCCS(p) THEN Count(unmarked) - 1
                                              ELSE Count(unmarked)
      /\ Tail(unmarked) \in Seq(Record)
  BY <1>2, ReadTypes, CountTail
<1>6. Count(Append(messages, m)) = IF IsCCS(p) THEN Count(messages) + 1
                                               ELSE Count(messages)
  BY <1>3, ReadTypes, CountAppend
<1>7. Count(Tail(unmarked)) \in Nat
  BY <1>5, CountType
<1> HIDE DEF p
<1>8. Due' <= Due /\ Due' \in Nat
  BY <1>4, <1>5, <1>6, <1>7, ReadNumbers DEF Due
<1>9. PeerEpoch' = PeerEpoch
  BY <1>1 DEF PeerEpoch
<1> QED
  BY <1>1, <1>2, <1>8, <1>9, ReadNumbers DEF ReadInv

\* A switch that is made is no longer due.
LEMMA DispatchRead ==
    ASSUME Shape, ReadInv, Dispatch
    PROVE  ReadInv'
<1>1. /\ UNCHANGED <<datagram, unmarked, peerSent>>
      /\ datagram = <<>> /\ unmarked = <<>>
  BY DEF Dispatch, NextMessage, Receiving, historyVars
<1>2. Count(messages)' = Count(Tail(messages))
      /\ Count(unmarked)' = Count(unmarked)
  BY <1>1, DispatchEpochs DEF Count, CCSs, IsCCS
<1>3. messages # <<>> /\ messages \in Seq(Message) /\ Tail(messages) \in Seq(Message)
  BY DispatchEpochs, ReadTypes
<1>4. Count(Tail(messages)) <= (IF IsCCS(Head(messages)) THEN Count(messages) - 1
                                                         ELSE Count(messages))
      /\ Count(Tail(messages)) \in Nat
  BY <1>3, CountTail, CountType
<1>5. readEpochNr' = IF IsCCS(Head(messages)) THEN readEpochNr + 1 ELSE readEpochNr
  BY DispatchEpochs DEF IsCCS
<1>6. readEpochNr' + Due' <= readEpochNr + Due
  <2>1. Due' = Count(Tail(messages)) + Count(unmarked)
    BY <1>2 DEF Due
  <2>2. CASE IsCCS(Head(messages))
    BY <2>1, <2>2, <1>4, <1>5, ReadNumbers DEF Due
  <2>3. CASE ~ IsCCS(Head(messages))
    BY <2>1, <2>3, <1>4, <1>5, ReadNumbers DEF Due
  <2> QED
    BY <2>2, <2>3
<1>7. PeerEpoch' = PeerEpoch
  BY <1>1 DEF PeerEpoch
<1>8. readEpochNr' \in Nat /\ Due' \in Nat
  BY <1>2, <1>4, <1>5, ReadNumbers DEF Due
<1> QED
  BY <1>1, <1>6, <1>7, <1>8, ReadNumbers DEF ReadInv

\* Every step keeps the invariant, as long as no datagram holds a
\* ChangeCipherSpec twice.
LEMMA NextRead ==
    Shape /\ PeerInv /\ (~ doubled => ReadInv) /\ [Next]_vars
        => (~ doubled => ReadInv)'
<1> SUFFICES ASSUME Shape, PeerInv, ~ doubled => ReadInv, [Next]_vars, ~ doubled'
             PROVE  ReadInv'
  OBVIOUS
<1>0. ReadInv /\ PeerEpoch \in Nat
  <2>1. Deliver => (doubled => doubled')
    BY DatagramRecords
  <2>2. ASSUME NEW type, PeerSend(type) PROVE doubled' = doubled
    BY <2>2 DEF PeerSend
  <2>3. ASSUME NEW msgs, SendFlight(msgs) PROVE doubled' = doubled
    BY <2>3 DEF SendFlight, historyVars
  <2>4. ProcessOutgoing \/ HandOn => doubled' = doubled
    BY Zenon DEF ProcessOutgoing, HandOn
  <2>5. InstallKeys \/ Leave \/ Filter \/ Dispatch \/ UNCHANGED vars
            => doubled' = doubled
    BY Zenon DEF InstallKeys, Leave, Filter, Dispatch, vars, historyVars
  <2> QED
    BY <2>1, <2>2, <2>3, <2>4, <2>5, ReadTypes DEF Next
<1>1. CASE \E type \in Types : PeerSend(type)
  <2>1. PICK type \in Types : PeerSend(type)
    BY <1>1
  <2>2. UNCHANGED <<readEpochNr, datagram, unmarked, messages>>
    BY <2>1 DEF PeerSend, recordVars, layerVars, receiveVars
  <2>3. PeerEpoch' \in Nat /\ PeerEpoch' >= PeerEpoch
    BY <2>1, <1>0, PeerSendPeer
  <2> QED
    BY <1>0, <2>2, <2>3, ReadIdle
<1>2. ASSUME UNCHANGED <<peerSent, readEpochNr, datagram, unmarked, messages>>
      PROVE  ReadInv'
  <2>1. PeerEpoch' = PeerEpoch
    BY <1>2 DEF PeerEpoch
  <2> QED
    BY <1>0, <1>2, <2>1, ReadIdle
<1>3. CASE InstallKeys \/ Leave \/ UNCHANGED vars
  <2>1. UNCHANGED <<peerSent, readEpochNr, datagram, unmarked, messages>>
    BY <1>3 DEF InstallKeys, Leave, Transmit, vars, recordVars, layerVars,
                receiveVars, historyVars
  <2> QED
    BY <1>2, <2>1
<1>4. ASSUME NEW msgs, SendFlight(msgs) PROVE ReadInv'
  <2>1. UNCHANGED <<peerSent, readEpochNr, datagram, unmarked, messages>>
    BY <1>4 DEF SendFlight, layerVars, receiveVars, historyVars
  <2> QED
    BY <1>2, <2>1
<1>5. CASE ProcessOutgoing
  <2>1. UNCHANGED <<peerSent, readEpochNr, datagram, unmarked, messages>>
    BY <1>5, Zenon DEF ProcessOutgoing, processOutgoingMessage, receiveVars
  <2> QED
    BY <1>2, <2>1
<1> QED
  BY <1>0, <1>1, <1>3, <1>4, <1>5, DeliverRead, FilterRead, HandOnRead, DispatchRead
     DEF Next, Types

\* A ChangeCipherSpec that is duplicated, reordered or sent again never takes the
\* read epoch past the one the peer is in, unless a datagram holds it twice.
THEOREM ReadStaysBehindPeer == Spec => []ReadFollowsPeer
<1> DEFINE Reads == ~ doubled => ReadInv
<1>1. Shape /\ Reads => ReadFollowsPeer
  BY ReadTypes DEF ReadInv, ReadFollowsPeer
<1>2. Init => Reads
  BY InitRead
<1>3. Shape /\ PeerInv /\ Reads /\ [Next]_vars => Reads'
  BY NextRead
<1> HIDE DEF Reads
<1> QED
  BY <1>1, <1>2, <1>3, InitShape, InitPeer, NextShape, NextPeer, PTL DEF Spec
=============================================================================
