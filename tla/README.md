# Verification of node-dtls-client

TLA+ models of the DTLS 1.2 client in `src/`, the TLC configurations that check
them on small instances, and TLAPS proofs. The reference is the code; where a
comment, the README or a test of the repository says something else, the run
that shows the difference is named as such. Paths below are relative to the
repository root.

## 1. Inventory

The library is a client: a `Socket` (`src/dtls.ts`) owns a UDP socket of Node's
`dgram`, a `RecordLayer`, and a `ClientHandshakeHandler`. Everything runs on one
event loop: a datagram, a timer, a send callback or a call of the user starts a
piece of code that runs to completion. Concurrency is therefore the order of
those events, and the order in which the network delivers.

| component | state | operations | talks to |
|---|---|---|---|
| Anti-replay window (`TLS/AntiReplayWindow.ts`) | two 32-bit integers of bits, a ceiling | reset, mayReceive, hasReceived, markAsReceived | one per epoch, used by the record layer; reset by the handshake for a compat option |
| Record layer (`DTLS/RecordLayer.ts`, `TLS/ConnectionState.ts`) | epochs with keys, cached cipher delegates, window and write counter; read and write epoch | send/sendFlight, receive, advanceReadEpoch, advanceWriteEpoch, nextEpochNr | UDP socket below, handler and socket above |
| Fragmentation (`DTLS/Handshake.ts`) | none; the handler keeps the fragments | isFragmented, findAllFragments, isComplete, split, reassemble | used by the handler |
| Client handshake (`DTLS/HandshakeHandler.ts`) | sequence numbers, fragments, complete messages, expected responses, transcript | processIncomingMessage, the three `handle[...]`, sendFlight, needsToHashMessage, computeVerifyData | record layer; finished callback into the socket |
| Socket (`dtls.ts`) | connected/finished/closed flags, one timer, buffered messages | connecting, message loop, close, send, sendAlert, killConnection, two timeouts | user (events), UDP socket |
| Key derivation (`TLS/PRF.ts`, `TLS/PreMasterSecret.ts`, `TLS/ConnectionState.ts`) | master secret and key material, per epoch | computeMasterSecret, key block | handshake |
| Ciphers (`TLS/CipherSuite.ts`, `TLS/BlockCipher.ts`, `TLS/AEADCipher.ts`, `lib/AEADCrypto.ts`) | none | encipher, decipher, padding, MAC, nonce, additional data | record layer |
| Codec (`TLS/TLSStruct.ts`, `TLS/TypeSpecs.ts`, `TLS/Vector.ts`, `lib/BitConverter.ts`, `lib/util.ts`) | none | serialize, from, numberToBuffer, bufferToNumber | everything |
| Message definitions (`DTLS/Handshake.ts`, `DTLS/DTLS*.ts`, `TLS/Alert.ts`, ...) | none | layouts, toFragment, fromFragment | record layer, handler |
| Helpers (`lib/strings.ts`, `lib/object-polyfill.ts`) | none | formatting, property helpers | - |

What is hard in it, and what would make each part correct:

- **Window.** `>>>` and `<<` take their count modulo 32, a jump moves bits within
  and between two integers, and the window is checked (`filter`) for all records
  of a datagram before any of them is marked. Correct: nothing is accepted
  twice, nothing accepted is forgotten while it is in the window.
- **Record layer.** Read and write epoch move separately, in either order; the
  write epoch moves in the middle of a flight; records of the upcoming epoch
  are let in before its keys exist; the decipher delegate is made on first use.
  Correct: no record handed on from two datagrams, no number used twice, every
  record under its epoch's keys, no epoch created anew.
- **Fragmentation.** Fragments come in any order, between other messages, again,
  and with other lengths. Correct: a message is assembled once its bytes are
  there, and never with bytes missing.
- **Handshake.** The client never sends anything again, so a lost message ends
  in the timeout; the server may repeat, the network may duplicate, reorder and
  lose; the transcript of both sides must agree byte for byte; application data
  may overtake the Finished. Correct: both ends finish in order and on one
  transcript, the user hears one verdict, in time.
- **Records.** A number has six bytes on the wire and four in `>>>`; a vector at
  the end of a message may be empty, left out, or cut; a length may promise bytes
  that are not there; padding must not be empty; the transcript gets received
  messages serialised anew. Correct: what one end wrote the other reads, field by
  field, and a cipher lets nothing else through.
- **Socket.** Two timers share one field; `close()` ends in a callback; the loop
  over the messages of a datagram goes on after one of them has killed the
  socket; the user's listener runs inside a `try` of the handler and may call
  `close()`. Correct: one end is reported, nothing once the loop at work is through, and the
  UDP socket is released.

`PROJECT.json` lists each hazard at its line with the properties that cover it.

## 2. Modules

| module | models | composition |
|---|---|---|
| `AntiReplayWindow` | the class as operators on window records; every bit of every integer, any `INT_SIZE` and number of `Blocks` | |
| `IdealWindow` | what its comments promise: an exact set of received numbers | abstract specification |
| `SlidingWindow` | one window as the record layer uses it: check, then mark | extends `AntiReplayWindow`, implements `IdealWindow` |
| `RecordLayer` | the class `RecordLayer` with epochs and delegates, as actions | extends `AntiReplayWindow` |
| `RecordLink` | a record layer between user and peer over a bad network | extends `RecordLayer` |
| `FragmentedHandshake` | the class as operators on fragments | |
| `FragmentReassembly` | the part of `processIncomingMessage` that stores messages, with a peer that transmits its flight twice | extends `FragmentedHandshake` |
| `MutualFinish` | what a handshake promises its two ends | abstract specification |
| `ClientHandshake` | handler, finished callback, message loop and timer over the record layer, with an honest PSK server and a faulty network | extends `RecordLayer`, `FragmentedHandshake`; implements `MutualFinish` |
| `DtlsSocket` | the life of a `Socket`, the handshake reduced to its outcome | |
| `Bytes` | a byte: a number, or a name of what it was made from | |
| `Codec` | `TLSStruct`, `Vector`, `TypeSpecs`, `BitConverter`: values to bytes and back, on type descriptions | extends `Bytes` |
| `Messages` | the layout of every record and message, `toFragment`, `fromFragment` | extends `Codec` |
| `RecordProtection` | key block, suites, both delegates of block and AEAD ciphers | extends `Bytes` |
| `RecordExchange` | a datagram from the messages its writer sends to those its reader gets, byte by byte | extends `Messages`, `RecordProtection` |
| `OperatorLemmas` | lemmas on the window's operators, on `Filtered`, on sequences and least elements | extends `AntiReplayWindow`, `FragmentedHandshake` |
| `SlidingWindowProofs`, `RecordLinkProofs`, `FragmentReassemblyProofs`, `DtlsSocketProofs`, `RecordProtectionProofs`, `ClientHandshakeProofs`, `RecordExchangeProofs` | theorems, section 4 | extend the module they are about; `RecordExchangeProofs` also uses `RecordProtectionProofs` |
| `MC*` | the small instances | |

How state and actions correspond to the code:

- Fields keep their names. `epochs[e].decipher` is the cached delegate behind the
  getter `Decipher`; it holds the keys it was made for. A record on the wire
  carries the keys it was encrypted under, so deciphering succeeds exactly when
  the keys are the same; the NULL suite hands anything on, which is then
  `Garbled`. What happens to its bytes is in `RecordExchange`.
- `receive()` and `sendFlight()` are loops over records. Each takes one step
  per record (`Discard`, `Decipher`, `Mark`, `processOutgoingMessage`), and
  `Busy` keeps everything else out until the loop is done, as the event loop
  does. The two passes of `receive()` stay two passes: `Mark` needs
  `datagram = <<>>`.
- `processIncomingMessage` is `Collect` (store, or assemble, and see whether a
  flight is complete) or, when a flight is complete, the handler of its last
  message, in one step with `expectedResponses`, `lastProcessedSeqNum`,
  `completeMessages` and the transcript. A flight a handler sends enters
  `outgoing` in that step and is processed before the loop goes on, as the call
  is synchronous. The code sorts the keys of `completeMessages` and looks for a
  gap; `FlightEndsAt` says the same of the set of keys: it is the interval after
  `lastProcessedSeqNum`.
- Sorting and filtering fragments are written without recursion: `Filtered`
  numbers the positions that are kept, and `isComplete` compares each fragment
  with the one that would stand before it (`Before`, `Preceding`), which is what
  a stable sort followed by a loop over neighbours does.
- The finished callback has its three ends as operators: `FinishConnected`,
  `FinishAlert` (its `nextStep` runs in `AlertSent`, when the alert has left) and
  `FinishThrown`.
- In `DtlsSocket` a datagram is a sequence of messages; `loop` is what the `for`
  of `udp_onMessage` has not taken yet. Callbacks of the UDP socket are steps of
  their own. A listener may call `close()` (`MayClose`) or, where the handler's
  `try` catches it, throw (`ConnectedThrows`). `crashed` stands for an exception
  nothing catches: dgram throws when it is closed or used after it is closed.
- In `Codec` a type is what `TypeSpecs.define` makes of it, and a structure's value
  the sequence of its properties. A byte past the end of a buffer makes a number
  `NaN`, bytes nothing was copied to are `Unwritten`, and an exception is the end
  `Thrown`. Both are `Base`-ary: the code's base is 256. `TLSStruct` and `Vector`
  call each other; here each level has operators of its own, for the deepest
  structure there is, a message with a vector of extensions: a leaf (number or
  buffer), an item (a leaf, or a structure of leaves), a property (an item, or a
  vector of items), and the structure of properties. Loops over properties and
  items are functions of the number of turns (`propertiesFrom`, `itemsFrom`).
- `fits` says which values a type describes: numbers its bytes hold, contents no
  longer than their maximum, an optional vector left out at the end only. It is no
  part of the code's behaviour; assumptions and theorems are stated with it.
- In `RecordProtection` lengths are real and cryptography is symbolic: a byte of a
  MAC, tag or ciphertext names key, nonce, position and content, so a delegate
  finds it genuine exactly when all of these are the same. A changed byte of CBC
  garbles its own block and hits one byte of the next.
- Definitions marked `external` model what is not in the repository: the peer,
  the network, `dgram` and the event loop, and the crypto library.

A definition with the comment `Mutant:` is not part of any specification. It is
a plausible bug in the definition that follows it, and the property it is paired
with in `PROJECT.json` fails when it takes that definition's place.

## 3. Runs

Every run stays with TLC's defaults, `CHECK_DEADLOCK FALSE` where the system stops:
a handshake that is finished with nothing left to send, a socket that is closed,
a fragment store that got everything, a datagram that is read, and bounded
counters.

| run | states | what it shows |
|---|---|---|
| `window` | 127,876 | `INT_SIZE` 3, two integers, numbers to 15. Jumps below, at and above one integer and the whole window occur, from every bitmap. Accepted numbers are remembered and never let through again; `IdealWindow` is implemented. |
| `window_exact` | - | counterexample to `OnlyReceivedIsMarked`, see section 6 |
| `record_link` | 1,240,821 | Two switches of the write epoch and two of the read epoch, either first, each before, between and after application data; or many records of the peer in few epochs. Any datagram of one or two of the peer's records, or of one of an earlier association, in any order, late, again, packed anew, or never. Windows of two numbers and four record numbers in an epoch of the peer, so windows shift. |
| `record_link_repeated` | - | counterexample to `HandedOnOnce`: a datagram that holds one record twice |
| `record_link_stale` | - | counterexample to `DeliveredWasDeciphered` |
| `fragments` | 33,136 | messages of 3, 2 and no fragments, two transmissions, every order |
| `fragments_overlap` | - | counterexample to `WholeTransmissionAssembles` when the transmissions have different lengths |
| `handshake` | 32,703 | Servers with and without identity hint, with and without cookie exchange, strict and lenient, with suites the client cannot use, with a repeated flight, with record numbers that start again, with the compat option and without; up to two faults of the network, in which fragments, overtaking, duplicates and losses meet. In `quick` scenarios the handshake is faster than its timer: each kind of server on a clean network and on one that duplicates. Compatible servers get connected, their data arrives, incompatible ones are reported; section 6 has the two exceptions for servers that start their record numbers again. |
| `handshake_repeated` | - | counterexample to `NoCompleteFlightWaits` |
| `socket` | 7,989 | three datagrams, also with messages behind an alert; three calls of `close()` by the user, by listeners and for the peer's close_notify, one error of the UDP socket, both timeouts, and listeners that throw, in every order |
| `socket_after_end` | - | counterexample to `NothingAfterEnd`: messages behind a fatal alert in its datagram |
| `records` | 167,722 | Datagrams of one to three records under six suites: every kind of message, with empty, short and full vectors and without; content of every length from 0 to 17, which is every rest modulo the block sizes 8 and 16. They come from the other end, back to their writer, or from an earlier association; of the exposed ones every byte is changed, by one up or down, and every end cut off. Under a cipher nothing else of the current epoch is handed on. Record numbers start at 0, before a carry, and at the last number that fits an integer. |

Bounds and why they are enough. `INT_SIZE` and `Blocks`: 32 and 2 in the code; a
small integer makes every alignment of a jump occur, and the theorems of section 4
hold for every size. `MaxEpoch` 2: epoch 1 is reached by a switch from the initial
epoch and epoch 2 by one from an epoch made by a switch, the two cases
`ensureNextEpoch` has. `MaxRecords` 8, of both sides: four records of one epoch of
the peer with what it takes to get there and back, or both switches of both sides
with data around them, but not both at once. `MaxPacked` 2: the smallest datagram in
which filtering before marking matters. `MaxWrite` 2, numbers 0 to 2: a write switch
comes first in an epoch, after one application record, and after two, and the
Finished behind it takes a number of the next. `Changes` `{1, Base - 1}`: a byte goes
up or down by one, past either end of its values. `MTU` 1 with a ServerHello of two
bytes: one message comes in fragments and others do not. `maxFaults` 2: a second
fault can hit the recovery from the first. `MaxDatagrams`, `MaxCloses` 3, `MaxErrors`
1: every pair of ways to end a connection meets, and a third follows. `Base` 32:
numbers of six bytes stay within TLC's integers, and every type, length and padding
of the messages fits one byte; `INT_BYTES` stays 4, so numbers are truncated where
the code truncates them. Handshake scenarios are listed in `MCClientHandshake.tla`;
one is chosen initially. The record windows of the handshake run are wide enough (16
numbers) not to drop anything but duplicates, which is what 64 are to a handshake.

Fairness. `RecordLink`, `RecordExchange` and the fragment modules have none: only
safety is checked. `ClientHandshake` has one condition,
`WF_vars(Driven \/ Timeout)`: as long as the event loop has work, a datagram the
network did not lose, or a timer, something of it happens. The timer is a
`setTimeout` the code sets and only clears when the handshake is over. It gives no
order and no promise to a single action. Nothing forces the server to retransmit or
to send data, and nothing the network to commit a fault. In `quick` scenarios
`Timeout` is disabled; they are used for what a user may expect when the timeout is
long enough, and `HandshakeEnds` is claimed of the others.
`DtlsSocket` has `WF_vars(Driven)`: due callbacks and timers run; binding, errors,
datagrams and the user owe nothing.

## 4. Proofs

### The window: `SlidingWindowProofs`

For every `INT_SIZE`, every number of blocks and every set of sequence numbers.
Assumptions: `INT_SIZE` and `Blocks` are positive, sequence numbers are naturals.

- The inductive invariant is `IInv == TypeOK /\ RememberedInWindow /\
  CeilingIsHighest`. `NeverAcceptedAgain` is not inductive by itself: an accepted
  number is refused because its bit is set while it is in the window
  (`RememberedInWindow`), and because it is below the window afterwards; for the
  second the ceiling must never be below an accepted number
  (`CeilingIsHighest`), or `mayReceive` could take it for one that is ahead.
- The work is in the lemmas about operators, in `OperatorLemmas`: `Split`,
  `SplitUnique` (position = `INT_SIZE` * block + bit), `Blockwise` (what is left
  after whole blocks is in `1 .. INT_SIZE`), `ShiftKeeps` (a set bit reappears
  `amount` positions lower, also across the border of two integers and also when
  the rest is exactly `INT_SIZE`, where JavaScript's shift does nothing),
  `MarkSets`.
- `WindowInvariant`, `WindowShape` (`TypeOK`), `CeilingHighest`, `AtMostOnce`
  (`NeverAcceptedAgain`), `Remembers`, and `WindowImplementsIdeal`
  (`ImplementsIdeal`): every step is an `Accept` of the ideal window. Bits that are
  set too much, the finding `window_exact`, make the window accept less than the
  ideal one, never more, which is why the theorem holds.

### The record layer: `RecordLinkProofs`

For windows of every size, any number of epochs, records and datagrams, and any
records of the network in a datagram, in any order and repetition. Assumption
(`LinkAssumption`): `MaxWrite` and `MaxPacked` are naturals, and what is left of an
earlier association is application data under that association's keys.

- `Shape` is the type invariant with the shape of records in flight; `LinkTypes`.
- `SentInv`: an epoch has no keys or its own, its own up to the write epoch, and
  what was sent in it is numbered below its counter. From it `SentUnderKeys`
  (`SentUnderEpochKeys`) and `NumbersFresh` (`NextNumberIsFresh`); `DerivedKeysStay`
  (`KeysStay`) needs the shape only: a new epoch is made above the highest.
- `DupInv` gives `DeliveredOnce` (`NoneDeliveredTwice`): each record handed on is
  remembered by its epoch's window, or below it (`Remembered`, from the lemmas on
  windows), and the windows do not change while a datagram is filtered. What passes
  the filter was therefore not handed on before its datagram came. Within that
  datagram it may stand twice, finding `record_link_repeated`, and be handed on twice;
  that is why the theorem is about what passes and not about what is handed on.
- `ReadInv` counts the ChangeCipherSpecs that were let through and not yet handled
  (`Due`): read epoch and those together are never above the peer's epoch. The peer
  ends each epoch once (`PeerInv`), so those of one datagram are of different epochs
  (`Apart`), those let through are of epochs not read to the end, and those still
  to be filtered are of others. It holds as long as no datagram has held one
  ChangeCipherSpec twice (`doubled`), the condition of `ReadStaysBehindPeer`
  (`ReadFollowsPeer`): such a datagram advances the read epoch twice.

### Bytes under protection: `RecordProtectionProofs`

For every content, key material, block size and parameters within what the suites
state. No specification here, but theorems about operators: `WholeBlocks` and
`PaddingUndone` (padding fills whole blocks, and stripping it gives back what was
padded, for every length), `AEADUndone` and `BlockUndone` (the other end's delegate
gives back what one end's enciphered), `KeysCutApart` (`SlicesApart` for every suite:
the property `KeysApart` of the run `records` without its suites). The arithmetic
rests on lemmas about division (`Division`, `NoRest`, `PaddingFills`).

`OnlyAuthenticPasses` is about both kinds of cipher and every suite that has one:
what a delegate accepts was written by the other end, under the keys of this
association, with that content, and under that header. The record that arrives is
arbitrary, with one condition (`Arrives`): its bytes of tags and of CBC ciphertexts
come from records that were written, by any end in any association, in whatever order
and choice. The content that was written is assumed to be numbers (`Contents`), and a
byte that is no number to be read as a natural (`ChanceAssumption`, used for the
length of the padding). The argument: the last byte of the tag, or of the MAC that is
left when the padding is off, names key, header and content (`AEADAuthentic`,
`BlockAuthentic`); for a block cipher that byte comes out of a ciphertext, where a
record hides its content, its MAC and padding and nothing else (`BlockReveals`); and
a key tells its end and association, as the slices of a key block differ and the
block names its secret and random values (`KeysTell`, which needs that the key that
authenticates is not empty in any suite, `SuiteKeys`). That tags and MACs are equal
only if made alike is how bytes are modelled, in `Bytes`. A header has its number
modulo `NumberLimit`, as it is on the wire. `OnlyAuthentic`, the property of the run
`records`, is about whole datagrams and their parsing as well; the next section has it.

### Datagrams, byte by byte: `RecordExchangeProofs`

All six properties of the run `records`, for every base, every list of messages
that can be encoded, every set of suites, and every record number to start from.
Assumptions, which the run evaluates:

- `BaseAssumption`, `NumberAssumption`: a byte has more than 23 values, so that the
  content types are bytes, and numbers are written modulo the fourth power of the
  base, the 32 bits of `>>>=` (`Chance`, what a garbled byte is read as, is one of the
  values).
- `NoNumbers`: `NaN`, `Infinity` and an exception are no naturals.
- `ChangesAssumption`: what may be added to a byte is less than a byte and not zero.
- `SuitesAssumption`: the suites are in the table of `CipherSuites.ts` (the PSK ones
  and the NULL suite). `FirstAssumption`: record numbers are naturals.
- `DatagramAssumption`: messages are `Encodable`: the fields of a body have values of
  their types, `extra` is nothing but the empty vector at the end the code would leave
  out, and a content is at least 128 bytes shorter than what a record's length can
  say (the headers of a handshake message and a cipher add less than that). A
  datagram has at most `width` records: the filter drops what is further ahead.

*The codec.* `StructuresReadBack`: where the bytes of a value that `fits` its type
stand in a buffer, whatever is around them, `from` gives the value back and ends
where they end. If the last property takes what is left of the buffer, or is left
out, the buffer has to end there, or in the second case an empty vector has to
follow (`Closes`). The levels of the codec each have a
lemma (`NumberRead`, `LeafRead`, `ItemRead`, `VectorRead`, `PropertyRead`,
`LeftOutRead`, `WholeRead`), and two cover what the loops do: `AllInTurn` for the
properties of a structure, `AllInLoop` for the items of a vector, up to the end its
length announces and no further. Numbers are read back through `numberToBuffer`'s
divisions by `QuotientOfQuotient`. The other direction is `AnyRecord`: whatever the
bytes are, a record that is parsed without an exception has a number in each field
of its header, and a content of bytes that arrived or of bytes nothing was copied to.

That needs induction over lengths. The library's induction theorems take an operator
as a parameter; here the property is a set of naturals that holds 0 and with `n` also
`n + 1` (`Inductive`), and a recursive function is what its equation says because
`Repeated` builds one: a function on `0 .. n` with a first value and a step.

*The inductive invariant* `Inv` (that is `State` of the variables), of which none of
the checked properties is a part as it stands:

- `Writes`: what was written are the packets of encodable messages, numbered one after
  the other from `first`, and each ends where its record does.
- `Carries`: every record that ends before the damage stands in the datagram where it
  was written, and a byte of a tag or of a CBC block anywhere in it is one of a record
  that was written (`Known`). The second half holds of damaged bytes too, and is
  what makes `OnlyAuthenticPasses` apply to whatever is parsed from them.
- `PacketOK`: what was parsed is a packet of such bytes with a complete header.
- `Reads`: how far parsing and deciphering have come. Of the unharmed records `k` are
  parsed and `h` of them deciphered; the packets between are theirs, the parser stands
  where the next one starts, and what was received are the safe ones among the first `h`
  (those with a number an integer holds). Without the place at which the parser stands
  one record read too far would not contradict anything.
- `Authentics`: what was handed on under keys was written by the other end.

There is one lemma per action (`WriteStep`, `ChangeStep`, `ParseStep`,
`DecipherStep`); `InvariantHolds` puts them together. The hard cases are a record
number beyond 2^32, which starts again from 0 and must be refused by the filter, not
read as another record (`WrappedRefused`, `SameRest`: two numbers of one datagram
cannot be equal modulo 2^32 when there are no more than `width` of them), and a record
of the epoch after this one, whose suite is still the NULL suite: it passes, as in
finding `record_link_stale`, and `OnlyAuthentic` says nothing about it.

`TypesAreRight` (`TypeOK`), `ReadAsWritten` (`ReadsWhatWasWritten`), `MessagesUnderstood`
(`UnderstandsMessages`), `HashesMatch` (`HashedAsReceived`) and `OnlyAuthenticReceived`
(`OnlyAuthentic`) follow from `Inv`; the two on handshake messages use
`StructuresReadBack` for the fragment in the record and for the body in the fragment.
`KeysAreApart` (`KeysApart`) is `KeysCutApart` for the suite in use.

### Fragments: `FragmentReassemblyProofs`

For all messages, both fragment lengths and every order of arrival. Assumption
(`PeerAssumption`): fragment lengths are positive, and two messages differ in type,
number or length.

- `Types` and `EveryByteWritten` (`NoUnwrittenByte`) hold for two lengths: the first
  fragment by offset starts at 0, each next one starts no later than one past the
  end of its predecessor, and the last one ends the message. That no byte is skipped
  is an argument about the fragment with the greatest offset not above a
  position; the library's induction theorems take operators as arguments and
  cannot be used, so the lemma `Least` (a set of naturals has a least element) is
  derived from the well-foundedness of `Nat`.
- `KeptIncomplete` (`KeptOnlyIfIncomplete`, from `Lacking`) and `WholeAssembles`
  (`WholeTransmissionAssembles`, from `NothingLost`: what arrived is kept or was
  assembled) need `FirstLength = SecondLength`. With different lengths they are
  false, finding `fragments_overlap`.

### The handshake: `ClientHandshakeProofs`

For every set of scenarios (servers, faults, any number of retransmissions), window
size and MTU. Assumptions: `MTU` is positive (`MTUAssumption`), and session keys are
not the NULL suite's (`KeysAssumption`).

- `DataComesAfter` (`DataAfterConnected`, which no run checks: the run `socket` has
  `EventOrder`). `OrderInv` adds that the buffer holds only
  data and that `connected` was told once the handshake is finished. The lemma
  `StepTells` sorts all actions by what they tell the user; the rest are four cases.
- `VerdictIsOne` (`OneVerdict`). Two verdicts could come from the timer, an alert,
  the callback of an alert that was sent, an exception, and the Finished. `NetInv`
  follows every message from the server to the handler: an alert on its way means
  that the server has failed, a Finished that it is done, and it is never both.
  `Settled` covers the rest: after either verdict no flight is expected any more, or
  the server has failed, or, when the timer has closed the Socket, nothing is in the
  pipeline and no listener left to fill it.
- `ConnectedUnderKeys` (`ConnectedIsEncrypted`). The epochs are switched once each,
  the write epoch before the server is done, the read epoch after that, and both
  before the handshake is finished (`SwitchInv`). The write epoch, as the server is
  only done when it got something encrypted, and nothing is encrypted before the
  ChangeCipherSpec (`SendInv`). The read epoch, as the server's Finished cannot be
  verified under the NULL suite. Once: a ChangeCipherSpec between its datagram and
  the handler is the only one, and one read later is of epoch 0, which the filter then
  refuses (`PipeInv`, `CcsAlone`). `EpochsInv` says that no delegate is cached before
  the keys are there: records of epoch 1 come only from a server that is done.
  The finding `record_link_stale` does not contradict this: there is no record of an
  earlier association in these scenarios.
- `HandshakeTypes` (`TypeOK`).
- `MutuallyFinished` (`FinishesMutually`): the handshake implements `MutualFinish`. A
  Finished on its way, kept or handled is over the transcript of a server that is
  done, and that transcript does not change any more (`FinishInv`, `DoneStays`). What
  the client compares it with is then the same transcript, so `FinishConnected` is a
  `ClientFinishes` with equal views; no other step after `connected` touches the
  client's, as no flight is expected (`Settled`).
- `DataIsInOrder` (`DataInOrder`). What the Socket buffers until the handshake is
  finished, what was told, and what is on its way through the loop are one list of
  what came, in that order (`BufferInv`); the callback that empties the buffer tells
  all of it before anything later.
- `CookieServersAccept` (`CookieServerAccepts`): a server with a cookie exchange finds
  its own transcript in the client's Finished, whatever it may do otherwise and
  whatever the network does. Four invariants on top of each other. `OriginInv` says of
  every handshake message, from the datagram on its way to the fragments and complete
  messages of the handler, that the server made it: which message it is, under which
  number, for which transcript. `StageInv` says where the handler is: what it expects,
  which number it has processed last, and what its own transcript is at that
  point, message by message. `SentInv` says what the client has said, in which order,
  in full flights. From these `ServedInv`: the transcript of the server is the one both
  have agreed on so far, when it answers a flight as well as when it is done. The
  condition on the cookie is used once, at the first ClientHello: without the
  exchange the two have different transcripts (section 6).
- `FlightsTaken` (`FlightsAreTaken`): what has arrived of an expected flight is never
  left waiting for a message that cannot come. The danger is a message that enters
  `completeMessages` under a number that was processed, as nothing takes it out
  again. Against it stands only the window, which knows record numbers and no
  messages; the two are tied together by `OnceInv`. Each message of the server begins
  in one record number (`OneNumber`: a server that does not repeat itself never gives
  its first fragment a second number); once the handler has got that fragment, the
  window of its epoch is closed to the number (`Shut`); and what has passed the window
  and is not marked yet begins nothing the handler has (`Ahead`, since a datagram is
  filtered as a whole before any of it is marked). So what the handler keeps is kept
  once and not processed (`HandlerOnce`), and as the message that ends a flight is the
  last one the server has sent by then (`EndsAll`, from `StageInv`), the kept numbers
  are the interval `FlightEndsAt` asks for. With the compat option the window is
  emptied under a HelloVerifyRequest that was handled; it is let through again unless
  the ServerHello takes its number. `Slot` counts the two as one, which is what the
  condition `compat => restarts` is for.

### The Socket: `DtlsSocketProofs`

For any set of datagrams and any bounds. Assumption (`DatagramsAssumption`):
datagrams are sequences of the kinds of messages there are, also behind an alert.

- `IInv` adds two parts to the checked properties. `CloseInv` accounts for
  whoever closed the UDP socket: if it is closed, then by `killConnection`, or by a
  `close()` whose callback is no longer pending (`killed \/ pendingCloses <
  closes`); an exception then needs a second end on top, which is
  `SingleEndIsSafe`. `EndInv` says that a Socket that is not closed has told no
  end, without which `OneEnd` is not inductive.
- `killConnection` is called from six places; `KillIInv` treats it once, and the
  action lemmas cite it. There is one lemma per action or group of actions that
  make the same calls, and `NextIInv` puts them together.
- Theorems: `SocketInvariant`, `SocketTypes` (`TypeOK`), `Released`
  (`HandleReleased`), `EndsOnce` (`OneEnd`), `Watched` (`NeverUnwatched`),
  `EndingOnceIsSafe` (`SingleEndIsSafe`).
- `EventsInOrder` (`EventOrder`) needs a second invariant, `OrderInv`, proved on top
  of the first: before the handshake is finished nothing but an end was told,
  afterwards `connected` was, and it is finished once. It holds without a condition
  on what arrives or on the listeners: data behind a fatal alert is buffered as long
  as the handshake is not finished, and a Finished behind it tells `connected`
  before it empties the buffer.
- `Silence` (`SilentAfterEnd`): a told end means a closed Socket (`EndInv`) and so a
  closed UDP socket (`HandleReleased`), from which no datagram comes any more, and
  `killConnection` returns early. What the loop at work still tells, finding
  `socket_after_end`, is excluded by `loop = <<>>`.

### Only model-checked

- Liveness under fairness (`HandshakeEnds`, `EventuallyConnected`, `DataArrives`,
  `FailureIsReported`, `Settles`, `CloseCompletes`) and `ENABLED`, which the prover
  does not have.

## 5. Not modelled

- Cryptography itself: ciphers, hashes and randomness are symbolic (section 2).
  The hash chain in `PRF.ts` is a function of its arguments. Suites with a key
  exchange other than PSK take the `default` branch of the flight's `switch`
  (`HandshakeHandler.ts:420`) as the NULL suite does, which the scenario suite
  `null` stands for; an id that is not in the table of suites leaves no suite to
  read, the scenario suite `unknown`.
- Compression (always NULL) and checks of versions (there are none).
- Messages of the handshake a server would not send: an unknown `msg_type` makes
  `fromFragment` throw outside the handler's `try`, a listed hazard; so does a body
  that does not parse. `Codec` has what they do (`Thrown`), the handshake does not
  have a server that sends them.
- Exceptions of user listeners other than those of `connected` and of the messages
  emitted with it, which are in `DtlsSocket`: they leave the event handler and end
  the process. A listener for `error` that calls `close()`, and `close()` before the
  UDP socket is bound, use an object that is not there and throw at their caller;
  nothing changes.
- In `ClientHandshake` an alert of the server is the only record of its datagram. What
  stands behind an alert is in `DtlsSocket`.
- `Socket.send` as an action of `DtlsSocket`: it changes no field of a `Socket`.
  `RecordLink` sends application data.
- The window of 64 numbers being left behind by a long loss: what comes after is
  refused, as the comment in `AntiReplayWindow.ts` intends; it is part of
  `IdealWindow`.
- A server that starts a new handshake; `renegotiate()` has no other caller than
  the constructor.
- 64-bit numbers and `bufferToByteArray` of the codec, which nothing uses, and the
  helpers in `lib/strings.ts` and `lib/object-polyfill.ts`.

## 6. Where code and comments disagree

1. `window_exact`: `markAsReceived` with a jump of 32 (or one that leaves 32 after
   whole blocks) leaves old bits where new numbers are, since `x >>> 32` is `x`.
   Numbers that never arrived are refused as duplicates.
2. `record_link_stale`: a record of epoch 1 that arrives before the keys of epoch 1
   passes the filter and is "deciphered" by the NULL suite. Its ciphertext is
   handed on, and the cached delegate keeps the NULL suite for all of the epoch.
3. `fragments_overlap`: `isComplete` compares each range with the previous one
   only. A short fragment behind a longer one at the same offset looks like a
   hole, and the message is never assembled.
4. `handshake_repeated`: messages of a repeated flight enter `completeMessages`
   under numbers that have been processed; the sequence
   after `lastProcessedSeqNum` is then never uninterrupted, and the server's
   Finished waits for the timeout. The network can do the same with the compat
   option, if the server does not reuse its record number: a duplicate of the
   HelloVerifyRequest passes the window that was emptied for the ServerHello
   (`HandshakeHandler.ts:355`) and is kept as message 0 for ever. The option is
   documented for a gateway that does reuse it, so that this is a condition of
   `FlightsAreTaken` and no finding.
5. `record_link_repeated`: `receive()` checks all records of a datagram before it
   marks any, so a record that stands in a datagram twice is handed on twice, against
   the replay protection `AntiReplayWindow.ts:5` promises. A ChangeCipherSpec that
   stands there twice advances the read epoch twice.
6. `socket_after_end`: a fatal alert is to terminate the connection
   (`dtls.ts:194`), but the loop goes on with the rest of the datagram and nothing in
   it asks `_isClosed`. The user gets `error` and then `message`, or `connected`.

In the passing runs the properties these concern are stated under the condition
that avoids them (`FlightsAreTaken`, `NoneDeliveredTwice`, `ReadFollowsPeer`,
`SilentAfterEnd`, equal fragment lengths). Further limits are
stated the same way:

- `split` (`Handshake.ts:204`): `!fragments.length` ends the loop after its first
  fragment, so a message longer than the maximum length is cut. The client's
  own are shorter, unless the identity of the pre-shared key fills a datagram, and
  that is what `split` is modelled for.
- A server without a cookie exchange: the first ClientHello is left out of the
  transcript also when no HelloVerifyRequest follows (`HandshakeHandler.ts:315` has a
  TODO for it), so such a server rejects the client's Finished, although
  `server_hello_done` is among the answers expected to it (line 104). In the run
  `handshake` these servers are among those a failure is reported of;
  `CookieServerAccepts` is about the others.
- A ServerHello whose vector of extensions is there and empty is hashed without the
  vector, so the transcripts differ. `HashedAsReceived` is about encodings the code
  would choose (`extra = <<>>`).
- From 2^32 on record numbers are written modulo 2^32 (`BitConverter.ts`), and the
  reader refuses them as old. `ReadsWhatWasWritten` is about numbers below
  `NumberLimit`; the run crosses it.
- A gateway that starts its record numbers again, with the compat option: if its
  HelloVerifyRequest comes twice, the second one passes the window that was emptied
  for the ServerHello and marks number 0 again, the ServerHello is dropped as a
  replay, and nothing but the timeout follows. `EventuallyConnected` and
  `FailureIsReported` are about a clean network where the option is set, and about a
  server that does not repeat its flight (`Undisturbed`).
- The same gateway without the option: its ServerHello is always dropped, and the user
  hears of it from the timeout only. `FailureIsReported` leaves it out; that the
  handshake does end is `HandshakeEnds`.

`Buffer.allocUnsafe(NaN)`, to which a datagram cut within a length leads, is taken to
throw, as it does from Node 10 on.

## 7. Plan

What is left, in this order:

1. Malformed and unknown handshake messages as scenarios of `ClientHandshake`, with
   the exceptions that leave the event handler.
2. `DtlsClient`: an abstract connection (connecting, connected, ended) that
   `DtlsSocket` and the socket part of `ClientHandshake` both implement.
