------------------------ MODULE RecordProtectionProofs ------------------------
(***************************************************************************)
(* Padding, key material and authenticity for every length, block size and  *)
(* suite.                                                                   *)
(***************************************************************************)
EXTENDS RecordProtection, TLAPS

\* What the deciphering end reads back of a block: a byte has its value.
LEMMA ByteValue ==
    ASSUME NEW v
    PROVE  Value(Byte(v)) = v
  BY DEF Value, Byte

\* Division with a rest.
LEMMA Division ==
    ASSUME NEW b \in Nat \ {0}, NEW p \in Nat
    PROVE  /\ p \div b \in Nat
           /\ p % b \in 0 .. b - 1
           /\ p = b * (p \div b) + (p % b)
  BY SMTT(30)

\* A multiple leaves no rest.
LEMMA NoRest ==
    ASSUME NEW b \in Nat \ {0}, NEW q \in Nat
    PROVE  (b * q) % b = 0
<1>0. b * q \in Nat
  OBVIOUS
<1>1. /\ (b * q) \div b \in Nat
      /\ (b * q) % b \in 0 .. b - 1
      /\ b * q = b * ((b * q) \div b) + ((b * q) % b)
  BY <1>0, Division
<1> DEFINE d == q - (b * q) \div b
           r == (b * q) % b
<1>2. d \in Int /\ r \in 0 .. b - 1 /\ b * d = r
  BY <1>1, SMTT(30)
<1> HIDE DEF d, r
<1>3. ~ (d >= 1) /\ ~ (d <= -1)
  BY <1>2, SMTT(30)
<1>4. r = 0
  BY <1>2, <1>3, SMTT(30)
<1> QED
  BY <1>4 DEF r

\* The padding ends a block, is at least a byte and at most a block long, and
\* each of its bytes says how many stand before the last one.
LEMMA PaddingFills ==
    ASSUME NEW length \in Nat, NEW blockSize \in Nat \ {0}
    PROVE  \E n \in 0 .. blockSize - 1 :
               /\ padding(length, blockSize) = [i \in 1 .. n + 1 |-> Byte(n)]
               /\ (length + n + 1) % blockSize = 0
<1> DEFINE overflow  == (length + 1) % blockSize
           padLength == IF overflow > 0 THEN blockSize - overflow ELSE 0
<1>1. overflow \in 0 .. blockSize - 1
  BY SMTT(30)
<1>2. padLength \in 0 .. blockSize - 1
  BY <1>1
<1>3. padding(length, blockSize) = [i \in 1 .. padLength + 1 |-> Byte(padLength)]
  BY Zenon DEF padding
<1>4. (length + padLength + 1) % blockSize = 0
  <2>1. PICK k \in Nat : length + 1 = blockSize * k + overflow
    <3>1. length + 1 = blockSize * ((length + 1) \div blockSize) + overflow
      BY SMTT(30)
    <3>2. (length + 1) \div blockSize \in Nat
      BY SMTT(30)
    <3> QED
      BY <3>1, <3>2
  <2> HIDE DEF overflow
  <2>2. CASE overflow > 0
    <3>1. length + padLength + 1 = blockSize * (k + 1)
      BY <1>1, <2>1, <2>2, SMTT(30)
    <3>2. k + 1 \in Nat
      BY <2>1
    <3>3. (blockSize * (k + 1)) % blockSize = 0
      BY <3>2, NoRest
    <3> HIDE DEF padLength
    <3> QED
      BY <3>1, <3>3
  <2>3. CASE ~ (overflow > 0)
    <3>1. length + padLength + 1 = blockSize * k
      BY <1>1, <2>1, <2>3, SMTT(30)
    <3>2. (blockSize * k) % blockSize = 0
      BY <2>1, NoRest
    <3> HIDE DEF padLength
    <3> QED
      BY <3>1, <3>2
  <2> QED
    BY <2>2, <2>3
<1> HIDE DEF padLength
<1> QED
  BY <1>2, <1>3, <1>4

\* What is enciphered is a whole number of blocks, whatever the length of the
\* content and its MAC.
THEOREM WholeBlocks ==
    ASSUME NEW S, NEW plain \in Seq(S), NEW blockSize \in Nat \ {0}
    PROVE  Len(plain \o padding(Len(plain), blockSize)) % blockSize = 0
<1>0. Len(plain) \in Nat
  OBVIOUS
<1>1. PICK n \in 0 .. blockSize - 1 :
          /\ padding(Len(plain), blockSize) = [i \in 1 .. n + 1 |-> Byte(n)]
          /\ (Len(plain) + n + 1) % blockSize = 0
  BY <1>0, PaddingFills
<1> DEFINE pad == [i \in 1 .. n + 1 |-> Byte(n)]
<1>2. pad \in Seq({Byte(n)}) /\ Len(pad) = n + 1
  OBVIOUS
<1> HIDE DEF pad
<1>3. Len(plain \o pad) = Len(plain) + n + 1
  BY <1>2
<1> QED
  BY <1>1, <1>3 DEF pad

\* Stripping the padding off gives back what was padded: for no length and no
\* block size is a correct padding rejected, or a byte of the content taken
\* for a part of it.
THEOREM PaddingUndone ==
    ASSUME NEW S, NEW plain \in Seq(S), NEW blockSize \in Nat \ {0}
    PROVE  Unpadded(plain \o padding(Len(plain), blockSize)) = plain
<1>0. Len(plain) \in Nat
  OBVIOUS
<1>1. PICK n \in 0 .. blockSize - 1 :
          padding(Len(plain), blockSize) = [i \in 1 .. n + 1 |-> Byte(n)]
  BY <1>0, PaddingFills
<1> DEFINE b   == Byte(n)
           pad == [i \in 1 .. n + 1 |-> b]
           all == plain \o pad
           len == Len(all)
<1>2. n \in Nat /\ Len(plain) \in Nat
  BY <1>1
<1>3. Value(b) = n
  BY ByteValue
<1> HIDE DEF b
<1>4. pad \in Seq({b}) /\ Len(pad) = n + 1
  BY <1>2
<1>5. /\ len = Len(plain) + n + 1
      /\ \A i \in 1 .. Len(plain) : all[i] = plain[i]
      /\ \A i \in Len(plain) + 1 .. len : all[i] = b
  <2>1. \A i \in 1 .. n + 1 : pad[i] = b
    OBVIOUS
  <2> HIDE DEF pad
  <2>2. len = Len(plain) + n + 1 /\ \A i \in 1 .. Len(plain) : all[i] = plain[i]
    BY <1>2, <1>4
  <2>3. ASSUME NEW i \in Len(plain) + 1 .. len PROVE all[i] = b
    <3>1. all[i] = pad[i - Len(plain)] /\ i - Len(plain) \in 1 .. n + 1
      BY <1>2, <1>4, <2>2
    <3> QED
      BY <2>1, <3>1, Zenon
  <2> QED
    BY <2>2, <2>3, Zenon
<1>6. all[len] = b /\ \A i \in 1 .. n : all[len - i] = b
  BY <1>2, <1>5
<1> HIDE DEF len
<1>7. AllBut(all, n + 1) = plain
  <2>1. Len(all) - (n + 1) = Len(plain) /\ Len(all) = len
    BY <1>2, <1>5 DEF len
  <2>2. SubSeq(all, 1, Len(plain)) = plain
    BY <1>2, <1>4
  <2> QED
    BY <2>1, <2>2 DEF AllBut
<1>8. Unpadded(all) = AllBut(all, n + 1)
  <2>1. ~ (len <= n) /\ ~ \E i \in 1 .. n : Value(all[len - i]) # n
    BY <1>2, <1>3, <1>5, <1>6
  <2> HIDE DEF all, pad
  <2> QED
    BY <2>1, <1>3, <1>6 DEF Unpadded, len
<1> QED
  BY <1>1, <1>7, <1>8 DEF b

-----------------------------------------------------------------------------
(* AEAD.                                                                    *)

\* What stands in a sequence is found by where it starts and ends.
LEMMA StretchFound ==
    ASSUME NEW S, NEW all \in Seq(S), NEW b \in Seq(S), NEW o \in Nat,
           o + Len(b) <= Len(all), \A i \in 1 .. Len(b) : all[o + i] = b[i]
    PROVE  SubSeq(all, o + 1, o + Len(b)) = b
<1>1. PICK n, m, sub : /\ n = Len(b) /\ n \in Nat /\ m = o + n /\ m \in Nat
                       /\ sub = SubSeq(all, o + 1, m)
  <2>1. PICK n : n = Len(b) /\ n \in Nat
    OBVIOUS
  <2>2. o + n \in Nat
    BY <2>1
  <2> QED
    BY <2>1, <2>2, Zenon
<1>2. m <= Len(all)
  BY <1>1, Zenon
<1>3. sub \in Seq(S) /\ Len(sub) = n
  BY <1>1, <1>2
<1>4. \A i \in 1 .. n : sub[i] = b[i]
  <2> TAKE i \in 1 .. n
  <2>1. sub[i] = all[o + i]
    BY <1>1, <1>2
  <2> QED
    BY <1>1, <2>1
<1>5. sub = b
  <2>1. b = [i \in 1 .. n |-> b[i]]
    BY <1>1
  <2>2. sub = [i \in 1 .. n |-> sub[i]]
    BY <1>3
  <2> QED
    BY <1>4, <2>1, <2>2, Zenon
<1> QED
  BY <1>1, <1>5, Zenon

\* Three parts of a record, joined, are found again by their lengths.
LEMMA PartsFound ==
    ASSUME NEW S, NEW a \in Seq(S), NEW b \in Seq(S), NEW c \in Seq(S)
    PROVE  /\ SubSeq(a \o b \o c, 1, Len(a)) = a
           /\ SubSeq(a \o b \o c, Len(a) + 1, Len(a \o b \o c) - Len(c)) = b
           /\ Ending(a \o b \o c, Len(c)) = c
<1> DEFINE all == a \o b \o c
<1>1. all \in Seq(S) /\ Len(all) = Len(a) + Len(b) + Len(c)
  OBVIOUS
<1>2. Len(a) \in Nat /\ Len(b) \in Nat /\ Len(c) \in Nat
  OBVIOUS
<1>3. /\ \A i \in 1 .. Len(a) : all[i] = a[i]
      /\ \A i \in 1 .. Len(b) : all[Len(a) + i] = b[i]
      /\ \A i \in 1 .. Len(c) : all[Len(a) + Len(b) + i] = c[i]
  BY <1>2
<1> HIDE DEF all
<1>4. SubSeq(all, 1, Len(a)) = a
  BY <1>1, <1>2, <1>3
<1>5. SubSeq(all, Len(a) + 1, Len(all) - Len(c)) = b
  <2>1. SubSeq(all, Len(a) + 1, Len(a) + Len(b)) = b
    <3>1. Len(a) + Len(b) <= Len(all)
      BY <1>1, <1>2
    <3> QED
      BY <1>1, <1>2, <1>3, <3>1, StretchFound, Zenon
  <2>2. Len(all) - Len(c) = Len(a) + Len(b)
    BY <1>1, <1>2
  <2> QED
    BY <2>1, <2>2
<1>6. Ending(all, Len(c)) = c
  <2>1. SubSeq(all, Len(a) + Len(b) + 1, Len(a) + Len(b) + Len(c)) = c
    BY <1>1, <1>2, <1>3
  <2>2. /\ Smaller(Len(c), Len(all)) = Len(c)
        /\ Len(all) - Len(c) + 1 = Len(a) + Len(b) + 1
    BY <1>1, <1>2 DEF Smaller
  <2> QED
    BY <1>1, <2>1, <2>2 DEF Ending
<1> QED
  BY <1>1, <1>4, <1>5, <1>6 DEF all

\* Under its key and nonce a ciphertext reveals what was hidden.
LEMMA Revealed ==
    ASSUME NEW S, NEW plain \in Seq(S), NEW key, NEW nonce
    PROVE  Reveal(key, nonce, Hide("aead", key, nonce, plain)) = plain
<1> DEFINE ciphered == Hide("aead", key, nonce, plain)
<1>1. DOMAIN ciphered = DOMAIN plain
  BY DEF Hide
<1>2. ASSUME NEW i \in DOMAIN plain
      PROVE  /\ ciphered[i][1] = "aead" /\ ciphered[i][2] = key
             /\ ciphered[i][3] = nonce  /\ ciphered[i][4] = i
             /\ ciphered[i][5] = plain[i]
  BY DEF Hide
<1> HIDE DEF ciphered
<1>3. \A i \in DOMAIN plain : Intact("aead", key, ciphered, i)
  BY <1>2 DEF Intact
<1>4. Reveal(key, nonce, ciphered) = [i \in DOMAIN plain |-> plain[i]]
  BY <1>1, <1>2, <1>3, Zenon DEF Reveal
<1>5. plain = [i \in DOMAIN plain |-> plain[i]]
  OBVIOUS
<1> QED
  BY <1>4, <1>5 DEF ciphered

\* What a function from 1 .. n is as a sequence.
Parts(f) == {f[i] : i \in DOMAIN f}

\* A function on 1 .. n is a sequence of its values.
LEMMA Listed ==
    ASSUME NEW n \in Nat, NEW f, DOMAIN f = 1 .. n, f = [i \in 1 .. n |-> f[i]]
    PROVE  f \in Seq(Parts(f)) /\ Len(f) = n
<1>1. \A i \in 1 .. n : f[i] \in Parts(f)
  BY DEF Parts
<1> QED
  BY <1>1

\* The parts of ciphertexts have the lengths they are made with.
LEMMA RandomListed ==
    ASSUME NEW packet, NEW connEnd, NEW n \in Nat, NEW r,
           r = randomBytes(packet, connEnd, n)
    PROVE  r \in Seq(Parts(r)) /\ Len(r) = n
  BY Listed DEF randomBytes

\* A tag has the length it is asked for.
LEMMA TagListed ==
    ASSUME NEW n \in Nat, NEW key, NEW nonce, NEW aad, NEW content, NEW r,
           r = Tag(n, key, nonce, aad, content)
    PROVE  r \in Seq(Parts(r)) /\ Len(r) = n
  BY Listed DEF Tag

\* A ciphertext is as long as what it hides.
LEMMA HiddenListed ==
    ASSUME NEW mode, NEW key, NEW nonce, NEW S, NEW plain \in Seq(S), NEW r,
           r = Hide(mode, key, nonce, plain)
    PROVE  r \in Seq(Parts(r)) /\ Len(r) = Len(plain)
<1>1. DOMAIN plain = 1 .. Len(plain) /\ Len(plain) \in Nat
  OBVIOUS
<1>2. DOMAIN r = 1 .. Len(plain)
  BY <1>1 DEF Hide
<1>3. r = [i \in 1 .. Len(plain) |-> r[i]]
  BY <1>1 DEF Hide
<1> QED
  BY <1>1, <1>2, <1>3, Listed

\* The lengths of AEADCipher.
LEMMA AEADLengths ==
    ASSUME NEW a \in DOMAIN AEADCipherParameters
    PROVE  /\ AEADCipherParameters[a].recordIvLength \in Nat
           /\ AEADCipherParameters[a].authTagLength \in Nat
  BY DEF AEADCipherParameters, AEADParameters

\* A packet as it is on the wire: its fragment is what the cipher made of it.
Wire(packet, ciphered) == [packet EXCEPT !.fragment = ciphered]

\* A packet with other content.
LEMMA WireFields ==
    ASSUME NEW T, NEW V, NEW E, NEW N, NEW S, NEW ciphered,
           NEW packet \in [type : T, version : V, epoch : E, sequence_number : N,
                           fragment : Seq(S)]
    PROVE  /\ Wire(packet, ciphered).fragment = ciphered
           /\ \A length : Header(Wire(packet, ciphered), length) = Header(packet, length)
  BY DEF Wire, Header

\* What an AEAD delegate enciphers, the delegate of the other end deciphers to
\* the same content, with no byte lost and no exception, for every content,
\* suite and material.
THEOREM AEADUndone ==
    ASSUME NEW T, NEW V, NEW E, NEW N, NEW S,
           NEW packet \in [type : T, version : V, epoch : E, sequence_number : N,
                           fragment : Seq(S)],
           NEW suite, suite.algorithm \in DOMAIN AEADCipherParameters,
           NEW material, NEW connEnd \in Ends
    PROVE  aeadDecipher(suite, Wire(packet, aeadCipher(suite, packet, material, connEnd)),
                        material, sourceConnEnd(connEnd))
             = packet.fragment
<1> DEFINE params == AEADCipherParameters[suite.algorithm]
           iv     == params.recordIvLength
           tag    == params.authTagLength
           keys   == material[connEnd]
           content == packet.fragment
           explicit == randomBytes(packet, connEnd, iv)
           nonce  == <<keys.IV, explicit>>
           aad    == Header(packet, Len(content))
           hidden == Hide("aead", keys.key, nonce, content)
           end    == Tag(tag, keys.key, nonce, aad, content)
           all    == explicit \o hidden \o end
           wire   == Wire(packet, all)
<1>1. sourceConnEnd(sourceConnEnd(connEnd)) = connEnd
  BY DEF sourceConnEnd, Ends
<1>2. aeadCipher(suite, packet, material, connEnd) = all
  BY Zenon DEF aeadCipher
<1>3. iv \in Nat /\ tag \in Nat
  BY AEADLengths
<1>4. content \in Seq(S) /\ Len(content) \in Nat
  OBVIOUS
<1>5. explicit \in Seq(Parts(explicit)) /\ Len(explicit) = iv
  BY <1>3, RandomListed
<1>6. /\ hidden \in Seq(Parts(hidden)) /\ Len(hidden) = Len(content)
      /\ end \in Seq(Parts(end)) /\ Len(end) = tag
  <2>1. hidden \in Seq(Parts(hidden)) /\ Len(hidden) = Len(content)
    BY <1>4, HiddenListed
  <2>2. end \in Seq(Parts(end)) /\ Len(end) = tag
    BY <1>3, TagListed
  <2> QED
    BY <2>1, <2>2
<1>7. Reveal(keys.key, nonce, hidden) = content
  BY <1>4, Revealed
<1>8. /\ wire.fragment = all
      /\ \A length : Header(wire, length) = Header(packet, length)
  <2> HIDE DEF all
  <2> QED
    BY WireFields
<1> HIDE DEF explicit, hidden, iv, tag
<1>9. /\ Len(all) = iv + Len(content) + tag
      /\ SubSeq(all, 1, iv) = explicit
      /\ SubSeq(all, iv + 1, Len(all) - tag) = hidden
      /\ Ending(all, tag) = end
  <2> DEFINE U == Parts(explicit) \cup Parts(hidden) \cup Parts(end)
  <2> HIDE DEF hidden, end
  <2>1. explicit \in Seq(U) /\ hidden \in Seq(U) /\ end \in Seq(U)
    BY <1>5, <1>6
  <2> HIDE DEF U
  <2> QED
    <3>0. Len(all) = Len(explicit) + Len(hidden) + Len(end)
      BY <2>1
    <3>1. /\ SubSeq(all, 1, Len(explicit)) = explicit
          /\ SubSeq(all, Len(explicit) + 1, Len(all) - Len(end)) = hidden
          /\ Ending(all, Len(end)) = end
      <4>1. SubSeq(all, 1, Len(explicit)) = explicit
        BY <2>1, PartsFound
      <4>2. SubSeq(all, Len(explicit) + 1, Len(all) - Len(end)) = hidden
        BY <2>1, PartsFound
      <4>3. Ending(all, Len(end)) = end
        BY <2>1, PartsFound
      <4> QED
        BY <4>1, <4>2, <4>3
    <3> HIDE DEF all
    <3> QED
      BY <1>5, <1>6, <3>0, <3>1
<1>10. Header(wire, Len(all) - (iv + tag)) = aad
  <2>1. Len(all) - (iv + tag) = Len(content)
    BY <1>3, <1>4, <1>9
  <2> QED
    BY <1>8, <2>1
<1>11. Len(all) >= iv + tag
  BY <1>3, <1>4, <1>9
<1> HIDE DEF all, wire
<1>12. aeadDecipher(suite, wire, material, sourceConnEnd(connEnd)) = content
  BY <1>1, <1>7, <1>8, <1>9, <1>10, <1>11, Zenon DEF aeadDecipher, iv, tag
<1> QED
  BY <1>2, <1>12 DEF wire

-----------------------------------------------------------------------------
(* CBC with a MAC.                                                          *)

\* Two parts, joined, are found again by the length of either.
LEMMA FrontFound ==
    ASSUME NEW S, NEW a \in Seq(S), NEW b \in Seq(S)
    PROVE  SubSeq(a \o b, 1, Len(a)) = a
  OBVIOUS

\* The second of two sequences is found behind the first.
LEMMA BackFound ==
    ASSUME NEW S, NEW a \in Seq(S), NEW b \in Seq(S)
    PROVE  SubSeq(a \o b, Len(a) + 1, Len(a \o b)) = b
  OBVIOUS

\* It is found from the end by its length.
LEMMA EndingFound ==
    ASSUME NEW S, NEW a \in Seq(S), NEW b \in Seq(S)
    PROVE  Ending(a \o b, Len(b)) = b
<1>1. Smaller(Len(b), Len(a \o b)) = Len(b)
  BY DEF Smaller
<1>2. Len(a \o b) - Len(b) + 1 = Len(a) + 1
  OBVIOUS
<1> QED
  BY <1>1, <1>2, BackFound DEF Ending

\* What is left without it is the first.
LEMMA RestFound ==
    ASSUME NEW S, NEW a \in Seq(S), NEW b \in Seq(S)
    PROVE  AllBut(a \o b, Len(b)) = a
<1>1. Len(a \o b) - Len(b) = Len(a)
  OBVIOUS
<1> QED
  BY <1>1, FrontFound DEF AllBut

\* In a whole number of blocks, every byte is in a block that is there, and
\* that block is the first or comes after another.
LEMMA BlockOfByte ==
    ASSUME NEW size \in Nat, NEW blockSize \in Nat \ {0}, size % blockSize = 0,
           NEW i \in 1 .. size
    PROVE  LET start == (i - 1) - ((i - 1) % blockSize)
           IN  /\ start \in Nat
               /\ start + blockSize <= size
               /\ start # 0 => i - blockSize \in 1 .. size
<1> DEFINE q == (i - 1) \div blockSize
           k == size \div blockSize
           r == (i - 1) % blockSize
<1>1. q \in Nat /\ r \in 0 .. blockSize - 1 /\ i - 1 = blockSize * q + r
  <2>1. i - 1 \in Nat
    OBVIOUS
  <2> QED
    BY <2>1, Division
<1>2. k \in Nat /\ size = blockSize * k
  BY Division
<1> HIDE DEF q, k
<1>3. q < k
  <2>1. blockSize * q < blockSize * k
    BY <1>1, <1>2, SMTT(30)
  <2> QED
    BY <1>1, <1>2, <2>1, SMTT(30)
<1>4. blockSize * q + blockSize <= blockSize * k
  <2>1. PICK d \in Nat : k = q + 1 + d
    <3>1. k - q - 1 \in Nat /\ k = q + 1 + (k - q - 1)
      BY <1>1, <1>2, <1>3
    <3> QED
      BY <3>1
  <2>2. blockSize * k = blockSize * q + blockSize + blockSize * d
    BY <1>1, <2>1, SMTT(30)
  <2>3. blockSize * d \in Nat /\ blockSize * q \in Nat
    BY <1>1, <2>1, SMTT(30)
  <2> DEFINE bd == blockSize * d
             bq == blockSize * q
             bk == blockSize * k
  <2>4. bk = bq + blockSize + bd /\ bd \in Nat /\ bq \in Nat
    BY <2>2, <2>3
  <2> HIDE DEF bd, bq, bk
  <2>5. bq + blockSize <= bk
    BY <2>4
  <2> QED
    BY <2>5 DEF bq, bk
<1>5. blockSize * q # 0 => blockSize * q >= blockSize
  <2>1. CASE q = 0
    BY <2>1, SMTT(30)
  <2>2. CASE q >= 1
    BY <1>1, <2>2, SMTT(30)
  <2> QED
    BY <1>1, <2>1, <2>2
<1> DEFINE start == blockSize * q
<1>6. start \in Nat
  BY <1>1
<1>7. start = (i - 1) - r
  BY <1>1, <1>6
<1> HIDE DEF start
<1>8. start + blockSize <= size
  BY <1>2, <1>4 DEF start
<1>9. start # 0 => start >= blockSize
  BY <1>5 DEF start
<1> HIDE DEF r
<1>10. start # 0 => i - blockSize \in 1 .. size
  BY <1>1, <1>6, <1>7, <1>9
<1> QED
  BY <1>6, <1>7, <1>8, <1>10 DEF r

\* Under its key and IV a chain of blocks reveals what was hidden.
LEMMA BlocksRevealed ==
    ASSUME NEW S, NEW plain \in Seq(S), NEW key, NEW iv,
           NEW blockSize \in Nat \ {0}, Len(plain) % blockSize = 0
    PROVE  RevealBlocks(blockSize, key, iv, Hide("cbc", key, iv, plain)) = plain
<1> DEFINE ciphered == Hide("cbc", key, iv, plain)
           size == Len(plain)
<1>1. size \in Nat /\ DOMAIN plain = 1 .. size
  OBVIOUS
<1>2. DOMAIN ciphered = 1 .. size
  BY <1>1 DEF Hide
<1>3. ASSUME NEW i \in 1 .. size
      PROVE  /\ ciphered[i][1] = "cbc" /\ ciphered[i][2] = key
             /\ ciphered[i][3] = iv    /\ ciphered[i][4] = i
             /\ ciphered[i][5] = plain[i]
  BY <1>1 DEF Hide
<1>4. size % blockSize = 0
  OBVIOUS
<1> HIDE DEF ciphered, size
<1>5. \A i \in 1 .. size : Intact("cbc", key, ciphered, i)
  BY <1>3 DEF Intact
<1> DEFINE start(i) == (i - 1) - ((i - 1) % blockSize)
           whole(i) == /\ \A j \in start(i) + 1 .. start(i) + blockSize :
                             Intact("cbc", key, ciphered, j)
                       /\ IF start(i) = 0 THEN ciphered[i][3][i] = iv[i]
                          ELSE Intact("cbc", key, ciphered, i - blockSize)
<1>6. ASSUME NEW i \in 1 .. size
      PROVE  whole(i)
  <2>1. /\ start(i) \in Nat
        /\ start(i) + blockSize <= size
        /\ start(i) # 0 => i - blockSize \in 1 .. size
    BY <1>1, <1>4, BlockOfByte
  <2>2. ciphered[i][3][i] = iv[i]
    BY <1>3
  <2> HIDE DEF start
  <2>3. start(i) + 1 .. start(i) + blockSize \subseteq 1 .. size
    BY <1>1, <2>1
  <2> QED
    BY <1>5, <2>1, <2>2, <2>3, Zenon
<1>7. RevealBlocks(blockSize, key, iv, ciphered)
        = [i \in 1 .. size |-> IF whole(i) THEN ciphered[i][5] ELSE <<"garbled", i>>]
  BY <1>2, Zenon DEF RevealBlocks
<1> HIDE DEF whole
<1>8. [i \in 1 .. size |-> IF whole(i) THEN ciphered[i][5] ELSE <<"garbled", i>>]
        = [i \in 1 .. size |-> plain[i]]
  BY <1>3, <1>6
<1>9. plain = [i \in 1 .. size |-> plain[i]]
  BY <1>1 DEF size
<1> QED
  BY <1>7, <1>8, <1>9 DEF ciphered

\* The lengths of BlockCipher, and of a MAC.
LEMMA BlockLengths ==
    ASSUME NEW a \in DOMAIN BlockCipherParameters
    PROVE  /\ BlockCipherParameters[a].blockSize \in Nat \ {0}
           /\ BlockCipherParameters[a].recordIvLength = BlockCipherParameters[a].blockSize
  BY DEF BlockCipherParameters

\* A MAC has a length.
LEMMA MACLengths ==
    ASSUME NEW suite, suite.macAlgorithm \in DOMAIN HMACLength
    PROVE  MACLength(suite) \in Nat
  BY DEF MACLength, HMACLength

\* A MAC has the length of its hash.
LEMMA MACListed ==
    ASSUME NEW suite, suite.macAlgorithm \in DOMAIN HMACLength,
           NEW key, NEW packet, NEW content, NEW r,
           r = MAC(suite, key, packet, content)
    PROVE  r \in Seq(Parts(r)) /\ Len(r) = MACLength(suite)
  BY Listed, MACLengths DEF MAC

\* A padding is at least a byte long.
LEMMA PaddingListed ==
    ASSUME NEW length \in Nat, NEW blockSize \in Nat \ {0}, NEW r,
           r = padding(length, blockSize)
    PROVE  r \in Seq(Parts(r)) /\ Len(r) \in Nat \ {0}
<1>1. PICK n \in 0 .. blockSize - 1 : r = [i \in 1 .. n + 1 |-> Byte(n)]
  BY PaddingFills
<1>2. n + 1 \in Nat \ {0}
  OBVIOUS
<1> QED
  BY <1>1, <1>2, Listed

\* What makes a delegate throw is no content.
LEMMA NoContentRejected ==
    ASSUME NEW S, NEW s \in Seq(S)
    PROVE  s # Rejected
<1>1. DOMAIN Rejected = {0}
  BY DEF Rejected
<1>2. DOMAIN s = 1 .. Len(s)
  OBVIOUS
<1>3. 0 \in {0} /\ 0 \notin 1 .. Len(s)
  OBVIOUS
<1> QED
  BY <1>1, <1>2, <1>3, Zenon

\* What a block cipher's delegate enciphers, the delegate of the other end
\* deciphers to the same content: padding and MAC come off where they were put
\* on, for every content, suite and material.
THEOREM BlockUndone ==
    ASSUME NEW T, NEW V, NEW E, NEW N, NEW S,
           NEW packet \in [type : T, version : V, epoch : E, sequence_number : N,
                           fragment : Seq(S)],
           NEW suite, suite.algorithm \in DOMAIN BlockCipherParameters,
           suite.macAlgorithm \in DOMAIN HMACLength,
           NEW material, NEW connEnd \in Ends
    PROVE  blockDecipher(suite, Wire(packet, blockCipher(suite, packet, material, connEnd)),
                         material, sourceConnEnd(connEnd))
             = packet.fragment
<1> DEFINE blockSize == BlockCipherParameters[suite.algorithm].blockSize
           ivLength  == BlockCipherParameters[suite.algorithm].recordIvLength
           keys    == material[connEnd]
           content == packet.fragment
           mac     == MAC(suite, keys.MAC_key, packet, content)
           plain   == content \o mac
           pad     == padding(Len(plain), blockSize)
           padded  == plain \o pad
           iv      == randomBytes(packet, connEnd, ivLength)
           hidden  == Hide("cbc", keys.key, iv, padded)
           all     == iv \o hidden
           wire    == Wire(packet, all)
<1>1. sourceConnEnd(sourceConnEnd(connEnd)) = connEnd
  BY DEF sourceConnEnd, Ends
<1>2. blockCipher(suite, packet, material, connEnd) = all
  BY Zenon DEF blockCipher
<1>3. /\ wire.fragment = all
      /\ \A length : Header(wire, length) = Header(packet, length)
  <2> HIDE DEF all
  <2> QED
    BY WireFields
<1>4. blockSize \in Nat \ {0} /\ ivLength = blockSize
  BY BlockLengths
<1>5. MAC(suite, keys.MAC_key, wire, content) = mac
  <2> HIDE DEF wire
  <2> QED
    BY <1>3, Zenon DEF MAC
<1>6. /\ mac \in Seq(Parts(mac)) /\ Len(mac) = MACLength(suite)
      /\ iv \in Seq(Parts(iv)) /\ Len(iv) = blockSize
  <2>1. mac \in Seq(Parts(mac)) /\ Len(mac) = MACLength(suite)
    BY MACListed
  <2>2. iv \in Seq(Parts(iv)) /\ Len(iv) = blockSize
    BY <1>4, RandomListed
  <2> QED
    BY <2>1, <2>2
<1>7. content \in Seq(S)
  OBVIOUS
<1> HIDE DEF content, mac, iv, keys, blockSize, ivLength
<1> DEFINE P == S \cup Parts(mac)
<1>8. content \in Seq(P) /\ mac \in Seq(P) /\ plain \in Seq(P)
  BY <1>6, <1>7
<1>9. Len(plain) \in Nat
  BY <1>8
<1>10. /\ AllBut(plain, MACLength(suite)) = content
       /\ Ending(plain, MACLength(suite)) = mac
  <2> HIDE DEF P
  <2>1. AllBut(plain, Len(mac)) = content
    BY <1>8, RestFound
  <2>2. Ending(plain, Len(mac)) = mac
    BY <1>8, EndingFound
  <2> QED
    BY <1>6, <2>1, <2>2
<1> HIDE DEF P, plain
<1>11. Len(padded) % blockSize = 0 /\ Unpadded(padded) = plain
  BY <1>4, <1>8, WholeBlocks, PaddingUndone
<1>12. pad \in Seq(Parts(pad)) /\ Len(pad) \in Nat \ {0}
  BY <1>4, <1>9, PaddingListed
<1> HIDE DEF pad
<1> DEFINE Q == P \cup Parts(pad)
<1>13. padded \in Seq(Q) /\ Len(padded) \in Nat \ {0}
  BY <1>8, <1>9, <1>12
<1> HIDE DEF Q, padded
<1>14. RevealBlocks(blockSize, keys.key, iv, hidden) = padded
  BY <1>4, <1>11, <1>13, BlocksRevealed
<1>15. hidden \in Seq(Parts(hidden)) /\ Len(hidden) = Len(padded)
  BY <1>13, HiddenListed
<1> HIDE DEF hidden
<1> DEFINE R == Parts(iv) \cup Parts(hidden)
<1>16. iv \in Seq(R) /\ hidden \in Seq(R)
  BY <1>6, <1>15
<1> HIDE DEF R
<1>17. /\ SubSeq(all, 1, blockSize) = iv
       /\ SubSeq(all, blockSize + 1, Len(all)) = hidden
  <2>1. SubSeq(all, 1, Len(iv)) = iv
    BY <1>16, FrontFound
  <2>2. SubSeq(all, Len(iv) + 1, Len(all)) = hidden
    BY <1>16, BackFound
  <2> QED
    BY <1>6, <2>1, <2>2
<1>18. Len(all) >= blockSize
  <2>1. Len(all) = Len(iv) + Len(hidden)
    BY <1>16
  <2> QED
    BY <1>4, <1>6, <1>13, <1>15, <2>1
<1>19. hidden # <<>>
  BY <1>13, <1>15
<1>20. plain # Rejected
  BY <1>8, NoContentRejected
<1> HIDE DEF all, wire
<1>21. Authenticated(suite, wire, keys.MAC_key, plain) = content
  BY <1>5, <1>10, Zenon DEF Authenticated
<1>22. blockDecipher(suite, wire, material, sourceConnEnd(connEnd)) = content
  <2>1. ~ (Len(all) < ivLength)
    BY <1>4, <1>18, <1>16 DEF all
  <2> QED
    BY <1>1, <1>3, <1>4, <1>11, <1>14, <1>15, <1>17, <1>19, <1>20, <1>21, <2>1, Zenon
    DEF blockDecipher, keys, blockSize, ivLength
<1> QED
  BY <1>2, <1>22 DEF wire, content

-----------------------------------------------------------------------------
(* Key material.                                                            *)

\* What the getters say of a suite are lengths.
HasLengths(suite) == /\ MACLength(suite) \in Nat /\ KeyLength(suite) \in Nat
                     /\ FixedIvLength(suite) \in Nat

\* A key block in six slices, with the lengths of MAC, cipher and IV.
Cut(block, mac, key, iv) ==
    [client |-> [MAC_key |-> <<block, 0, mac>>,
                 key |-> <<block, 2 * mac, 2 * mac + key>>,
                 IV |-> <<block, 2 * (mac + key), 2 * (mac + key) + iv>>],
     server |-> [MAC_key |-> <<block, mac, 2 * mac>>,
                 key |-> <<block, 2 * mac + key, 2 * (mac + key)>>,
                 IV |-> <<block, 2 * (mac + key) + iv, 2 * (mac + key + iv)>>]]

\* The block that a master secret and two random values are stretched to.
KeyBlock(block, master, client_random, server_random) ==
    block.secret = master /\ block.seed = <<server_random, client_random>>

\* The key material is a key block cut like that.
LEMMA KeysCut ==
    ASSUME NEW suite, HasLengths(suite), NEW master, NEW client_random, NEW server_random
    PROVE  \E block :
              /\ KeyBlock(block, master, client_random, server_random)
              /\ computeKeyMaterial(suite, master, client_random, server_random)
                   = Cut(block, MACLength(suite), KeyLength(suite), FixedIvLength(suite))
<1>1. PICK mac \in Nat, key \in Nat, iv \in Nat :
          mac = MACLength(suite) /\ key = KeyLength(suite) /\ iv = FixedIvLength(suite)
  BY DEF HasLengths
<1> DEFINE keys == computeKeyMaterial(suite, master, client_random, server_random)
           block == PRF(master, "key expansion", <<server_random, client_random>>,
                        2 * (mac + key + iv))
           read(offset, length) ==
               <<block, offset, Smaller(offset + length, block.length)>>
<1>2. /\ KeyBlock(block, master, client_random, server_random)
      /\ block.length = 2 * (mac + key + iv)
  BY DEF PRF, KeyBlock
<1>3. keys = [client |-> [MAC_key |-> read(0, mac), key |-> read(2 * mac, key),
                          IV |-> read(2 * (mac + key), iv)],
              server |-> [MAC_key |-> read(mac, mac), key |-> read(2 * mac + key, key),
                          IV |-> read(2 * (mac + key) + iv, iv)]]
  BY <1>1, Zenon DEF computeKeyMaterial
<1> HIDE DEF block, keys
<1>4. /\ Smaller(0 + mac, block.length) = mac
      /\ Smaller(mac + mac, block.length) = 2 * mac
      /\ Smaller(2 * mac + key, block.length) = 2 * mac + key
      /\ Smaller(2 * mac + key + key, block.length) = 2 * (mac + key)
      /\ Smaller(2 * (mac + key) + iv, block.length) = 2 * (mac + key) + iv
      /\ Smaller(2 * (mac + key) + iv + iv, block.length) = 2 * (mac + key + iv)
  BY <1>2 DEF Smaller
<1>5. keys = Cut(block, mac, key, iv)
  BY <1>3, <1>4, Zenon DEF Cut
<1> QED
  BY <1>2, <1>5, <1>1, Zenon DEF keys

\* The slices of the key block have the lengths of the suite and share no
\* byte, whatever those lengths are: the six slices of computeKeyMaterial are
\* consecutive and end where the block does.
THEOREM KeysCutApart ==
    ASSUME NEW suite, MACLength(suite) \in Nat, KeyLength(suite) \in Nat,
           FixedIvLength(suite) \in Nat,
           NEW master, NEW client_random, NEW server_random
    PROVE  SlicesApart(suite, computeKeyMaterial(suite, master, client_random, server_random))
<1>1. HasLengths(suite)
  BY DEF HasLengths
<1>2. PICK block :
          computeKeyMaterial(suite, master, client_random, server_random)
            = Cut(block, MACLength(suite), KeyLength(suite), FixedIvLength(suite))
  BY <1>1, KeysCut, Zenon
<1>3. SlicesApart(suite, Cut(block, MACLength(suite), KeyLength(suite),
                             FixedIvLength(suite)))
  BY DEF SlicesApart, Cut, Ends, Uses
<1> QED
  BY <1>2, <1>3

-----------------------------------------------------------------------------
(* Authenticity.                                                            *)

\* The key material of an association [master, client_random, server_random].
KeysOf(suite, a) ==
    computeKeyMaterial(suite, a.master, a.client_random, a.server_random)

\* A record that was written, [packet, association, connEnd].
Written(suite, w) == Enciphered(suite, w.packet, KeysOf(suite, w.association), w.connEnd)

\* Content is numbers, whatever they are.
Octets == {Byte(v) : v \in Nat}
Contents(records) ==
    \A w \in records : w.packet.fragment \in Seq(Octets) /\ w.connEnd \in Ends

\* Of the bytes that arrive, those of a tag and those of a chain of blocks come
\* from records that were written; their order, their choice and all other bytes
\* are arbitrary.
Arrives(suite, bytes, records) ==
    /\ \E S : bytes \in Seq(S)
    /\ \A i \in DOMAIN bytes : bytes[i][1] \in {"tag", "cbc"} =>
           \E w \in records : bytes[i] \in Parts(Written(suite, w))

\* The bytes of a concatenation are the bytes of its parts.
LEMMA PartsJoined ==
    ASSUME NEW S, NEW a \in Seq(S), NEW b \in Seq(S)
    PROVE  Parts(a \o b) = Parts(a) \cup Parts(b)
<1>1. /\ DOMAIN a = 1 .. Len(a) /\ DOMAIN b = 1 .. Len(b)
      /\ DOMAIN (a \o b) = 1 .. Len(a) + Len(b)
      /\ Len(a) \in Nat /\ Len(b) \in Nat
  OBVIOUS
<1>2. ASSUME NEW i \in DOMAIN a PROVE (a \o b)[i] = a[i] /\ i \in DOMAIN (a \o b)
  BY <1>1
<1>3. ASSUME NEW i \in DOMAIN b
      PROVE  (a \o b)[Len(a) + i] = b[i] /\ Len(a) + i \in DOMAIN (a \o b)
  BY <1>1
<1>4. ASSUME NEW i \in DOMAIN (a \o b)
      PROVE  \/ i \in DOMAIN a
             \/ i - Len(a) \in DOMAIN b /\ i = Len(a) + (i - Len(a))
  BY <1>1
<1> DEFINE ab == a \o b
<1> HIDE DEF ab
<1>5. ASSUME NEW x \in Parts(ab) PROVE x \in Parts(a) \cup Parts(b)
  <2>1. PICK i \in DOMAIN ab : x = ab[i]
    BY <1>5 DEF Parts
  <2>2. CASE i \in DOMAIN a
    BY <1>2, <2>1, <2>2, Zenon DEF Parts, ab
  <2>3. CASE i - Len(a) \in DOMAIN b /\ i = Len(a) + (i - Len(a))
    <3>1. PICK j \in DOMAIN b : i = Len(a) + j
      BY <2>3, Zenon
    <3> QED
      BY <1>3, <2>1, <3>1, Zenon DEF Parts, ab
  <2> QED
    BY <1>4, <2>1, <2>2, <2>3 DEF ab
<1>6. Parts(a) \subseteq Parts(ab) /\ Parts(b) \subseteq Parts(ab)
  BY <1>2, <1>3, Zenon DEF Parts, ab
<1> QED
  BY <1>5, <1>6 DEF ab

\* The same for three parts.
LEMMA ThreeJoined ==
    ASSUME NEW S, NEW a \in Seq(S), NEW b \in Seq(S), NEW c \in Seq(S)
    PROVE  Parts(a \o b \o c) = Parts(a) \cup Parts(b) \cup Parts(c)
<1>1. PICK ab \in Seq(S) : ab = a \o b
  <2>1. a \o b \in Seq(S)
    OBVIOUS
  <2> QED
    BY <2>1, Zenon
<1>2. Parts(ab \o c) = Parts(ab) \cup Parts(c)
  BY PartsJoined
<1> QED
  BY <1>1, <1>2, PartsJoined

\* The bytes of a nonce are of their own kind.
LEMMA RandomKind ==
    ASSUME NEW packet, NEW connEnd, NEW n,
           NEW x \in Parts(randomBytes(packet, connEnd, n))
    PROVE  x[1] = "random"
  BY DEF Parts, randomBytes

\* A byte of a ciphertext names the byte it hides.
LEMMA HiddenKind ==
    ASSUME NEW mode, NEW key, NEW nonce, NEW plain,
           NEW x \in Parts(Hide(mode, key, nonce, plain))
    PROVE  \E i \in DOMAIN plain : x = <<mode, key, nonce, i, plain[i]>>
  BY DEF Parts, Hide

\* A byte of a tag names key, header and content.
LEMMA TagKind ==
    ASSUME NEW n, NEW key, NEW nonce, NEW aad, NEW content,
           NEW x \in Parts(Tag(n, key, nonce, aad, content))
    PROVE  \E i : x = <<"tag", key, nonce, aad, content, i>>
  BY DEF Parts, Tag

\* So does a byte of a MAC.
LEMMA MACKind ==
    ASSUME NEW suite, NEW key, NEW packet, NEW content,
           NEW x \in Parts(MAC(suite, key, packet, content))
    PROVE  \E i : x = <<"mac", key, Header(packet, Len(content)), content, i>>
  BY DEF Parts, MAC

\* Headers that agree for one length of the content agree for every length.
LEMMA SameHeader ==
    ASSUME NEW p, NEW q, NEW m, NEW n, Header(p, m) = Header(q, n)
    PROVE  \A length : Header(p, length) = Header(q, length)
  BY DEF Header

\* The last byte of an end.
LEMMA LastOfEnding ==
    ASSUME NEW S, NEW s \in Seq(S), NEW n \in Nat \ {0}, n <= Len(s)
    PROVE  Len(s) \in DOMAIN s /\ Ending(s, n)[n] = s[Len(s)]
<1>1. Smaller(n, Len(s)) = n /\ Len(s) \in Nat
  BY DEF Smaller
<1>2. Ending(s, n) = SubSeq(s, Len(s) - n + 1, Len(s))
  BY <1>1 DEF Ending
<1> QED
  BY <1>1, <1>2

\* A record an AEAD delegate accepts was written by the end with the same key,
\* with this content and this header.
LEMMA AEADAuthentic ==
    ASSUME NEW suite, suite.algorithm \in DOMAIN AEADCipherParameters,
           suite.cipherType = "aead",
           NEW records, Contents(records),
           NEW packet, Arrives(suite, packet.fragment, records),
           NEW material, NEW connEnd,
           aeadDecipher(suite, packet, material, connEnd) # Rejected
    PROVE  \E w \in records :
              /\ aeadDecipher(suite, packet, material, connEnd) = w.packet.fragment
              /\ \A length : Header(packet, length) = Header(w.packet, length)
              /\ KeysOf(suite, w.association)[w.connEnd].key
                   = material[sourceConnEnd(connEnd)].key
<1>0. PICK data, R : /\ data = aeadDecipher(suite, packet, material, connEnd)
                     /\ data # Rejected /\ packet.fragment \in Seq(R)
  BY DEF Arrives
<1>1. PICK n, v : /\ n = AEADCipherParameters[suite.algorithm].authTagLength
                  /\ v = AEADCipherParameters[suite.algorithm].recordIvLength
                  /\ n \in Nat \ {0} /\ v \in Nat
  <2>1. \A a \in DOMAIN AEADCipherParameters :
            /\ AEADCipherParameters[a].authTagLength \in Nat \ {0}
            /\ AEADCipherParameters[a].recordIvLength \in Nat
    BY DEF AEADCipherParameters, AEADParameters
  <2> QED
    BY <2>1, Zenon
<1>2. PICK bytes, key, nonce, aad, size :
          /\ bytes = packet.fragment /\ key = material[sourceConnEnd(connEnd)].key
          /\ size = Len(bytes) /\ size >= v + n
          /\ Ending(bytes, n) = Tag(n, key, nonce, aad, data)
          /\ \E length : aad = Header(packet, length)
  <2> DEFINE keys   == material[sourceConnEnd(connEnd)]
             nonce  == <<keys.IV, SubSeq(packet.fragment, 1, v)>>
             aad    == Header(packet, Len(packet.fragment) - (v + n))
             plain  == Reveal(keys.key, nonce,
                              SubSeq(packet.fragment, v + 1, Len(packet.fragment) - n))
  <2>1. data = IF /\ Len(packet.fragment) >= v + n
                  /\ Ending(packet.fragment, n) = Tag(n, keys.key, nonce, aad, plain)
               THEN plain ELSE Rejected
    BY <1>0, <1>1, Zenon DEF aeadDecipher
  <2> HIDE DEF nonce, plain
  <2>2. /\ data = plain /\ Len(packet.fragment) >= v + n
        /\ Ending(packet.fragment, n) = Tag(n, keys.key, nonce, aad, plain)
    BY <1>0, <2>1, Zenon
  <2> QED
    BY <2>2, Zenon
<1>3. bytes \in Seq(R) /\ size \in Nat /\ n <= size
  BY <1>0, <1>1, <1>2
<1>4. size \in DOMAIN bytes /\ bytes[size] = <<"tag", key, nonce, aad, data, n>>
  <2>1. Tag(n, key, nonce, aad, data)[n] = <<"tag", key, nonce, aad, data, n>>
    BY <1>1 DEF Tag
  <2> QED
    BY <1>1, <1>2, <1>3, <2>1, LastOfEnding
<1>5. PICK x : x = bytes[size]
  OBVIOUS
<1>6. x[1] = "tag" /\ x[2] = key /\ x[4] = aad /\ x[5] = data
  BY <1>4, <1>5
<1>7. PICK w \in records : x \in Parts(Written(suite, w))
  BY <1>2, <1>4, <1>5, <1>6 DEF Arrives
<1> DEFINE keys   == KeysOf(suite, w.association)[w.connEnd]
           random == randomBytes(w.packet, w.connEnd, v)
           fresh  == <<keys.IV, random>>
           header == Header(w.packet, Len(w.packet.fragment))
           hidden == Hide("aead", keys.key, fresh, w.packet.fragment)
           tag    == Tag(n, keys.key, fresh, header, w.packet.fragment)
<1>8. Written(suite, w) = random \o hidden \o tag
  <2>1. Written(suite, w)
          = aeadCipher(suite, w.packet, KeysOf(suite, w.association), w.connEnd)
    BY DEF Enciphered, Written
  <2> QED
    BY <1>1, <2>1, Zenon DEF aeadCipher
<1>9. /\ random \in Seq(Parts(random)) /\ hidden \in Seq(Parts(hidden))
      /\ tag \in Seq(Parts(tag))
  <2>1. w.packet.fragment \in Seq(Octets)
    BY DEF Contents
  <2>2. hidden \in Seq(Parts(hidden))
    BY <2>1, HiddenListed
  <2> QED
    BY <1>1, <2>2, RandomListed, TagListed
<1> HIDE DEF random, hidden, tag, fresh, header
<1>10. x \in Parts(random) \cup Parts(hidden) \cup Parts(tag)
  <2> DEFINE U == Parts(random) \cup Parts(hidden) \cup Parts(tag)
  <2>1. random \in Seq(U) /\ hidden \in Seq(U) /\ tag \in Seq(U)
    BY <1>9
  <2> HIDE DEF U
  <2>2. Parts(random \o hidden \o tag) = Parts(random) \cup Parts(hidden) \cup Parts(tag)
    BY <2>1, ThreeJoined
  <2> QED
    BY <1>7, <1>8, <2>2, Zenon
<1>11. x \in Parts(tag)
  <2>1. x \in Parts(random) => x[1] = "random"
    BY RandomKind DEF random
  <2>2. x \in Parts(hidden) => x[1] = "aead"
    BY HiddenKind DEF hidden
  <2> QED
    BY <1>6, <1>10, <2>1, <2>2
<1>12. x[2] = keys.key /\ x[4] = header /\ x[5] = w.packet.fragment
  <2>1. PICK i : x = <<"tag", keys.key, fresh, header, w.packet.fragment, i>>
    <3>1. \A y \in Parts(Tag(n, keys.key, fresh, header, w.packet.fragment)) :
              \E i : y = <<"tag", keys.key, fresh, header, w.packet.fragment, i>>
      BY TagKind
    <3> QED
      BY <1>11, <3>1, Zenon DEF tag
  <2> QED
    BY <2>1
<1> QED
  <2>1. \A length : Header(packet, length) = Header(w.packet, length)
    <3>1. PICK m : aad = Header(packet, m)
      BY <1>2
    <3>2. Header(packet, m) = Header(w.packet, Len(w.packet.fragment))
      BY <1>6, <1>12, <3>1 DEF header
    <3> QED
      BY <3>2, SameHeader
  <2> QED
    BY <1>0, <1>2, <1>6, <1>12, <2>1

\* What a delegate of a block cipher can have revealed.
MACOf(suite, w) ==
    MAC(suite, KeysOf(suite, w.association)[w.connEnd].MAC_key, w.packet,
        w.packet.fragment)
Genuine(suite, records, d) ==
    \/ d[1] = "garbled" \/ d \in Octets
    \/ \E w \in records : d \in Parts(MACOf(suite, w))

\* Padding is numbers.
LEMMA PaddingKind ==
    ASSUME NEW length \in Nat, NEW blockSize \in Nat \ {0}
    PROVE  padding(length, blockSize) \in Seq(Octets)
<1>1. PICK n \in 0 .. blockSize - 1 :
          padding(length, blockSize) = [i \in 1 .. n + 1 |-> Byte(n)]
  BY PaddingFills
<1>2. n \in Nat /\ Byte(n) \in Octets
  BY DEF Octets
<1> QED
  BY <1>1, <1>2

\* A byte of a ciphertext reveals a byte of what was enciphered.
LEMMA BlockReveals ==
    ASSUME NEW suite, suite.algorithm \in DOMAIN BlockCipherParameters,
           suite.cipherType = "block", suite.macAlgorithm \in DOMAIN HMACLength,
           NEW records, NEW w \in records, w.packet.fragment \in Seq(Octets),
           NEW x \in Parts(Written(suite, w)), x[1] = "cbc"
    PROVE  Genuine(suite, records, x[5])
<1>1. PICK b, v : /\ b = BlockCipherParameters[suite.algorithm].blockSize
                  /\ v = BlockCipherParameters[suite.algorithm].recordIvLength
                  /\ b \in Nat \ {0} /\ v \in Nat
  <2>1. \A a \in DOMAIN BlockCipherParameters :
            /\ BlockCipherParameters[a].blockSize \in Nat \ {0}
            /\ BlockCipherParameters[a].recordIvLength \in Nat
    BY DEF BlockCipherParameters
  <2> QED
    BY <2>1, Zenon
<1> DEFINE key    == KeysOf(suite, w.association)[w.connEnd].key
           mac    == MACOf(suite, w)
           plain  == w.packet.fragment \o mac
           pad    == padding(Len(plain), b)
           padded == plain \o pad
           random == randomBytes(w.packet, w.connEnd, v)
           hidden == Hide("cbc", key, random, padded)
<1>2. Written(suite, w) = random \o hidden
  <2>1. Written(suite, w)
          = blockCipher(suite, w.packet, KeysOf(suite, w.association), w.connEnd)
    BY DEF Enciphered, Written
  <2> QED
    BY <1>1, <2>1, Zenon DEF blockCipher, MACOf
<1>3. mac \in Seq(Parts(mac))
  BY MACListed DEF MACOf
<1> HIDE DEF mac
<1> DEFINE Q == Octets \cup Parts(mac)
<1>4. w.packet.fragment \in Seq(Q) /\ mac \in Seq(Q)
  BY <1>3
<1>5. plain \in Seq(Q)
  BY <1>4
<1> HIDE DEF plain
<1>6. pad \in Seq(Octets)
  <2>1. Len(plain) \in Nat
    BY <1>5
  <2>2. b \in Nat \ {0}
    BY <1>1, Zenon
  <2> QED
    BY <2>1, <2>2, PaddingKind, Zenon
<1> HIDE DEF pad
<1>7. padded \in Seq(Q)
  <2>1. pad \in Seq(Q)
    BY <1>6
  <2> QED
    BY <1>5, <2>1
<1> HIDE DEF padded, Q
<1>8. random \in Seq(Parts(random)) /\ hidden \in Seq(Parts(hidden))
  BY <1>1, <1>7, RandomListed, HiddenListed
<1> HIDE DEF random, hidden
<1>9. x \in Parts(random) \cup Parts(hidden)
  <2> DEFINE U == Parts(random) \cup Parts(hidden)
  <2>1. random \in Seq(U) /\ hidden \in Seq(U)
    BY <1>8
  <2> HIDE DEF U
  <2> QED
    BY <1>2, <2>1, PartsJoined
<1>10. x \in Parts(hidden)
  <2>1. x \in Parts(random) => x[1] = "random"
    BY RandomKind DEF random
  <2> QED
    BY <1>9, <2>1
<1>11. PICK i \in DOMAIN padded : x = <<"cbc", key, random, i, padded[i]>>
  <2>1. \A y \in Parts(Hide("cbc", key, random, padded)) :
            \E i \in DOMAIN padded : y = <<"cbc", key, random, i, padded[i]>>
    BY HiddenKind
  <2> QED
    BY <1>10, <2>1, Zenon DEF hidden
<1>12. x[5] \in Q
  BY <1>7, <1>11
<1> QED
  BY <1>12 DEF Q, Genuine, mac

\* What follows the first bytes of a record.
LEMMA RestOf ==
    ASSUME NEW R, NEW s \in Seq(R), NEW b \in Nat
    PROVE  \A c : c = SubSeq(s, b + 1, Len(s)) /\ c # <<>> =>
               /\ c \in Seq(R) /\ Len(c) \in Nat \ {0}
               /\ \A i \in DOMAIN c : i + b \in DOMAIN s /\ c[i] = s[i + b]
<1> SUFFICES ASSUME NEW c, c = SubSeq(s, b + 1, Len(s)), c # <<>>
             PROVE  /\ c \in Seq(R) /\ Len(c) \in Nat \ {0}
                    /\ \A i \in DOMAIN c : i + b \in DOMAIN s /\ c[i] = s[i + b]
  OBVIOUS
<1>1. c \in Seq(R)
  OBVIOUS
<1>2. Len(s) \in Nat /\ Len(c) \in Nat \ {0}
  BY <1>1
<1>3. Len(c) = IF b + 1 <= Len(s) THEN Len(s) - b ELSE 0
  BY <1>2
<1>4. ASSUME NEW i \in 1 .. Len(c) PROVE i + b \in 1 .. Len(s) /\ c[i] = s[i + b]
  <2>1. i + b \in 1 .. Len(s)
    BY <1>2, <1>3
  <2>2. c[i] = s[(b + 1) + i - 1]
    BY <1>2, <1>3
  <2> QED
    BY <1>2, <2>1, <2>2
<1> QED
  BY <1>1, <1>2, <1>4

\* A record a delegate of a block cipher accepts was written by the end with the
\* same key for its MAC, with this content and this header.
LEMMA BlockAuthentic ==
    ASSUME NEW suite, suite.algorithm \in DOMAIN BlockCipherParameters,
           suite.cipherType = "block", suite.macAlgorithm \in DOMAIN HMACLength,
           NEW records, Contents(records),
           NEW packet, Arrives(suite, packet.fragment, records),
           NEW material, NEW connEnd,
           blockDecipher(suite, packet, material, connEnd) # Rejected
    PROVE  \E w \in records :
              /\ blockDecipher(suite, packet, material, connEnd) = w.packet.fragment
              /\ \A length : Header(packet, length) = Header(w.packet, length)
              /\ KeysOf(suite, w.association)[w.connEnd].MAC_key
                   = material[sourceConnEnd(connEnd)].MAC_key
<1>0. PICK data, R : /\ data = blockDecipher(suite, packet, material, connEnd)
                     /\ data # Rejected /\ packet.fragment \in Seq(R)
  BY DEF Arrives
<1>1. PICK b, m : /\ b = BlockCipherParameters[suite.algorithm].blockSize
                  /\ m = MACLength(suite)
                  /\ b \in Nat \ {0} /\ m \in Nat \ {0}
  <2>1. BlockCipherParameters[suite.algorithm].blockSize \in Nat \ {0}
    BY BlockLengths
  <2>2. \A a \in DOMAIN HMACLength : HMACLength[a] \in Nat \ {0}
    BY DEF HMACLength
  <2>3. MACLength(suite) = HMACLength[suite.macAlgorithm]
    BY DEF MACLength
  <2> QED
    BY <2>1, <2>2, <2>3
<1>2. PICK bytes, key, macKey, iv :
          /\ bytes = packet.fragment
          /\ key = material[sourceConnEnd(connEnd)].key
          /\ macKey = material[sourceConnEnd(connEnd)].MAC_key
          /\ iv = SubSeq(packet.fragment, 1,
                         BlockCipherParameters[suite.algorithm].recordIvLength)
  OBVIOUS
<1>3. PICK ciphered : ciphered = SubSeq(bytes, b + 1, Len(bytes))
  OBVIOUS
<1>4. PICK deciphered, plain : /\ deciphered = RevealBlocks(b, key, iv, ciphered)
                               /\ plain = Unpadded(deciphered)
  OBVIOUS
<1>5. /\ ciphered # <<>> /\ plain # Rejected
      /\ data = Authenticated(suite, packet, macKey, plain)
  <2>1. data = IF \/ Len(packet.fragment)
                        < BlockCipherParameters[suite.algorithm].recordIvLength
                  \/ Len(ciphered) % b # 0
                  \/ ciphered = <<>>
               THEN Rejected
               ELSE IF plain = Rejected THEN Rejected
               ELSE Authenticated(suite, packet, macKey, plain)
    BY <1>0, <1>1, <1>2, <1>3, <1>4, Zenon DEF blockDecipher
  <2> QED
    BY <1>0, <2>1, Zenon
<1>6. Ending(plain, m) = MAC(suite, macKey, packet, data)
  <2>1. PICK content : content = AllBut(plain, m)
    OBVIOUS
  <2>2. data = IF Ending(plain, m) = MAC(suite, macKey, packet, content)
               THEN content ELSE Rejected
    BY <1>1, <1>5, <2>1, Zenon DEF Authenticated
  <2> QED
    BY <1>0, <2>2, Zenon
<1>7. /\ ciphered \in Seq(R) /\ Len(ciphered) \in Nat \ {0}
       /\ \A i \in DOMAIN ciphered : i + b \in DOMAIN bytes /\ ciphered[i] = bytes[i + b]
  <2>1. bytes \in Seq(R) /\ b \in Nat
    BY <1>0, <1>1, <1>2
  <2>2. ciphered = SubSeq(bytes, b + 1, Len(bytes)) /\ ciphered # <<>>
    BY <1>3, <1>5
  <2> QED
    <3>1. \A c : c = SubSeq(bytes, b + 1, Len(bytes)) /\ c # <<>> =>
                /\ c \in Seq(R) /\ Len(c) \in Nat \ {0}
                /\ \A i \in DOMAIN c : i + b \in DOMAIN bytes /\ c[i] = bytes[i + b]
      BY <2>1, RestOf, Zenon
    <3> QED
      BY <2>2, <3>1, Zenon
<1>8. ASSUME NEW i \in DOMAIN ciphered
      PROVE  \E j \in DOMAIN bytes : ciphered[i] = bytes[j]
  BY <1>7, Zenon
<1>9. ASSUME NEW i \in DOMAIN ciphered
      PROVE  \/ deciphered[i] = ciphered[i][5] /\ ciphered[i][1] = "cbc"
             \/ deciphered[i] = <<"garbled", i>>
  <2>1. i \in Nat \ {0}
    BY <1>7
  <2>2. PICK r, start : /\ r = (i - 1) % b /\ start = (i - 1) - r
                        /\ r \in 0 .. b - 1
    <3>1. i - 1 \in Nat
      BY <2>1
    <3>2. (i - 1) % b \in 0 .. b - 1
      BY <1>1, <3>1, Division
    <3> QED
      BY <3>2, Zenon
  <2>3. i \in start + 1 .. start + b
    <3>1. start = (i - 1) - r /\ r \in 0 .. b - 1
      BY <2>2, Zenon
    <3> QED
      BY <1>1, <2>1, <3>1
  <2>4. \/ /\ \A j \in start + 1 .. start + b : Intact("cbc", key, ciphered, j)
           /\ deciphered[i] = ciphered[i][5]
        \/ deciphered[i] = <<"garbled", i>>
    BY <1>2, <1>3, <1>4, <1>5, <2>2, Zenon DEF RevealBlocks
  <2> QED
    BY <2>3, <2>4, Zenon DEF Intact
<1>10. ASSUME NEW i \in DOMAIN ciphered
      PROVE  Genuine(suite, records, deciphered[i])
  <2>1. CASE deciphered[i] = <<"garbled", i>>
    BY <2>1 DEF Genuine
  <2>2. CASE deciphered[i] = ciphered[i][5] /\ ciphered[i][1] = "cbc"
    <3>1. PICK j \in DOMAIN bytes : ciphered[i] = bytes[j]
      BY <1>8
    <3>2. PICK w \in records : bytes[j] \in Parts(Written(suite, w))
      BY <1>2, <1>3, <1>4, <1>5, <2>2, <3>1 DEF Arrives
    <3> QED
      BY <2>2, <3>1, <3>2, BlockReveals DEF Contents
  <2> QED
    BY <1>9, <2>1, <2>2
<1>11. deciphered \in Seq(Parts(deciphered)) /\ Len(deciphered) = Len(ciphered)
  <2>1. DOMAIN ciphered = 1 .. Len(ciphered)
    BY <1>7
  <2>2. DOMAIN deciphered = 1 .. Len(ciphered)
    BY <1>2, <1>3, <1>4, <1>5, <2>1 DEF RevealBlocks
  <2>3. deciphered = [i \in 1 .. Len(ciphered) |-> deciphered[i]]
    BY <1>2, <1>3, <1>4, <1>5, <2>1 DEF RevealBlocks
  <2> QED
    BY <1>7, <2>2, <2>3, Listed
<1>12. \A i \in DOMAIN deciphered : Genuine(suite, records, deciphered[i])
  BY <1>7, <1>10, <1>11
<1>13. PICK len, pl : /\ len = Len(deciphered) /\ pl = Value(deciphered[len])
                      /\ len \in Nat \ {0}
  BY <1>7, <1>11
<1>14. pl \in Nat
  <2>1. len \in DOMAIN deciphered
    BY <1>11, <1>13
  <2>2. Genuine(suite, records, deciphered[len])
    BY <1>12, <2>1
  <2>3. deciphered[len][1] = "byte" => deciphered[len] \in Octets
    <3>1. ASSUME NEW w \in records, deciphered[len] \in Parts(MACOf(suite, w))
          PROVE  deciphered[len][1] = "mac"
      BY <3>1, MACKind DEF MACOf
    <3> QED
      BY <2>2, <3>1 DEF Genuine
  <2>4. \A d \in Octets : d[2] \in Nat
    BY DEF Octets, Byte
  <2> QED
    BY <1>13, <2>3, <2>4, ChanceAssumption DEF Value
<1>15. plain = SubSeq(deciphered, 1, len - (pl + 1)) /\ pl < len
  <2>1. PICK rejected : plain = IF Len(deciphered) <= Value(deciphered[Len(deciphered)])
                                    \/ rejected
                                THEN Rejected
                                ELSE AllBut(deciphered,
                                            Value(deciphered[Len(deciphered)]) + 1)
    BY <1>4, Zenon DEF Unpadded
  <2>2. ~ (len <= pl) /\ plain = AllBut(deciphered, pl + 1)
    BY <1>5, <1>13, <2>1, Zenon
  <2> QED
    BY <1>13, <1>14, <2>2 DEF AllBut
<1>16. /\ plain \in Seq(Parts(deciphered)) /\ Len(plain) = len - (pl + 1)
       /\ Len(plain) \in Nat
       /\ \A i \in DOMAIN plain : i \in DOMAIN deciphered /\ plain[i] = deciphered[i]
  BY <1>11, <1>13, <1>14, <1>15
<1>17. m <= Len(plain)
  <2>1. PICK k : k = Smaller(m, Len(plain)) /\ k \in Nat /\ k <= Len(plain) /\ k <= m
    BY <1>1, <1>16 DEF Smaller
  <2>2. Ending(plain, m) = SubSeq(plain, Len(plain) - k + 1, Len(plain))
    BY <2>1, Zenon DEF Ending
  <2>3. Len(Ending(plain, m)) = k
    BY <1>16, <2>1, <2>2
  <2>4. Len(MAC(suite, macKey, packet, data)) = m
    BY <1>1, MACListed
  <2> QED
    BY <1>6, <2>1, <2>3, <2>4
<1>18. PICK x : x = plain[Len(plain)]
  OBVIOUS
<1>19. x = <<"mac", macKey, Header(packet, Len(data)), data, m>>
  <2>1. Ending(plain, m)[m] = x
    BY <1>1, <1>16, <1>17, <1>18, LastOfEnding
  <2>2. MAC(suite, macKey, packet, data)[m]
          = <<"mac", macKey, Header(packet, Len(data)), data, m>>
    BY <1>1 DEF MAC
  <2> QED
    BY <1>6, <2>1, <2>2
<1>20. Genuine(suite, records, x)
  <2>1. Len(plain) \in DOMAIN plain
    BY <1>1, <1>16, <1>17
  <2> QED
    BY <1>12, <1>16, <1>18, <2>1
<1>21. PICK w \in records : x \in Parts(MACOf(suite, w))
  <2>1. x[1] = "mac"
    BY <1>19
  <2>2. x \notin Octets
    BY <2>1 DEF Octets, Byte
  <2> QED
    BY <1>20, <2>1, <2>2 DEF Genuine
<1>22. PICK k, i : /\ k = KeysOf(suite, w.association)[w.connEnd].MAC_key
                   /\ x = <<"mac", k, Header(w.packet, Len(w.packet.fragment)),
                            w.packet.fragment, i>>
  BY <1>21, MACKind DEF MACOf
<1>23. /\ macKey = k /\ data = w.packet.fragment
       /\ Header(packet, Len(data)) = Header(w.packet, Len(w.packet.fragment))
  BY <1>19, <1>22
<1> QED
  <2>1. \A length : Header(packet, length) = Header(w.packet, length)
    BY <1>23, SameHeader
  <2> QED
    BY <1>0, <1>2, <1>3, <1>4, <1>5, <1>22, <1>23, <2>1

\* The suites, and what the getters say of them.
LEMMA SuiteLengths ==
    ASSUME NEW name \in DOMAIN CipherSuites, NEW suite, suite = CipherSuites[name]
    PROVE  /\ suite.cipherType \in {"null", "block", "aead"}
           /\ suite.cipherType = "block" =>
                  /\ suite.algorithm \in DOMAIN BlockCipherParameters
                  /\ suite.macAlgorithm \in DOMAIN HMACLength
           /\ suite.cipherType = "aead" => suite.algorithm \in DOMAIN AEADCipherParameters
  BY DEF CipherSuites, CipherSuite, BlockCipherParameters, AEADCipherParameters, HMACLength

\* In every suite the key that authenticates is not empty.
LEMMA SuiteKeys ==
    ASSUME NEW name \in DOMAIN CipherSuites, NEW suite, suite = CipherSuites[name]
    PROVE  /\ HasLengths(suite)
           /\ suite.cipherType = "aead" => KeyLength(suite) # 0
           /\ suite.cipherType = "block" => MACLength(suite) # 0
<1>1. \A x \in DOMAIN AEADCipherParameters :
          /\ AEADCipherParameters[x].keyLength \in Nat \ {0}
          /\ AEADCipherParameters[x].fixedIvLength \in Nat
  BY DEF AEADCipherParameters, AEADParameters
<1>2. \A x \in DOMAIN BlockCipherParameters : BlockCipherParameters[x].keyLength \in Nat
  BY DEF BlockCipherParameters
<1>3. \A x \in DOMAIN HMACLength : HMACLength[x] \in Nat \ {0}
  BY DEF HMACLength
<1>4. /\ suite.cipherType \in {"null", "block", "aead"}
      /\ suite.cipherType = "block" =>
             /\ suite.algorithm \in DOMAIN BlockCipherParameters
             /\ suite.macAlgorithm \in DOMAIN HMACLength
      /\ suite.cipherType = "aead" => suite.algorithm \in DOMAIN AEADCipherParameters
  BY SuiteLengths
<1> QED
  BY <1>1, <1>2, <1>3, <1>4 DEF HasLengths, MACLength, KeyLength, FixedIvLength

\* Two ends, of one association or of two, authenticate under one key.
SharesKey(suite, a, end, c, from) ==
    \/ /\ suite.cipherType = "aead"
       /\ KeysOf(suite, a)[end].key = KeysOf(suite, c)[from].key
    \/ /\ suite.cipherType = "block"
       /\ KeysOf(suite, a)[end].MAC_key = KeysOf(suite, c)[from].MAC_key

\* Two associations with one master secret and one pair of random values.
SameAssociation(a, c) ==
    /\ a.master = c.master
    /\ a.client_random = c.client_random /\ a.server_random = c.server_random

\* A key tells whose it is: the end, and the association.
LEMMA KeysTell ==
    ASSUME NEW name \in DOMAIN CipherSuites, NEW suite, suite = CipherSuites[name],
           NEW a, NEW c, NEW end \in Ends, NEW from \in Ends,
           SharesKey(suite, a, end, c, from)
    PROVE  end = from /\ SameAssociation(a, c)
<1>1. HasLengths(suite)
  BY SuiteKeys
<1>2. PICK mac \in Nat, key \in Nat, iv \in Nat :
          /\ mac = MACLength(suite) /\ key = KeyLength(suite) /\ iv = FixedIvLength(suite)
          /\ suite.cipherType = "aead" => key # 0
          /\ suite.cipherType = "block" => mac # 0
  BY <1>1, SuiteKeys DEF HasLengths
<1>3. PICK keys, keys2 : keys = KeysOf(suite, a) /\ keys2 = KeysOf(suite, c)
  OBVIOUS
<1>4. PICK block :
          /\ KeyBlock(block, a.master, a.client_random, a.server_random)
          /\ keys = Cut(block, mac, key, iv)
  <2>1. PICK m, x, y : m = a.master /\ x = a.client_random /\ y = a.server_random
    OBVIOUS
  <2>2. PICK cut : /\ KeyBlock(cut, m, x, y)
                   /\ computeKeyMaterial(suite, m, x, y)
                        = Cut(cut, MACLength(suite), KeyLength(suite), FixedIvLength(suite))
    BY <1>1, KeysCut, Zenon
  <2>3. keys = computeKeyMaterial(suite, m, x, y)
    BY <1>3, <2>1, Zenon DEF KeysOf
  <2> QED
    BY <1>2, <2>1, <2>2, <2>3, Zenon
<1>5. PICK block2 :
          /\ KeyBlock(block2, c.master, c.client_random, c.server_random)
          /\ keys2 = Cut(block2, mac, key, iv)
  <2>1. PICK m, x, y : m = c.master /\ x = c.client_random /\ y = c.server_random
    OBVIOUS
  <2>2. PICK cut : /\ KeyBlock(cut, m, x, y)
                   /\ computeKeyMaterial(suite, m, x, y)
                        = Cut(cut, MACLength(suite), KeyLength(suite), FixedIvLength(suite))
    BY <1>1, KeysCut, Zenon
  <2>3. keys2 = computeKeyMaterial(suite, m, x, y)
    BY <1>3, <2>1, Zenon DEF KeysOf
  <2> QED
    BY <1>2, <2>1, <2>2, <2>3, Zenon
<1>6. end = from /\ block = block2
  <2>1. CASE key # 0 /\ keys[end].key = keys2[from].key
    BY <1>4, <1>5, <2>1 DEF Ends, Cut
  <2>2. CASE mac # 0 /\ keys[end].MAC_key = keys2[from].MAC_key
    BY <1>4, <1>5, <2>2 DEF Ends, Cut
  <2> QED
    BY <1>2, <1>3, <2>1, <2>2 DEF SharesKey
<1> QED
  BY <1>4, <1>5, <1>6 DEF SameAssociation, KeyBlock

\* A cipher hands on nothing but what the other end wrote in this association.
\* A record a delegate accepts has the content and the header of one that was
\* written by the other end and under the key material of this association,
\* whatever is put together from the records of any ends and associations, for
\* every suite, content and length.  The number of a record is meant as it is on
\* the wire.
THEOREM OnlyAuthenticPasses ==
    ASSUME NEW name \in DOMAIN CipherSuites, NEW suite, suite = CipherSuites[name],
           suite.cipherType # "null",
           NEW records, Contents(records),
           NEW packet, Arrives(suite, packet.fragment, records),
           NEW connEnd \in Ends, NEW association, NEW data, data # Rejected,
           data = Deciphered(suite, packet, KeysOf(suite, association), connEnd)
    PROVE  \E w \in records :
              /\ w.connEnd = sourceConnEnd(connEnd)
              /\ SameAssociation(w.association, association)
              /\ data = w.packet.fragment
              /\ \A length : Header(packet, length) = Header(w.packet, length)
<1>1. sourceConnEnd(connEnd) \in Ends
  BY DEF sourceConnEnd, Ends
<1>2. PICK material : material = KeysOf(suite, association)
  OBVIOUS
<1>3. PICK w \in records :
          /\ data = w.packet.fragment
          /\ \A length : Header(packet, length) = Header(w.packet, length)
          /\ SharesKey(suite, w.association, w.connEnd, association,
                       sourceConnEnd(connEnd))
  <2>1. CASE suite.cipherType = "aead"
    <3>1. suite.algorithm \in DOMAIN AEADCipherParameters
      BY <2>1, SuiteLengths
    <3>2. data = aeadDecipher(suite, packet, material, connEnd)
      BY <1>2, <2>1 DEF Deciphered
    <3>3. aeadDecipher(suite, packet, material, connEnd) # Rejected
      BY <3>2
    <3> QED
      BY <1>2, <2>1, <3>1, <3>2, <3>3, AEADAuthentic DEF SharesKey
  <2>2. CASE suite.cipherType = "block"
    <3>1. /\ suite.algorithm \in DOMAIN BlockCipherParameters
          /\ suite.macAlgorithm \in DOMAIN HMACLength
      BY <2>2, SuiteLengths
    <3>2. data = blockDecipher(suite, packet, material, connEnd)
      BY <1>2, <2>2 DEF Deciphered
    <3>3. blockDecipher(suite, packet, material, connEnd) # Rejected
      BY <3>2
    <3>4. PICK w \in records :
              /\ blockDecipher(suite, packet, material, connEnd) = w.packet.fragment
              /\ \A length : Header(packet, length) = Header(w.packet, length)
              /\ KeysOf(suite, w.association)[w.connEnd].MAC_key
                   = material[sourceConnEnd(connEnd)].MAC_key
      BY <2>2, <3>1, <3>3, BlockAuthentic
    <3> QED
      BY <1>2, <2>2, <3>2, <3>4, Zenon DEF SharesKey
  <2> QED
    BY <2>1, <2>2, SuiteLengths
<1>4. w.connEnd \in Ends
  BY DEF Contents
<1>5. w.connEnd = sourceConnEnd(connEnd) /\ SameAssociation(w.association, association)
  <2>1. PICK a, end, from : /\ a = w.association /\ end = w.connEnd
                            /\ from = sourceConnEnd(connEnd)
                            /\ end \in Ends /\ from \in Ends
    BY <1>1, <1>4
  <2>2. SharesKey(suite, a, end, association, from)
    BY <1>3, <2>1, Zenon
  <2>3. end = from /\ SameAssociation(a, association)
    BY <2>1, <2>2, KeysTell
  <2> QED
    BY <2>1, <2>3, Zenon
<1> QED
  BY <1>3, <1>5
=============================================================================
