-------------------------- MODULE RecordProtection --------------------------
(***************************************************************************)
(* What protects a record: the key block (src/TLS/ConnectionState.ts and    *)
(* PRF.ts), the ciphers of a suite (src/TLS/CipherSuite.ts), CBC with a     *)
(* MAC (BlockCipher.ts), and AEAD (AEADCipher.ts, src/lib/AEADCrypto.ts).   *)
(*                                                                          *)
(* Cryptography is symbolic, lengths are real: a MAC, a tag or a ciphertext *)
(* has the bytes the code gives it, and each of them names what it was made *)
(* from.  A packet is [type, version, epoch, sequence_number, fragment].    *)
(***************************************************************************)
EXTENDS Bytes

CONSTANT NumberLimit    \* a number is serialised modulo this

\* The decipher delegate throws: no sequence of bytes.
Rejected == [i \in {0} |-> Unwritten]

Smaller(m, n) == IF m < n THEN m ELSE n

\* Buffer.slice(-n) and Buffer.slice(0, -n).
Ending(bytes, n) == SubSeq(bytes, Len(bytes) - Smaller(n, Len(bytes)) + 1, Len(bytes))
AllBut(bytes, n) == SubSeq(bytes, 1, Len(bytes) - n)

-----------------------------------------------------------------------------
(* Cipher suites.                                                           *)

CipherSuite(macAlgorithm, cipherType, algorithm) ==
    [macAlgorithm |-> macAlgorithm, cipherType |-> cipherType, algorithm |-> algorithm]

\* The NULL suite, and those whose key exchange is a PSK, the only one the
\* handshake has.
CipherSuites ==
    [TLS_NULL_WITH_NULL_NULL         |-> CipherSuite("null", "null", "null"),
     TLS_PSK_WITH_3DES_EDE_CBC_SHA   |-> CipherSuite("sha1", "block", "des_ede3_cbc"),
     TLS_PSK_WITH_AES_128_CBC_SHA    |-> CipherSuite("sha1", "block", "aes_128_cbc"),
     TLS_PSK_WITH_AES_256_CBC_SHA    |-> CipherSuite("sha1", "block", "aes_256_cbc"),
     TLS_PSK_WITH_AES_128_CBC_SHA256 |-> CipherSuite("sha256", "block", "aes_128_cbc"),
     TLS_PSK_WITH_AES_256_CBC_SHA384 |-> CipherSuite("sha384", "block", "aes_256_cbc"),
     TLS_PSK_WITH_AES_128_GCM_SHA256 |-> CipherSuite("null", "aead", "aes_128_gcm"),
     TLS_PSK_WITH_AES_256_GCM_SHA384 |-> CipherSuite("null", "aead", "aes_256_gcm"),
     TLS_PSK_WITH_AES_128_CCM        |-> CipherSuite("null", "aead", "aes_128_ccm"),
     TLS_PSK_WITH_AES_256_CCM        |-> CipherSuite("null", "aead", "aes_256_ccm"),
     TLS_PSK_WITH_AES_128_CCM_8      |-> CipherSuite("null", "aead", "aes_128_ccm8"),
     TLS_PSK_WITH_AES_256_CCM_8      |-> CipherSuite("null", "aead", "aes_256_ccm8")]

BlockCipherParameters ==
    [aes_128_cbc  |-> [keyLength |-> 16, blockSize |-> 16, recordIvLength |-> 16],
     aes_256_cbc  |-> [keyLength |-> 32, blockSize |-> 16, recordIvLength |-> 16],
     des_ede3_cbc |-> [keyLength |-> 24, blockSize |->  8, recordIvLength |->  8]]

AEADParameters(keyLength, authTagLength) ==
    [keyLength |-> keyLength, fixedIvLength |-> 4, recordIvLength |-> 8,
     authTagLength |-> authTagLength]

AEADCipherParameters ==
    [aes_128_ccm  |-> AEADParameters(16, 16), aes_128_ccm8 |-> AEADParameters(16, 8),
     aes_256_ccm  |-> AEADParameters(32, 16), aes_256_ccm8 |-> AEADParameters(32, 8),
     aes_128_gcm  |-> AEADParameters(16, 16), aes_256_gcm  |-> AEADParameters(32, 16)]

HMACLength == [md5 |-> 16, sha1 |-> 20, sha256 |-> 32, sha384 |-> 48, sha512 |-> 64]

\* The getters Cipher and MAC, as far as lengths go; what a cipher does not
\* define is 0.
MACLength(suite) ==
    IF suite.cipherType = "block" THEN HMACLength[suite.macAlgorithm] ELSE 0
KeyLength(suite) ==
    CASE suite.cipherType = "block" -> BlockCipherParameters[suite.algorithm].keyLength
      [] suite.cipherType = "aead"  -> AEADCipherParameters[suite.algorithm].keyLength
      [] OTHER -> 0
FixedIvLength(suite) ==
    IF suite.cipherType = "aead"
    THEN AEADCipherParameters[suite.algorithm].fixedIvLength ELSE 0

-----------------------------------------------------------------------------
(* Key material.                                                            *)

\* PRF[...](secret, label, seed, length): as many hashes as it takes, trimmed
\* to the length.
PRF(secret, label, seed, length) ==
    [secret |-> secret, label |-> label, seed |-> seed, length |-> length]

MasterSecret(psk, client_random, server_random) ==
    PRF(psk, "master secret", <<client_random, server_random>>, 48)

\* Mutant: the MAC keys are read with the length of the cipher's keys.
computeKeyMaterialMisread(suite, master, client_random, server_random) ==
    LET mac  == MACLength(suite)
        key  == KeyLength(suite)
        iv   == FixedIvLength(suite)
        keyBlock == PRF(master, "key expansion", <<server_random, client_random>>,
                        2 * (mac + key + iv))
        read(offset, length) == <<keyBlock, offset, Smaller(offset + length, keyBlock.length)>>
    IN  [client |-> [MAC_key |-> read(0, key),  key |-> read(2 * mac, key),
                     IV |-> read(2 * (mac + key), iv)],
         server |-> [MAC_key |-> read(mac, key), key |-> read(2 * mac + key, key),
                     IV |-> read(2 * (mac + key) + iv, iv)]]

\* The six keys are consecutive slices <<block, from, to>> of the key block.
computeKeyMaterial(suite, master, client_random, server_random) ==
    LET mac  == MACLength(suite)
        key  == KeyLength(suite)
        iv   == FixedIvLength(suite)
        keyBlock == PRF(master, "key expansion", <<server_random, client_random>>,
                        2 * (mac + key + iv))
        read(offset, length) == <<keyBlock, offset, Smaller(offset + length, keyBlock.length)>>
    IN  [client |-> [MAC_key |-> read(0, mac),   key |-> read(2 * mac, key),
                     IV |-> read(2 * (mac + key), iv)],
         server |-> [MAC_key |-> read(mac, mac), key |-> read(2 * mac + key, key),
                     IV |-> read(2 * (mac + key) + iv, iv)]]

\* A delegate writes under the keys of its own end, and reads under the
\* other's.
Ends == {"client", "server"}
Uses == {"MAC_key", "key", "IV"}

\* Every key is as long as the suite wants it, and no two, of either end, share
\* a byte of the key block.
SlicesApart(suite, keys) ==
    LET length(use) == CASE use = "MAC_key" -> MACLength(suite)
                         [] use = "key"     -> KeyLength(suite)
                         [] use = "IV"      -> FixedIvLength(suite)
    IN  \A end \in Ends, use \in Uses :
            LET key == keys[end][use]
            IN  /\ key[3] - key[2] = length(use)
                /\ \A other \in Ends, use2 \in Uses :
                      <<other, use2>> # <<end, use>> =>
                          LET key2 == keys[other][use2]
                          IN  key[3] <= key2[2] \/ key2[3] <= key[2]

sourceConnEnd(connEnd) == IF connEnd = "client" THEN "server" ELSE "client"

-----------------------------------------------------------------------------
(* Parts of ciphertexts.                                                    *)

\* Mutant: the record number is left out.
HeaderUnnumbered(packet, length) ==
    <<packet.epoch, packet.type, packet.version, length>>

\* MACHeader and AdditionalData: the fields of the header and the length of
\* the content.
Header(packet, length) ==
    <<packet.epoch, packet.sequence_number % NumberLimit, packet.type,
      packet.version, length>>

\* crypto.randomBytes: never the same bytes for two records.
randomBytes(packet, connEnd, n) ==
    [i \in 1 .. n |-> <<"random", connEnd, packet.epoch, packet.sequence_number, i>>]

MAC(suite, key, packet, content) ==
    [i \in 1 .. MACLength(suite) |->
        <<"mac", key, Header(packet, Len(content)), content, i>>]

Tag(length, key, nonce, aad, content) ==
    [i \in 1 .. length |-> <<"tag", key, nonce, aad, content, i>>]

\* A byte of a ciphertext, and whether byte i of one is still as it was made.
Hide(mode, key, nonce, plain) ==
    [i \in DOMAIN plain |-> <<mode, key, nonce, i, plain[i]>>]
Intact(mode, key, ciphered, i) ==
    ciphered[i][1] = mode /\ ciphered[i][2] = key /\ ciphered[i][4] = i

\* CBC: a change garbles its block and the byte below it in the next one; the
\* block before the first is the IV.
RevealBlocks(blockSize, key, record_iv, ciphered) ==
    [i \in DOMAIN ciphered |->
        LET start == (i - 1) - ((i - 1) % blockSize)
        IN  IF /\ \A j \in start + 1 .. start + blockSize : Intact("cbc", key, ciphered, j)
               /\ IF start = 0 THEN ciphered[i][3][i] = record_iv[i]
                  ELSE Intact("cbc", key, ciphered, i - blockSize)
            THEN ciphered[i][5] ELSE <<"garbled", i>>]

\* The AEAD modes: a change garbles what it hits, another nonce everything.
Reveal(key, nonce, ciphered) ==
    [i \in DOMAIN ciphered |->
        IF Intact("aead", key, ciphered, i) /\ ciphered[i][3] = nonce
        THEN ciphered[i][5] ELSE <<"garbled", i>>]

-----------------------------------------------------------------------------
(* BlockCipher.                                                             *)

\* Mutant: a whole number of blocks gets a block of padding less.
paddingUnterminated(length, blockSize) ==
    LET overflow  == length % blockSize
        padLength == IF overflow > 0 THEN blockSize - overflow - 1 ELSE 0
    IN  [i \in 1 .. padLength + 1 |-> Byte(padLength)]

\* padLength + 1 bytes, each of value padLength.
padding(length, blockSize) ==
    LET overflow  == (length + 1) % blockSize
        padLength == IF overflow > 0 THEN blockSize - overflow ELSE 0
    IN  [i \in 1 .. padLength + 1 |-> Byte(padLength)]

blockCipher(suite, packet, material, connEnd) ==
    LET params    == BlockCipherParameters[suite.algorithm]
        plaintext == packet.fragment
                     \o MAC(suite, material[connEnd].MAC_key, packet, packet.fragment)
        record_iv == randomBytes(packet, connEnd, params.recordIvLength)
    IN  record_iv \o Hide("cbc", material[connEnd].key, record_iv,
                          plaintext \o padding(Len(plaintext), params.blockSize))

\* Checks the padding and strips it off.
Unpadded(deciphered) ==
    LET len           == Len(deciphered)
        paddingLength == Value(deciphered[len])
    IN  IF \/ len <= paddingLength
           \/ \E i \in 1 .. paddingLength :
                 Value(deciphered[len - i]) # paddingLength
        THEN Rejected
        ELSE AllBut(deciphered, paddingLength + 1)

\* Splits off the MAC and compares it with the one the packet should have.
Authenticated(suite, packet, key, plaintext) ==
    LET content == AllBut(plaintext, MACLength(suite))
    IN  IF Ending(plaintext, MACLength(suite)) = MAC(suite, key, packet, content)
        THEN content ELSE Rejected

\* Too short for an IV, no whole number of blocks, or no block: an exception.
blockDecipher(suite, packet, material, connEnd) ==
    LET params    == BlockCipherParameters[suite.algorithm]
        keys      == material[sourceConnEnd(connEnd)]
        ciphered  == SubSeq(packet.fragment, params.blockSize + 1, Len(packet.fragment))
        record_iv == SubSeq(packet.fragment, 1, params.recordIvLength)
        plaintext == Unpadded(RevealBlocks(params.blockSize, keys.key, record_iv,
                                           ciphered))
    IN  IF \/ Len(packet.fragment) < params.recordIvLength
           \/ Len(ciphered) % params.blockSize # 0
           \/ ciphered = <<>>
        THEN Rejected
        ELSE IF plaintext = Rejected THEN Rejected
        ELSE Authenticated(suite, packet, keys.MAC_key, plaintext)

-----------------------------------------------------------------------------
(* AEADCipher.                                                              *)

aeadCipher(suite, packet, material, connEnd) ==
    LET params == AEADCipherParameters[suite.algorithm]
        keys   == material[connEnd]
        nonce_explicit == randomBytes(packet, connEnd, params.recordIvLength)
        nonce  == <<keys.IV, nonce_explicit>>
        aad    == Header(packet, Len(packet.fragment))
    IN  nonce_explicit
        \o Hide("aead", keys.key, nonce, packet.fragment)
        \o Tag(params.authTagLength, keys.key, nonce, aad, packet.fragment)

\* The content's length is what is left without nonce and tag.
aeadDecipher(suite, packet, material, connEnd) ==
    LET params == AEADCipherParameters[suite.algorithm]
        keys   == material[sourceConnEnd(connEnd)]
        size   == Len(packet.fragment)
        overhead == params.recordIvLength + params.authTagLength
        nonce  == <<keys.IV, SubSeq(packet.fragment, 1, params.recordIvLength)>>
        aad    == Header(packet, size - overhead)
        ciphered  == SubSeq(packet.fragment, params.recordIvLength + 1,
                            size - params.authTagLength)
        plaintext == Reveal(keys.key, nonce, ciphered)
    IN  IF /\ size >= overhead
           /\ Ending(packet.fragment, params.authTagLength)
                = Tag(params.authTagLength, keys.key, nonce, aad, plaintext)
        THEN plaintext ELSE Rejected

-----------------------------------------------------------------------------
(* CipherSuite.specifyCipher and specifyDecipher.                           *)

Enciphered(suite, packet, material, connEnd) ==
    CASE suite.cipherType = "null"  -> packet.fragment
      [] suite.cipherType = "block" -> blockCipher(suite, packet, material, connEnd)
      [] suite.cipherType = "aead"  -> aeadCipher(suite, packet, material, connEnd)

Deciphered(suite, packet, material, connEnd) ==
    CASE suite.cipherType = "null"  -> packet.fragment
      [] suite.cipherType = "block" ->
             blockDecipher(suite, packet, material, connEnd)
      [] suite.cipherType = "aead"  -> aeadDecipher(suite, packet, material, connEnd)
=============================================================================
