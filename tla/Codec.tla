-------------------------------- MODULE Codec --------------------------------
(***************************************************************************)
(* How structures become bytes and bytes structures: src/lib/BitConverter,  *)
(* src/lib/util, src/TLS/TLSStruct, src/TLS/Vector, src/TLS/TypeSpecs.      *)
(*                                                                          *)
(* A type is a record made by one of the constructors of TypeSpecs; a value *)
(* of a structure is the sequence of its properties' values.  A byte has    *)
(* Base values (256 in the code), fewer for TLC, whose integers would not    *)
(* hold six bytes.  Offsets count from 0, as in the code.                    *)
(*                                                                          *)
(* TLSStruct and Vector call each other for as long as types are nested.    *)
(* Here each level is an operator of its own, as deep as messages are: a    *)
(* structure of vectors of structures of numbers and buffers.               *)
(***************************************************************************)
EXTENDS Bytes, SequencesExt

CONSTANTS
    Base,       \* values of a byte
    NaN,        \* what arithmetic with a byte past the end of a buffer gives
    Infinity,   \* Number.POSITIVE_INFINITY
    Thrown      \* an exception instead of an end

ASSUME BaseAssumption == Base \in Nat /\ Base > 1 /\ Chance < Base
ASSUME NoNumbers == NaN \notin Nat /\ Infinity \notin Nat /\ Thrown \notin Nat

\* Base to the power of n.
Power[n \in Nat] == IF n = 0 THEN 1 ELSE Base * Power[n - 1]

\* Bytes of the integers that `>>>' works on.
INT_BYTES == 4

-----------------------------------------------------------------------------
(* TypeSpecs.define.                                                        *)

Number(bytes) == [type |-> "number", bytes |-> bytes]
Struct(props) == [type |-> "struct", props |-> props]
Buffer(min, max) == [type |-> "buffer", min |-> min, max |-> max]
Vector(item, min, max, optional) ==
    [type |-> "vector", item |-> item, min |-> min, max |-> max,
     optional |-> optional]

isVariableLength(t) == t.min # t.max

\* The largest number of n bytes: the maxLength of most vectors.
Largest(n) == Power[n] - 1

-----------------------------------------------------------------------------
(* BitConverter, util.                                                      *)

\* `value >>>= 8' after each byte: what is above INT_BYTES bytes is lost.
numberToBuffer(value, n) ==
    [i \in 1 .. n |-> Byte(((value % Power[INT_BYTES]) \div Power[n - i]) % Base)]

\* Reading past the end makes the sum NaN.
bufferToNumber(buf, n, offset) ==
    LET number[i \in 0 .. n] ==
            IF i = 0 THEN 0 ELSE number[i - 1] * Base + Value(buf[offset + i])
    IN  IF offset + n > Len(buf) THEN NaN ELSE number[n]

\* How many bytes the number takes.
fitToWholeBytes(value) ==
    CHOOSE n \in 1 .. INT_BYTES : value < Power[n] /\ (n > 1 => value >= Power[n - 1])

-----------------------------------------------------------------------------
(* Serialising.                                                             *)

\* Vectors and buffers of variable length have it before their content.
WithLength(t, content) ==
    IF isVariableLength(t)
    THEN numberToBuffer(Len(content), fitToWholeBytes(t.max)) \o content
    ELSE content

serializeLeaf(t, value) ==
    IF t.type = "number" THEN numberToBuffer(value, t.bytes) ELSE WithLength(t, value)

serializeItem(t, value) ==
    IF t.type = "struct"
    THEN FlattenSeq([i \in DOMAIN t.props |-> serializeLeaf(t.props[i], value[i])])
    ELSE serializeLeaf(t, value)

serializeItems(t, value) ==
    FlattenSeq([i \in DOMAIN value |-> serializeItem(t.item, value[i])])

\* Nothing is written of an optional vector without items.
LeftOut(t, value) == t.type = "vector" /\ t.optional /\ value = <<>>

serializeProperty(t, value) ==
    IF t.type # "vector" THEN serializeItem(t, value)
    ELSE IF LeftOut(t, value) THEN <<>>
    ELSE WithLength(t, serializeItems(t, value))

serialize(t, value) ==
    FlattenSeq([i \in DOMAIN t.props |-> serializeProperty(t.props[i], value[i])])

-----------------------------------------------------------------------------
(* Deserialising: [value, end], where `end' is the offset after the value.   *)

Fails == [value |-> <<>>, end |-> Thrown]

\* The length of a vector or buffer, and where its content starts.
LengthBytes(t) == IF isVariableLength(t) THEN fitToWholeBytes(t.max) ELSE 0
LengthAt(t, buf, offset) ==
    IF isVariableLength(t) THEN bufferToNumber(buf, LengthBytes(t), offset)
                           ELSE t.max

\* Mutant: a length that is missing is 0.
bufferFromUnchecked(t, buf, offset) ==
    LET start  == offset + LengthBytes(t)
        length == IF t.max = Infinity THEN Len(buf) - offset
                  ELSE IF LengthAt(t, buf, offset) = NaN THEN 0
                  ELSE LengthAt(t, buf, offset)
    IN  [value |-> [i \in 1 .. length |-> IF start + i <= Len(buf)
                                          THEN buf[start + i] ELSE Unwritten],
         end   |-> start + length]

\* allocUnsafe throws for NaN, and copy for a start beyond the end; bytes that
\* are not there are not copied, and the end is then past the end of buf.
bufferFrom(t, buf, offset) ==
    LET start  == offset + LengthBytes(t)
        length == IF t.max = Infinity THEN Len(buf) - offset
                                      ELSE LengthAt(t, buf, offset)
    IN  IF length = NaN \/ start > Len(buf) THEN Fails
        ELSE [value |-> [i \in 1 .. length |-> IF start + i <= Len(buf)
                                               THEN buf[start + i] ELSE Unwritten],
              end   |-> start + length]

\* F(v), for which TLC evaluates v only once.
Once(v, F(_)) == CHOOSE y \in {F(x) : x \in {v}} : TRUE

\* A reader maps the offsets of a buffer to what is found there.  After the
\* values read so far, the next one.
Then(before, reader) ==
    IF before.end = Thrown THEN Fails
    ELSE Once(reader[before.end], LAMBDA next :
            IF next.end = Thrown THEN Fails
            ELSE [value |-> Append(before.value, next.value), end |-> next.end])

\* TLSStruct.deserialize: one property after the other.
propertiesFrom(readers, offset) ==
    LET parsed[n \in 0 .. Len(readers)] ==
            IF n = 0 THEN [value |-> <<>>, end |-> offset]
            ELSE Then(parsed[n - 1], readers[n])
    IN  parsed[Len(readers)]

\* The loops of Vector.deserialize: items are read while they start before
\* the announced end; the last of them may reach beyond it.  There are no more
\* of them than bytes, for one without a byte is an exception.
More(before, reader, until) ==
    IF before.end = Thrown \/ before.end >= until THEN before
    ELSE Once(Then(before, reader), LAMBDA after :
            IF after.end # Thrown /\ after.end <= before.end THEN Fails ELSE after)

itemsFrom(reader, start, length) ==
    LET parsed[n \in 0 .. length] ==
            IF n = 0 THEN [value |-> <<>>, end |-> start]
            ELSE More(parsed[n - 1], reader, start + length)
    IN  parsed[length]

leafFrom(t, buf, offset) ==
    IF t.type = "number" THEN [value |-> bufferToNumber(buf, t.bytes, offset),
                               end   |-> offset + t.bytes]
    ELSE bufferFrom(t, buf, offset)

itemFrom(t, buf, offset) ==
    IF t.type = "struct"
    THEN propertiesFrom([i \in DOMAIN t.props |->
                            [o \in Nat |-> leafFrom(t.props[i], buf, o)]], offset)
    ELSE leafFrom(t, buf, offset)

Items(t, buf) == [o \in Nat |-> itemFrom(t.item, buf, o)]

\* Mutant: the items go on to the end of the buffer.
vectorFromUnbounded(t, buf, offset) ==
    LET start == offset + LengthBytes(t)
    IN  IF buf = <<>> THEN IF t.optional THEN [value |-> <<>>, end |-> offset] ELSE Fails
        ELSE itemsFrom(Items(t, buf), start, IF start > Len(buf) THEN 0 ELSE Len(buf) - start)

\* Vector.from: only an empty buffer counts as `nothing to deserialize'; a
\* length that is missing is NaN, and then no item is read.
vectorFrom(t, buf, offset) ==
    LET length == LengthAt(t, buf, offset)
    IN  IF buf = <<>> THEN IF t.optional THEN [value |-> <<>>, end |-> offset] ELSE Fails
        ELSE itemsFrom(Items(t, buf), offset + LengthBytes(t), IF length = NaN THEN 0 ELSE length)

propertyFrom(t, buf, offset) ==
    IF t.type = "vector" THEN vectorFrom(t, buf, offset) ELSE itemFrom(t, buf, offset)

from(t, buf, offset) ==
    propertiesFrom([i \in DOMAIN t.props |->
                       [o \in Nat |-> propertyFrom(t.props[i], buf, o)]], offset)

-----------------------------------------------------------------------------
(* The values that fit a type and are read as they were written, with       *)
(* content from a set of bytes.                                             *)

Digits == {Byte(v) : v \in 0 .. Base - 1}

Listing(s) == Len(s) \in Nat /\ s = [i \in 1 .. Len(s) |-> s[i]]

LengthFits(t, content) ==
    IF isVariableLength(t)
    THEN t.max \in Nat /\ t.max < Power[INT_BYTES] /\ Len(content) <= t.max
    ELSE Len(content) = t.max

leafFits(t, value, S) ==
    \/ /\ t.type = "number" /\ t.bytes \in Nat
       /\ value \in Nat /\ value < Power[t.bytes] /\ value < Power[INT_BYTES]
    \/ t.type = "buffer" /\ value \in Seq(S) /\ LengthFits(t, value)

itemFits(t, value, S) ==
    IF t.type = "struct"
    THEN /\ Listing(t.props) /\ Listing(value) /\ Len(value) = Len(t.props)
         /\ \A i \in DOMAIN t.props : leafFits(t.props[i], value[i], S)
    ELSE leafFits(t, value, S)

propertyFits(t, value, S) ==
    IF t.type # "vector" THEN itemFits(t, value, S)
    ELSE /\ isVariableLength(t) /\ LengthFits(t, serializeItems(t, value)) /\ Listing(value)
         /\ \A i \in DOMAIN value :
               itemFits(t.item, value[i], S) /\ serializeItem(t.item, value[i]) # <<>>

\* Only the last property may be left out, or take what is left of a buffer.
Whole(t) == t.type = "buffer" /\ t.min = Infinity /\ t.max = Infinity
fits(t, value, S) ==
    /\ Listing(t.props) /\ Listing(value) /\ Len(value) = Len(t.props)
    /\ \A i \in DOMAIN t.props :
          IF Whole(t.props[i]) THEN i = Len(value) /\ value[i] \in Seq(S)
          ELSE /\ propertyFits(t.props[i], value[i], S)
               /\ i < Len(value) => ~ LeftOut(t.props[i], value[i])
=============================================================================
