------------------------ MODULE RecordExchangeProofs ------------------------
(***************************************************************************)
(* What a datagram carries is what was put into it, for every base, suite,  *)
(* number and list of encodable messages: proofs about RecordExchange.      *)
(*                                                                          *)
(* The first part is about the codec: a structure whose values fit its      *)
(* types is read back as it was written, wherever it stands in a buffer     *)
(* and whatever follows.  The second is about records: what a cipher makes  *)
(* of a content, what is parsed of any bytes, and how a record and its      *)
(* message come through.  The third is the inductive invariant, which says  *)
(* of every moment how far what was parsed and received follows what was    *)
(* written, and its steps.                                                  *)
(***************************************************************************)
EXTENDS RecordExchange, RecordProtectionProofs, WellFoundedInduction

-----------------------------------------------------------------------------
(* Induction and recursion.                                                 *)

\* Induction with the property as a set.
LEMMA Inductive ==
    ASSUME NEW S \in SUBSET Nat, 0 \in S, \A n \in S : n + 1 \in S
    PROVE  S = Nat
<1> SUFFICES ASSUME Nat \ S # {} PROVE FALSE
  OBVIOUS
<1> DEFINE R == {ss \in Nat \X Nat : ss[1] < ss[2]}
<1>1. IsWellFoundedOn(R, Nat)
  BY NatLessThanWellFounded DEF OpToRel
<1>2. PICK x \in Nat \ S : \A y \in Nat \ S : ~ (<<y, x>> \in R)
  <2>1. Nat \ S \in SUBSET Nat
    OBVIOUS
  <2> QED
    BY <1>1, <2>1, WFMin, Zenon
<1>3. x # 0 /\ x \in Nat
  BY <1>2
<1>4. x - 1 \in Nat /\ x - 1 < x /\ (x - 1) + 1 = x
  BY <1>3
<1>5. x - 1 \in S
  BY <1>2, <1>4
<1> QED
  BY <1>2, <1>4, <1>5

\* f[n] is what n steps make of base.
Repeats(f, V, base, step, N) ==
    f \in [0 .. N -> V] /\ f[0] = base /\ \A n \in 1 .. N : f[n] = step[<<n, f[n - 1]>>]

\* Any number of steps can be made.
LEMMA Repeated ==
    ASSUME NEW V, NEW base \in V, NEW step \in [Nat \X V -> V], NEW N \in Nat
    PROVE  \E f : Repeats(f, V, base, step, N)
<1> DEFINE P(m) == \E f \in [0 .. m -> V] :
                      f[0] = base /\ \A n \in 1 .. m : f[n] = step[<<n, f[n - 1]>>]
           S == {m \in Nat : P(m)}
<1>1. 0 \in S
  <2> DEFINE f == [n \in 0 .. 0 |-> base]
  <2>1. f \in [0 .. 0 -> V] /\ f[0] = base
    OBVIOUS
  <2>2. 1 .. 0 = {}
    OBVIOUS
  <2> HIDE DEF f
  <2>3. P(0)
    BY <2>1, <2>2, Zenon
  <2> QED
    BY <2>3
<1>2. ASSUME NEW m \in S PROVE m + 1 \in S
  <2>1. PICK f \in [0 .. m -> V] :
            f[0] = base /\ \A n \in 1 .. m : f[n] = step[<<n, f[n - 1]>>]
    BY <1>2
  <2> DEFINE g == [n \in 0 .. m + 1 |-> IF n = m + 1 THEN step[<<m + 1, f[m]>>] ELSE f[n]]
  <2>2. g \in [0 .. m + 1 -> V]
    BY <2>1
  <2>3. g[0] = base
    BY <2>1
  <2>4. \A n \in 1 .. m + 1 : g[n] = step[<<n, g[n - 1]>>]
    <3> SUFFICES ASSUME NEW n \in 1 .. m + 1 PROVE g[n] = step[<<n, g[n - 1]>>]
      OBVIOUS
    <3>1. n - 1 \in 0 .. m /\ g[n - 1] = f[n - 1]
      OBVIOUS
    <3>2. CASE n = m + 1
      <4>1. n - 1 = m /\ g[m + 1] = step[<<m + 1, f[m]>>]
        BY <3>2
      <4> HIDE DEF g
      <4> QED
        BY <3>1, <3>2, <4>1, Zenon
    <3>3. CASE n \in 1 .. m
      <4>1. g[n] = f[n]
        BY <3>3
      <4> HIDE DEF g
      <4> QED
        BY <2>1, <3>1, <3>3, <4>1, Zenon
    <3> QED
      BY <3>2, <3>3
  <2> HIDE DEF g
  <2>5. P(m + 1)
    BY <2>2, <2>3, <2>4, Zenon
  <2> QED
    BY <2>5
<1>3. S = Nat
  <2>1. S \in SUBSET Nat
    OBVIOUS
  <2> HIDE DEF S
  <2> QED
    BY <1>1, <1>2, <2>1, Inductive
<1> QED
  BY <1>3 DEF Repeats

\* Powers are what they are defined to be.
LEMMA Powers ==
    /\ Power[0] = 1
    /\ \A n \in Nat : Power[n + 1] = Base * Power[n]
    /\ \A n \in Nat : Power[n] \in Nat \ {0}
<1> DEFINE step == [nv \in Nat \X Nat |-> Base * nv[2]]
           Q(f, N) == /\ f \in [0 .. N -> Nat] /\ f[0] = 1
                      /\ \A n \in 1 .. N : f[n] = step[<<n, f[n - 1]>>]
           upto(N) == CHOOSE f : Q(f, N)
           power == [n \in Nat |-> upto(n)[n]]
<1>1. step \in [Nat \X Nat -> Nat]
  BY BaseAssumption
<1>2. ASSUME NEW N \in Nat PROVE Q(upto(N), N)
  <2>1. \E f : Repeats(f, Nat, 1, step, N)
    <3>1. PICK V, one, next : /\ V = Nat /\ one = 1 /\ next = step
                             /\ one \in V /\ next \in [Nat \X V -> V]
      BY <1>1
    <3>2. \E f : Repeats(f, V, one, next, N)
      BY <3>1, Repeated, Zenon
    <3> QED
      BY <3>1, <3>2, Zenon
  <2>2. \E f : Q(f, N)
    BY <2>1, Zenon DEF Repeats
  <2> HIDE DEF Q
  <2> QED
    BY <2>2
<1>3. ASSUME NEW N \in Nat, NEW M \in Nat, NEW f, NEW g, Q(f, N), Q(g, M)
      PROVE  \A n \in 0 .. N : n <= M => f[n] = g[n]
  <2> DEFINE S == {n \in Nat : n <= N /\ n <= M => f[n] = g[n]}
  <2>1. 0 \in S
    BY <1>3
  <2>2. ASSUME NEW n \in S PROVE n + 1 \in S
    <3> SUFFICES ASSUME n + 1 <= N, n + 1 <= M PROVE f[n + 1] = g[n + 1]
      OBVIOUS
    <3>1. f[n] = g[n]
      BY <2>2
    <3>2. n + 1 \in 1 .. N /\ n + 1 \in 1 .. M /\ (n + 1) - 1 = n
      BY <2>2
    <3> HIDE DEF step
    <3>3. f[n + 1] = step[<<n + 1, f[n]>>] /\ g[n + 1] = step[<<n + 1, g[n]>>]
      BY <1>3, <3>2
    <3> QED
      BY <3>1, <3>3
  <2>3. S = Nat
    <3>1. S \in SUBSET Nat
      OBVIOUS
    <3> HIDE DEF S
    <3> QED
      BY <2>1, <2>2, <3>1, Inductive
  <2> QED
    BY <2>3
<1>4. ASSUME NEW n \in Nat
      PROVE  /\ power[n] \in Nat
             /\ power[n] = IF n = 0 THEN 1 ELSE Base * power[n - 1]
  <2> HIDE DEF upto
  <2>1. Q(upto(n), n)
    BY <1>2
  <2>2. CASE n = 0
    BY <2>1, <2>2
  <2>3. CASE n # 0
    <3>1. n - 1 \in Nat /\ n - 1 \in 0 .. n /\ n \in 1 .. n
      BY <2>3
    <3>2. Q(upto(n - 1), n - 1)
      BY <1>2, <3>1
    <3>3. upto(n)[n - 1] = upto(n - 1)[n - 1]
      <4> HIDE DEF Q
      <4> QED
        BY <1>3, <2>1, <3>1, <3>2
    <3>4. upto(n)[n] = Base * upto(n)[n - 1] /\ upto(n)[n] \in Nat
      <4>1. /\ upto(n) \in [0 .. n -> Nat]
            /\ upto(n)[n] = step[<<n, upto(n)[n - 1]>>]
        <5> HIDE DEF step
        <5> QED
          BY <2>1, <3>1, Zenon
      <4>2. upto(n)[n - 1] \in Nat /\ upto(n)[n] \in Nat
        BY <3>1, <4>1
      <4> QED
        BY <4>1, <4>2
    <3> QED
      BY <2>3, <3>1, <3>3, <3>4
  <2> QED
    BY <2>2, <2>3
<1>5. power = [n \in Nat |-> IF n = 0 THEN 1 ELSE Base * power[n - 1]]
  <2>1. power = [n \in Nat |-> power[n]]
    <3> HIDE DEF upto, Q, step
    <3> QED
      OBVIOUS
  <2> HIDE DEF power
  <2> QED
    BY <1>4, <2>1
<1> HIDE DEF power
<1>6. Power = [n \in Nat |-> IF n = 0 THEN 1 ELSE Base * Power[n - 1]]
  BY <1>5 DEF Power
<1> HIDE DEF step, Q, upto
<1>7. \A n \in Nat : Power[n + 1] = Base * Power[n]
  <2> TAKE n \in Nat
  <2>1. n + 1 \in Nat /\ n + 1 # 0 /\ (n + 1) - 1 = n
    OBVIOUS
  <2> QED
    BY <1>6, <2>1
<1>8. Power[0] = 1
  BY <1>6
<1> DEFINE S == {n \in Nat : Power[n] \in Nat \ {0}}
<1>9. S = Nat
  <2>1. 0 \in S
    BY <1>8
  <2>2. ASSUME NEW n \in S PROVE n + 1 \in S
    BY <1>7, <2>2, BaseAssumption
  <2>3. S \in SUBSET Nat
    OBVIOUS
  <2> HIDE DEF S
  <2> QED
    BY <2>1, <2>2, <2>3, Inductive
<1> QED
  BY <1>7, <1>8, <1>9

\* A power of the base is a positive number.
LEMMA PowerPositive ==
    ASSUME NEW n \in Nat
    PROVE  Power[n] \in Nat /\ Power[n] > 0
<1>1. Power[n] \in Nat \ {0}
  BY Powers, Zenon
<1> QED
  BY <1>1

-----------------------------------------------------------------------------
(* Numbers.                                                                 *)

\* bufferToNumber adds one byte after the other.
Sums(f, buf, n, o) ==
    /\ \A i \in 0 .. n : f[i] \in Nat
    /\ f[0] = 0
    /\ \A i \in 1 .. n : f[i] = f[i - 1] * Base + Value(buf[o + i])

\* A number with one more digit is a number.
LEMMA ShiftedIn ==
    ASSUME NEW a \in Nat, NEW d \in Nat
    PROVE  a * Base + d \in Nat
<1>1. PICK b \in Nat : b = Base
  BY BaseAssumption
<1>2. a * b + d \in Nat
  OBVIOUS
<1> QED
  BY <1>1, <1>2, Zenon

\* Reading a number sums its bytes up, each a digit.
LEMMA NumberSums ==
    ASSUME NEW buf, NEW n \in Nat, NEW o \in Nat, Len(buf) \in Nat, o + n <= Len(buf),
           \A i \in 1 .. n : Value(buf[o + i]) \in Nat
    PROVE  \E f : Sums(f, buf, n, o) /\ bufferToNumber(buf, n, o) = f[n]
<1> DEFINE step == [nv \in Nat \X Nat |->
                       IF nv[1] \in 1 .. n THEN nv[2] * Base + Value(buf[o + nv[1]]) ELSE 0]
           Q(f) == f = [i \in 0 .. n |-> IF i = 0 THEN 0
                                        ELSE f[i - 1] * Base + Value(buf[o + i])]
<1>1. step \in [Nat \X Nat -> Nat]
  <2>1. ASSUME NEW nv \in Nat \X Nat, nv[1] \in 1 .. n
        PROVE  nv[2] * Base + Value(buf[o + nv[1]]) \in Nat
    <3>1. PICK v \in Nat : v = Value(buf[o + nv[1]])
      BY <2>1
    <3>2. nv[2] * Base \in Nat
      BY BaseAssumption
    <3> QED
      BY <3>1, <3>2
  <2> QED
    BY <2>1
<1>2. PICK f : Repeats(f, Nat, 0, step, n)
  <2>1. PICK V, base, next : /\ V = Nat /\ base = 0 /\ next = step
                            /\ base \in V /\ next \in [Nat \X V -> V]
    BY <1>1
  <2>2. \E f : Repeats(f, V, base, next, n)
    BY <2>1, Repeated, Zenon
  <2> QED
    BY <2>1, <2>2, Zenon
<1>3. /\ f \in [0 .. n -> Nat] /\ f[0] = 0
      /\ \A i \in 1 .. n : f[i] = step[<<i, f[i - 1]>>]
  BY <1>2 DEF Repeats
<1>4. \A i \in 1 .. n : f[i] = f[i - 1] * Base + Value(buf[o + i])
  <2> TAKE i \in 1 .. n
  <2>1. i \in Nat /\ f[i - 1] \in Nat
    BY <1>3
  <2> QED
    BY <1>3, <2>1
<1>5. Q(f)
  BY <1>3, <1>4
<1>6. PICK g : g = CHOOSE h : Q(h)
  OBVIOUS
<1>7. Q(g)
  <2> HIDE DEF Q
  <2> QED
    BY <1>5, <1>6
<1>8. bufferToNumber(buf, n, o) = g[n]
  <2>1. ~ (o + n > Len(buf))
    OBVIOUS
  <2> QED
    BY <1>6, <2>1, Zenon DEF bufferToNumber
<1>9. /\ g[0] = 0
      /\ \A i \in 1 .. n : g[i] = g[i - 1] * Base + Value(buf[o + i])
  BY <1>7
<1> DEFINE S == {i \in Nat : i <= n => g[i] \in Nat}
<1>10. S = Nat
  <2>1. 0 \in S
    BY <1>9
  <2>2. ASSUME NEW i \in S PROVE i + 1 \in S
    <3> SUFFICES ASSUME i + 1 <= n PROVE g[i + 1] \in Nat
      OBVIOUS
    <3>1. i + 1 \in 1 .. n /\ (i + 1) - 1 = i /\ g[i] \in Nat
      BY <2>2
    <3>2. g[i + 1] = g[i] * Base + Value(buf[o + (i + 1)]) /\ Value(buf[o + (i + 1)]) \in Nat
      BY <1>9, <3>1
    <3>3. g[i] * Base + Value(buf[o + (i + 1)]) \in Nat
      BY <3>1, <3>2, ShiftedIn, Zenon
    <3> QED
      BY <3>2, <3>3, Zenon
  <2>3. S \in SUBSET Nat
    OBVIOUS
  <2> HIDE DEF S
  <2> QED
    BY <2>1, <2>2, <2>3, Inductive
<1>11. \A i \in 0 .. n : g[i] \in Nat
  BY <1>10
<1> HIDE DEF Q, S
<1> QED
  BY <1>8, <1>9, <1>11, Zenon DEF Sums

\* What is read from n bytes is less than the n-th power of the base.
LEMMA NumberBelow ==
    ASSUME NEW buf, NEW n \in Nat, NEW o \in Nat, Len(buf) \in Nat, o + n <= Len(buf),
           \A i \in 1 .. n : Value(buf[o + i]) \in 0 .. Base - 1
    PROVE  bufferToNumber(buf, n, o) \in 0 .. Power[n] - 1
<1>1. \A i \in 1 .. n : Value(buf[o + i]) \in Nat
  <2> TAKE i \in 1 .. n
  <2>1. Value(buf[o + i]) \in 0 .. Base - 1
    OBVIOUS
  <2> QED
    BY <2>1, BaseAssumption
<1>2. PICK f : Sums(f, buf, n, o) /\ bufferToNumber(buf, n, o) = f[n]
  BY <1>1, NumberSums
<1>5. /\ \A i \in 0 .. n : f[i] \in Nat
      /\ f[0] = 0
      /\ \A i \in 1 .. n : f[i] = f[i - 1] * Base + Value(buf[o + i])
  BY <1>2 DEF Sums
<1> DEFINE S == {i \in Nat : i <= n => f[i] < Power[i]}
<1>3. S = Nat
  <2>1. 0 \in S
    <3>1. f[0] = 0 /\ Power[0] = 1
      BY <1>5, Powers, Zenon
    <3>2. f[0] < Power[0]
      BY <3>1
    <3> QED
      BY <3>2
  <2>2. ASSUME NEW i \in S PROVE i + 1 \in S
    <3> SUFFICES ASSUME i + 1 <= n PROVE f[i + 1] < Power[i + 1]
      OBVIOUS
    <3>1. PICK p, q, v : p = f[i] /\ q = Power[i] /\ v = Value(buf[o + (i + 1)])
      OBVIOUS
    <3>2. p \in Nat /\ q \in Nat /\ p < q
      <4>1. i \in 0 .. n /\ Power[i] \in Nat /\ f[i] < Power[i]
        <5>1. i <= n /\ i \in Nat
          BY <2>2
        <5>2. f[i] < Power[i]
          BY <2>2, <5>1
        <5> QED
          BY <5>1, <5>2, PowerPositive
      <4> QED
        BY <1>5, <3>1, <4>1
    <3>3. i + 1 \in 1 .. n /\ (i + 1) - 1 = i
      BY <2>2
    <3>4. v \in 0 .. Base - 1 /\ f[i + 1] = p * Base + v
      BY <1>5, <3>1, <3>3
    <3>5. Power[i + 1] = Base * q
      BY <2>2, <3>1, Powers
    <3>6. p * Base <= (q - 1) * Base
      BY <3>2, BaseAssumption
    <3>7. (q - 1) * Base = Base * q - Base
      BY <3>2, BaseAssumption
    <3>8. p * Base \in Nat /\ Base * q \in Nat
      BY <3>2, BaseAssumption
    <3> QED
      BY <3>4, <3>5, <3>6, <3>7, <3>8, BaseAssumption
  <2>3. S \in SUBSET Nat
    OBVIOUS
  <2> HIDE DEF S
  <2> QED
    BY <2>1, <2>2, <2>3, Inductive
<1>4. f[n] \in Nat /\ f[n] < Power[n] /\ Power[n] \in Nat
  <2>1. Power[n] \in Nat /\ n \in 0 .. n
    BY PowerPositive
  <2>2. f[n] < Power[n]
    <3>1. n \in S
      BY <1>3
    <3> QED
      BY <3>1
  <2> QED
    BY <1>5, <2>1, <2>2
<1> QED
  BY <1>2, <1>4

\* The quotient is the only number that leaves a rest below the divisor.
LEMMA Quotient ==
    ASSUME NEW d \in Nat \ {0}, NEW w \in Nat, NEW q \in Nat, NEW r \in 0 .. d - 1,
           w = d * q + r
    PROVE  w \div d = q
<1>1. PICK p, s : p = w \div d /\ s = w % d
  OBVIOUS
<1>2. p \in Nat /\ s \in 0 .. d - 1 /\ w = d * p + s
  BY <1>1, Division
<1>3. p <= q
  <2> SUFFICES ASSUME p >= q + 1 PROVE FALSE
    BY <1>2
  <2>1. d * p >= d * (q + 1)
    BY <1>2
  <2>2. d * (q + 1) = d * q + d
    OBVIOUS
  <2>3. d * p \in Nat /\ d * q \in Nat
    BY <1>2
  <2> QED
    BY <1>2, <2>1, <2>2, <2>3
<1>4. q <= p
  <2> SUFFICES ASSUME q >= p + 1 PROVE FALSE
    BY <1>2
  <2>1. d * q >= d * (p + 1)
    BY <1>2
  <2>2. d * (p + 1) = d * p + d
    BY <1>2
  <2>3. d * p \in Nat /\ d * q \in Nat
    BY <1>2
  <2> QED
    BY <1>2, <2>1, <2>2, <2>3
<1> QED
  BY <1>1, <1>2, <1>3, <1>4

\* Dividing by d and then by b is dividing by their product.
LEMMA QuotientOfQuotient ==
    ASSUME NEW d \in Nat \ {0}, NEW b \in Nat \ {0}, NEW w \in Nat
    PROVE  /\ w \div (b * d) \in Nat
           /\ w \div d = (w \div (b * d)) * b + ((w \div d) % b)
           /\ (w \div d) % b \in 0 .. b - 1
<1>1. PICK q, r : q = w \div d /\ r = w % d
  OBVIOUS
<1>2. q \in Nat /\ r \in 0 .. d - 1 /\ w = d * q + r
  BY <1>1, Division
<1>3. PICK s, t : s = q \div b /\ t = q % b
  OBVIOUS
<1>4. s \in Nat /\ t \in 0 .. b - 1 /\ q = b * s + t
  BY <1>2, <1>3, Division
<1>5. w = (b * d) * s + (d * t + r)
  <2>1. d * q = d * (b * s) + d * t
    BY <1>2, <1>4
  <2>2. d * (b * s) = (b * d) * s
    BY <1>4
  <2>3. PICK x, y, z : x = d * q /\ y = (b * d) * s /\ z = d * t
    OBVIOUS
  <2>4. x \in Int /\ y \in Int /\ z \in Int /\ x = y + z
    BY <1>2, <1>4, <2>1, <2>2, <2>3
  <2>5. w = x + r
    BY <1>2, <2>3
  <2>6. w = y + (z + r)
    BY <1>2, <2>4, <2>5
  <2> QED
    BY <2>3, <2>6, Zenon
<1>6. d * t + r \in 0 .. b * d - 1 /\ b * d \in Nat \ {0}
  <2>1. d * t <= d * (b - 1)
    BY <1>4
  <2>2. d * (b - 1) = b * d - d
    OBVIOUS
  <2>3. d * t \in Nat /\ b * d \in Nat
    BY <1>4
  <2>4. b * d # 0
    OBVIOUS
  <2> QED
    BY <1>2, <2>1, <2>2, <2>3, <2>4
<1>7. w \div (b * d) = s
  <2>1. PICK bd, rest : bd = b * d /\ rest = d * t + r
    OBVIOUS
  <2> QED
    BY <1>4, <1>5, <1>6, <2>1, Quotient
<1>8. b * s = s * b
  BY <1>4
<1> QED
  BY <1>1, <1>3, <1>4, <1>7, <1>8

\* A sequence of bytes stands in a buffer behind offset o.
At(buf, o, bytes) ==
    /\ Len(buf) \in Nat /\ o + Len(bytes) <= Len(buf)
    /\ \A i \in 1 .. Len(bytes) : buf[o + i] = bytes[i]

\* A number is written as so many digits.
LEMMA NumberDigits ==
    ASSUME NEW w \in Nat, NEW n \in Nat
    PROVE  /\ numberToBuffer(w, n) \in Seq(Digits)
           /\ Len(numberToBuffer(w, n)) = n
<1>1. ASSUME NEW i \in 1 .. n
      PROVE  ((w % Power[INT_BYTES]) \div Power[n - i]) % Base \in 0 .. Base - 1
  <2>1. n - i \in Nat /\ INT_BYTES \in Nat
    BY DEF INT_BYTES
  <2>2. PICK p, q : p = Power[INT_BYTES] /\ q = Power[n - i]
    OBVIOUS
  <2>3. p \in Nat \ {0} /\ q \in Nat \ {0}
    BY <2>1, <2>2, PowerPositive
  <2>4. w % p \in Nat
    BY <2>3, Division
  <2>5. (w % p) \div q \in Nat
    BY <2>3, <2>4, Division
  <2>6. Base \in Nat \ {0}
    BY BaseAssumption
  <2>7. ((w % p) \div q) % Base \in 0 .. Base - 1
    BY <2>5, <2>6, Division
  <2> QED
    BY <2>2, <2>7, Zenon
<1>2. \A i \in 1 .. n :
          Byte(((w % Power[INT_BYTES]) \div Power[n - i]) % Base) \in Digits
  BY <1>1, Zenon DEF Digits
<1> QED
  BY <1>2 DEF numberToBuffer

\* A number that fits is read as it was written.
LEMMA NumberRead ==
    ASSUME NEW w \in Nat, NEW n \in Nat, w < Power[n], w < Power[INT_BYTES],
           NEW buf, NEW o \in Nat, At(buf, o, numberToBuffer(w, n))
    PROVE  bufferToNumber(buf, n, o) = w
<1> DEFINE digit(i) == (w \div Power[n - i]) % Base
<1>1. w % Power[INT_BYTES] = w
  <2>1. PICK p : p = Power[INT_BYTES]
    OBVIOUS
  <2>2. p \in Nat \ {0} /\ w < p
    BY <2>1, PowerPositive DEF INT_BYTES
  <2>3. w \div p = 0 /\ p * 0 = 0
    <3>1. w = p * 0 + w /\ w \in 0 .. p - 1 /\ 0 \in Nat
      BY <2>2
    <3> QED
      BY <2>2, <3>1, Quotient
  <2>4. w = p * (w \div p) + (w % p) /\ w % p \in Nat
    BY <2>2, Division
  <2> QED
    BY <2>1, <2>3, <2>4
<1>2. /\ Len(buf) \in Nat /\ o + n <= Len(buf)
      /\ \A i \in 1 .. n : buf[o + i] = Byte(digit(i))
  <2>1. Len(numberToBuffer(w, n)) = n
    BY NumberDigits
  <2>2. \A i \in 1 .. n : numberToBuffer(w, n)[i] = Byte(digit(i))
    BY <1>1 DEF numberToBuffer
  <2> QED
    BY <2>1, <2>2, Zenon DEF At
<1>3. \A i \in 1 .. n : Value(buf[o + i]) = digit(i) /\ digit(i) \in Nat
  <2> TAKE i \in 1 .. n
  <2>1. n - i \in Nat
    OBVIOUS
  <2>2. PICK d, b : d = Power[n - i] /\ b = Base
    OBVIOUS
  <2>3. d \in Nat \ {0} /\ b \in Nat \ {0}
    BY <2>1, <2>2, PowerPositive, BaseAssumption
  <2>4. (w \div d) % b \in 0 .. b - 1
    BY <2>3, QuotientOfQuotient
  <2>5. Value(buf[o + i]) = digit(i)
    BY <1>2, ByteValue
  <2> QED
    BY <2>2, <2>3, <2>4, <2>5
<1>4. PICK f : Sums(f, buf, n, o) /\ bufferToNumber(buf, n, o) = f[n]
  <2>1. \A i \in 1 .. n : Value(buf[o + i]) \in Nat
    BY <1>3
  <2> QED
    BY <1>2, <2>1, NumberSums
<1>5. /\ f[0] = 0
      /\ \A i \in 1 .. n : f[i] = f[i - 1] * Base + digit(i)
  BY <1>3, <1>4 DEF Sums
<1> DEFINE S == {i \in Nat : i <= n => f[i] = w \div Power[n - i]}
<1>6. S = Nat
  <2>1. 0 \in S
    <3>1. PICK d : d = Power[n]
      OBVIOUS
    <3>2. d \in Nat \ {0} /\ w < d
      BY <3>1, PowerPositive
    <3>3. w \div d = 0
      <4>1. w = d * 0 + w /\ w \in 0 .. d - 1 /\ 0 \in Nat
        BY <3>2
      <4> QED
        BY <3>2, <4>1, Quotient
    <3>4. n - 0 = n
      OBVIOUS
    <3> QED
      BY <1>5, <3>1, <3>3, <3>4
  <2>2. ASSUME NEW i \in S PROVE i + 1 \in S
    <3> SUFFICES ASSUME i + 1 <= n PROVE f[i + 1] = w \div Power[n - (i + 1)]
      OBVIOUS
    <3>1. i \in Nat /\ i <= n /\ i + 1 \in 1 .. n /\ (i + 1) - 1 = i
      BY <2>2
    <3>2. PICK k \in Nat : k = n - (i + 1) /\ k + 1 = n - i
      BY <3>1
    <3>3. PICK d, b : d = Power[k] /\ b = Base
      OBVIOUS
    <3>4. d \in Nat \ {0} /\ b \in Nat \ {0}
      BY <3>3, PowerPositive, BaseAssumption
    <3>5. Power[n - i] = b * d
      BY <3>2, <3>3, Powers, Zenon
    <3>6. f[i] = w \div (b * d)
      <4>1. f[i] = w \div Power[n - i]
        BY <2>2, <3>1
      <4> QED
        BY <3>5, <4>1, Zenon
    <3>7. f[i + 1] = f[i] * b + ((w \div d) % b)
      <4>1. f[i + 1] = f[(i + 1) - 1] * Base + ((w \div Power[n - (i + 1)]) % Base)
        BY <1>5, <3>1, Zenon
      <4> QED
        BY <3>1, <3>2, <3>3, <4>1, Zenon
    <3>8. w \div d = (w \div (b * d)) * b + ((w \div d) % b)
      BY <3>4, QuotientOfQuotient
    <3> QED
      BY <3>2, <3>3, <3>6, <3>7, <3>8, Zenon
  <2>3. S \in SUBSET Nat
    OBVIOUS
  <2> HIDE DEF S
  <2> QED
    BY <2>1, <2>2, <2>3, Inductive
<1>7. f[n] = w \div Power[0]
  <2>1. n \in S /\ n <= n /\ n - n = 0
    BY <1>6
  <2> QED
    BY <2>1
<1>8. w \div Power[0] = w
  <2>1. w = 1 * w + 0 /\ 0 \in 0 .. 1 - 1 /\ 1 \in Nat \ {0}
    OBVIOUS
  <2>2. w \div 1 = w
    BY <2>1, Quotient
  <2> QED
    BY <2>2, Powers
<1> QED
  BY <1>4, <1>7, <1>8

-----------------------------------------------------------------------------
(* One after the other.                                                     *)

\* Parts that are laid one after the other, and where they end.
Laid(e, ss) ==
    /\ e \in [0 .. Len(ss) -> Nat] /\ e[0] = 0
    /\ \A i \in 1 .. Len(ss) : e[i] = e[i - 1] + Len(ss[i])

\* Bytes of a part lie within the whole.
LEMMA WithinWhole ==
    ASSUME NEW start \in Nat, NEW length \in Nat, NEW total \in Nat, NEW o \in Nat,
           NEW j \in 1 .. length, start + length <= total
    PROVE  start + j \in 1 .. total /\ (o + start) + j = o + (start + j)
OBVIOUS

\* A part of a sequence of sequences is a sequence.
LEMMA PartLength ==
    ASSUME NEW S, NEW ss \in Seq(Seq(S)), NEW i \in 1 .. Len(ss)
    PROVE  ss[i] \in Seq(S) /\ Len(ss[i]) \in Nat
<1>1. ss[i] \in Seq(S)
  OBVIOUS
<1>2. PICK s : s = ss[i]
  OBVIOUS
<1>3. s \in Seq(S)
  BY <1>1, <1>2
<1>4. Len(s) \in Nat
  BY <1>3
<1> QED
  BY <1>1, <1>2, <1>4

\* Whatever the parts are, each has an end.
LEMMA EndsLaid ==
    ASSUME NEW S, NEW ss \in Seq(Seq(S))
    PROVE  \E e : Laid(e, ss)
<1> DEFINE step == [nv \in Nat \X Nat |-> IF nv[1] \in 1 .. Len(ss) THEN nv[2] + Len(ss[nv[1]]) ELSE 0]
<1>1. step \in [Nat \X Nat -> Nat]
  <2>1. ASSUME NEW nv \in Nat \X Nat, nv[1] \in 1 .. Len(ss)
        PROVE  nv[2] + Len(ss[nv[1]]) \in Nat
    <3>1. nv[2] \in Nat
      OBVIOUS
    <3>2. Len(ss[nv[1]]) \in Nat
      BY <2>1, PartLength
    <3> QED
      BY <3>1, <3>2
  <2> QED
    BY <2>1
<1>2. PICK e : Repeats(e, Nat, 0, step, Len(ss))
  <2>0. 0 \in Nat /\ Len(ss) \in Nat
    OBVIOUS
  <2> HIDE DEF step
  <2>1. PICK V, base, next, N : /\ V = Nat /\ base = 0 /\ next = step /\ N = Len(ss)
                                /\ base \in V /\ next \in [Nat \X V -> V] /\ N \in Nat
    BY <1>1, <2>0
  <2>2. \E f : Repeats(f, V, base, next, N)
    BY <2>1, Repeated, Zenon
  <2> QED
    BY <2>1, <2>2, Zenon
<1>3. /\ e \in [0 .. Len(ss) -> Nat] /\ e[0] = 0
      /\ \A n \in 1 .. Len(ss) : e[n] = step[<<n, e[n - 1]>>]
  BY <1>2, Zenon DEF Repeats
<1>4. \A i \in 1 .. Len(ss) : e[i] = e[i - 1] + Len(ss[i])
  <2> TAKE i \in 1 .. Len(ss)
  <2>1. i - 1 \in 0 .. Len(ss) /\ i \in Nat
    OBVIOUS
  <2>2. e[i - 1] \in Nat
    <3>1. PICK D, j : D = 0 .. Len(ss) /\ j = i - 1
      OBVIOUS
    <3>2. e \in [D -> Nat] /\ j \in D
      BY <1>3, <2>1, <3>1, Zenon
    <3>3. e[j] \in Nat
      BY <3>2, Zenon
    <3> QED
      BY <3>1, <3>3, Zenon
  <2>3. e[i] = step[<<i, e[i - 1]>>]
    BY <1>3
  <2> QED
    BY <2>1, <2>2, <2>3
<1> QED
  BY <1>3, <1>4, Zenon DEF Laid

\* Ends grow from one part to the next.
LEMMA EndsGrow ==
    ASSUME NEW S, NEW ss \in Seq(Seq(S)), NEW e, Laid(e, ss),
           NEW i \in 0 .. Len(ss), NEW j \in 0 .. Len(ss), i <= j
    PROVE  e[i] <= e[j]
<1>1. /\ e \in [0 .. Len(ss) -> Nat]
      /\ \A n \in 1 .. Len(ss) : e[n] = e[n - 1] + Len(ss[n])
  BY Zenon DEF Laid
<1> DEFINE U == {m \in Nat : i + m <= Len(ss) => e[i] <= e[i + m]}
<1>2. U = Nat
  <2>1. 0 \in U
    BY <1>1
  <2>2. ASSUME NEW m \in U PROVE m + 1 \in U
    <3> SUFFICES ASSUME i + (m + 1) <= Len(ss) PROVE e[i] <= e[i + (m + 1)]
      OBVIOUS
    <3>1. PICK k \in Nat : k = i + m
      OBVIOUS
    <3>2. k + 1 \in 1 .. Len(ss) /\ (k + 1) - 1 = k /\ k \in 0 .. Len(ss)
      BY <3>1
    <3>3. e[k + 1] = e[k] + Len(ss[k + 1]) /\ e[k] \in Nat
      BY <1>1, <3>2
    <3>4. Len(ss[k + 1]) \in Nat
      BY <3>2, PartLength
    <3>5. e[i] <= e[k] /\ e[i] \in Nat
      <4>1. i + m <= Len(ss) => e[i] <= e[i + m]
        BY <2>2
      <4>2. i + m <= Len(ss)
        BY <3>1, <3>2
      <4>3. e[i] \in Nat
        BY <1>1
      <4> QED
        BY <3>1, <4>1, <4>2, <4>3, Zenon
    <3>6. e[i] <= e[k + 1]
      <4>1. PICK a, b, c, l : a = e[i] /\ b = e[k] /\ c = e[k + 1] /\ l = Len(ss[k + 1])
        OBVIOUS
      <4>2. a \in Nat /\ b \in Nat /\ l \in Nat /\ c = b + l /\ a <= b
        BY <3>3, <3>4, <3>5, <4>1, Zenon
      <4>3. a <= c
        BY <4>2
      <4> QED
        BY <4>1, <4>3, Zenon
    <3>7. i + (m + 1) = k + 1
      BY <3>1
    <3> QED
      BY <3>6, <3>7
  <2>3. U \in SUBSET Nat
    OBVIOUS
  <2> HIDE DEF U
  <2> QED
    BY <2>1, <2>2, <2>3, Inductive
<1>3. PICK m \in Nat : i + m = j
  <2>1. j - i \in Nat /\ i + (j - i) = j
    OBVIOUS
  <2> QED
    BY <2>1
<1>4. m \in U
  BY <1>2
<1>5. i + m <= Len(ss) => e[i] <= e[i + m]
  BY <1>4
<1>6. i + m <= Len(ss)
  BY <1>3
<1> QED
  BY <1>3, <1>5, <1>6

\* FlattenSeq appends one part after the other.
LEMMA FlattenTurns ==
    ASSUME NEW S, NEW ss \in Seq(Seq(S))
    PROVE  \E f : /\ f[0] = <<>>
                  /\ \A n \in 1 .. Len(ss) : f[n] = f[n - 1] \o ss[n]
                  /\ \A n \in 0 .. Len(ss) : f[n] \in Seq(S)
                  /\ FlattenSeq(ss) = f[Len(ss)]
<1> DEFINE step == [nv \in Nat \X Seq(S) |-> IF nv[1] \in 1 .. Len(ss) THEN nv[2] \o ss[nv[1]] ELSE <<>>]
           Q(g) == g = [i \in 1 .. Len(ss) |-> IF i = 1 THEN ss[i] ELSE g[i - 1] \o ss[i]]
<1>0. \A i \in 1 .. Len(ss) : ss[i] \in Seq(S)
  OBVIOUS
<1>1. step \in [Nat \X Seq(S) -> Seq(S)]
  <2>1. ASSUME NEW nv \in Nat \X Seq(S), nv[1] \in 1 .. Len(ss)
        PROVE  nv[2] \o ss[nv[1]] \in Seq(S)
    <3>1. nv[2] \in Seq(S) /\ ss[nv[1]] \in Seq(S)
      BY <2>1, <1>0
    <3>2. PICK a, b : a = nv[2] /\ b = ss[nv[1]]
      OBVIOUS
    <3> QED
      BY <3>1, <3>2
  <2>2. <<>> \in Seq(S)
    OBVIOUS
  <2> QED
    BY <2>1, <2>2
<1>2. PICK h : Repeats(h, Seq(S), <<>>, step, Len(ss))
  <2>0. <<>> \in Seq(S) /\ Len(ss) \in Nat
    OBVIOUS
  <2> HIDE DEF step
  <2>1. PICK V, base, next, N : /\ V = Seq(S) /\ base = <<>> /\ next = step /\ N = Len(ss)
                                /\ base \in V /\ next \in [Nat \X V -> V] /\ N \in Nat
    BY <1>1, <2>0
  <2>2. \E f : Repeats(f, V, base, next, N)
    BY <2>1, Repeated, Zenon
  <2> QED
    BY <2>1, <2>2, Zenon
<1>3. /\ h \in [0 .. Len(ss) -> Seq(S)] /\ h[0] = <<>>
      /\ \A n \in 1 .. Len(ss) : h[n] = step[<<n, h[n - 1]>>]
  BY <1>2, Zenon DEF Repeats
<1>4. \A n \in 1 .. Len(ss) : h[n] = h[n - 1] \o ss[n] /\ h[n - 1] \in Seq(S)
  <2> TAKE n \in 1 .. Len(ss)
  <2>1. n - 1 \in 0 .. Len(ss) /\ n \in Nat
    OBVIOUS
  <2>2. h[n - 1] \in Seq(S)
    <3>1. PICK D, j, T : D = 0 .. Len(ss) /\ j = n - 1 /\ T = Seq(S)
      OBVIOUS
    <3>2. h \in [D -> T] /\ j \in D
      BY <1>3, <2>1, <3>1, Zenon
    <3>3. h[j] \in T
      BY <3>2, Zenon
    <3> QED
      BY <3>1, <3>3, Zenon
  <2>3. h[n] = step[<<n, h[n - 1]>>]
    BY <1>3
  <2>4. <<n, h[n - 1]>> \in Nat \X Seq(S)
    BY <2>1, <2>2
  <2> QED
    BY <2>2, <2>3, <2>4
<1> HIDE DEF step
<1> DEFINE g0 == [i \in 1 .. Len(ss) |-> h[i]]
<1>5. Q(g0)
  <2>0. \A i \in 1 .. Len(ss) : g0[i] = h[i]
    OBVIOUS
  <2>1. \A i \in 1 .. Len(ss) : h[i] = IF i = 1 THEN ss[i] ELSE g0[i - 1] \o ss[i]
    <3> TAKE i \in 1 .. Len(ss)
    <3>1. CASE i = 1
      <4>1. h[i - 1] = <<>> /\ ss[i] \in Seq(S) /\ h[i] = h[i - 1] \o ss[i]
        <5>1. h[i] = h[i - 1] \o ss[i]
          BY <1>4
        <5>2. i - 1 = 0
          BY <3>1
        <5>3. h[i - 1] = <<>>
          BY <1>3, <5>2, Zenon
        <5> QED
          BY <1>0, <5>1, <5>3, Zenon
      <4>2. <<>> \o ss[i] = ss[i]
        <5>1. PICK s : s = ss[i] /\ s \in Seq(S)
          BY <1>0
        <5>2. <<>> \o s = s
          BY <5>1
        <5> QED
          BY <5>1, <5>2, Zenon
      <4> QED
        BY <3>1, <4>1, <4>2, Zenon
    <3>2. CASE i # 1
      <4>1. i - 1 \in 1 .. Len(ss)
        BY <3>2
      <4>2. h[i] = h[i - 1] \o ss[i] /\ g0[i - 1] = h[i - 1]
        BY <1>4, <2>0, <4>1
      <4> QED
        BY <3>2, <4>2, Zenon
    <3> QED
      BY <3>1, <3>2
  <2> QED
    BY <2>1, Zenon
<1>6. PICK g : g = CHOOSE x : Q(x)
  OBVIOUS
<1>7. Q(g)
  <2> HIDE DEF Q, g0
  <2> QED
    BY <1>5, <1>6
<1> DEFINE f == [n \in 0 .. Len(ss) |-> IF n = 0 THEN <<>> ELSE g[n]]
<1>8. f[0] = <<>>
  OBVIOUS
<1>9. \A n \in 1 .. Len(ss) : f[n] = f[n - 1] \o ss[n]
  <2> TAKE n \in 1 .. Len(ss)
  <2>1. f[n] = g[n] /\ g[n] = IF n = 1 THEN ss[n] ELSE g[n - 1] \o ss[n]
    <3>1. \A m \in 0 .. Len(ss) : m # 0 => f[m] = g[m]
      OBVIOUS
    <3>2. n \in 0 .. Len(ss) /\ n # 0
      OBVIOUS
    <3>3. f[n] = g[n]
      BY <3>1, <3>2, Zenon
    <3>4. g[n] = IF n = 1 THEN ss[n] ELSE g[n - 1] \o ss[n]
      <4>1. PICK d : d = 1 .. Len(ss) /\ n \in d
        OBVIOUS
      <4> QED
        BY <1>7, <4>1, Zenon
    <3> QED
      BY <3>3, <3>4
  <2>2. CASE n = 1
    <3>1. f[n - 1] = <<>>
      BY <2>2
    <3>2. PICK s : s = ss[n] /\ s \in Seq(S)
      BY <1>0
    <3>3. <<>> \o s = s
      BY <3>2
    <3>4. f[n] = ss[n]
      BY <2>1, <2>2, Zenon
    <3> HIDE DEF f
    <3> QED
      BY <3>1, <3>2, <3>3, <3>4, Zenon
  <2>3. CASE n # 1
    <3>1. n - 1 \in 0 .. Len(ss) /\ n - 1 # 0
      BY <2>3
    <3>2. f[n - 1] = g[n - 1]
      BY <3>1
    <3> QED
      BY <2>1, <2>3, <3>2
  <2> QED
    BY <2>2, <2>3
<1>10. FlattenSeq(ss) = f[Len(ss)]
  <2>1. CASE Len(ss) = 0
    <3>1. ss = <<>> /\ f[Len(ss)] = <<>>
      BY <2>1
    <3>2. FlattenSeq(ss) = ss
      BY <2>1, Zenon DEF FlattenSeq
    <3> QED
      BY <3>1, <3>2
  <2>2. CASE Len(ss) # 0
    <3>1. f[Len(ss)] = g[Len(ss)]
      BY <2>2
    <3>2. FlattenSeq(ss) = g[Len(ss)]
      BY <2>2, <1>6, Zenon DEF FlattenSeq
    <3> QED
      BY <3>1, <3>2
  <2> QED
    BY <2>1, <2>2
<1> HIDE DEF f
<1> DEFINE T == {n \in Nat : n <= Len(ss) => f[n] \in Seq(S)}
<1>11. T = Nat
  <2>1. 0 \in T
    <3>1. <<>> \in Seq(S)
      OBVIOUS
    <3>2. f[0] \in Seq(S)
      BY <1>8, <3>1, Zenon
    <3> QED
      BY <3>2
  <2>2. ASSUME NEW n \in T PROVE n + 1 \in T
    <3> SUFFICES ASSUME n + 1 <= Len(ss) PROVE f[n + 1] \in Seq(S)
      OBVIOUS
    <3>1. n + 1 \in 1 .. Len(ss) /\ (n + 1) - 1 = n
      OBVIOUS
    <3>2. f[n] \in Seq(S)
      BY <2>2, <3>1
    <3>3. f[n + 1] = f[n] \o ss[n + 1] /\ ss[n + 1] \in Seq(S)
      BY <1>0, <1>9, <3>1
    <3>4. PICK a, b : a = f[n] /\ b = ss[n + 1]
      OBVIOUS
    <3> QED
      BY <3>2, <3>3, <3>4
  <2>3. T \in SUBSET Nat
    OBVIOUS
  <2> HIDE DEF T
  <2> QED
    BY <2>1, <2>2, <2>3, Inductive
<1>12. \A n \in 0 .. Len(ss) : f[n] \in Seq(S)
  BY <1>11
<1> QED
  BY <1>8, <1>9, <1>10, <1>12

\* Where the parts of a concatenation are laid, they are.
Joined(c, e, ss) ==
    /\ Laid(e, ss) /\ Len(c) = e[Len(ss)]
    /\ \A i \in 1 .. Len(ss) : \A j \in 1 .. Len(ss[i]) : c[e[i - 1] + j] = ss[i][j]

\* Sequences that are flattened stand behind each other.
LEMMA FlattenJoins ==
    ASSUME NEW S, NEW ss \in Seq(Seq(S))
    PROVE  FlattenSeq(ss) \in Seq(S) /\ \E e : Joined(FlattenSeq(ss), e, ss)
<1>1. PICK e : Laid(e, ss)
  BY EndsLaid
<1>2. /\ e \in [0 .. Len(ss) -> Nat] /\ e[0] = 0
      /\ \A i \in 1 .. Len(ss) : e[i] = e[i - 1] + Len(ss[i])
  BY <1>1, Zenon DEF Laid
<1>3. PICK f : /\ f[0] = <<>>
               /\ \A n \in 1 .. Len(ss) : f[n] = f[n - 1] \o ss[n]
               /\ \A n \in 0 .. Len(ss) : f[n] \in Seq(S)
               /\ FlattenSeq(ss) = f[Len(ss)]
  BY FlattenTurns, Zenon
<1> DEFINE Holds(n) ==
              /\ Len(f[n]) = e[n]
              /\ \A i \in 1 .. n : \A j \in 1 .. Len(ss[i]) : f[n][e[i - 1] + j] = ss[i][j]
           T == {n \in Nat : n <= Len(ss) => Holds(n)}
<1>4. T = Nat
  <2>1. 0 \in T
    BY <1>2, <1>3
  <2>2. ASSUME NEW n \in T PROVE n + 1 \in T
    <3> SUFFICES ASSUME n + 1 <= Len(ss) PROVE Holds(n + 1)
      OBVIOUS
    <3>1. n + 1 \in 1 .. Len(ss) /\ (n + 1) - 1 = n /\ n \in 0 .. Len(ss)
      OBVIOUS
    <3>2. Holds(n)
      BY <2>2, <3>1
    <3>3. PICK a, b : a = f[n] /\ b = ss[n + 1]
      OBVIOUS
    <3>4. a \in Seq(S) /\ b \in Seq(S) /\ f[n + 1] = a \o b
      <4>1. b \in Seq(S)
        BY <3>1, <3>3
      <4> QED
        BY <1>3, <3>1, <3>3, <4>1
    <3>5. /\ Len(a \o b) = Len(a) + Len(b)
          /\ \A j \in 1 .. Len(a) : (a \o b)[j] = a[j]
          /\ \A j \in 1 .. Len(b) : (a \o b)[Len(a) + j] = b[j]
          /\ Len(a) \in Nat /\ Len(b) \in Nat
      BY <3>4
    <3>6. Len(f[n + 1]) = e[n + 1]
      <4>1. e[n + 1] = e[n] + Len(b)
        BY <1>2, <3>1, <3>3
      <4> QED
        BY <3>2, <3>3, <3>4, <3>5, <4>1
    <3>7. ASSUME NEW i \in 1 .. n + 1, NEW j \in 1 .. Len(ss[i])
          PROVE  f[n + 1][e[i - 1] + j] = ss[i][j]
      <4>1. CASE i = n + 1
        <5>1. e[i - 1] = Len(a) /\ ss[i] = b
          BY <3>1, <3>2, <3>3, <4>1
        <5> QED
          BY <3>4, <3>5, <5>1
      <4>2. CASE i # n + 1
        <5>1. i \in 1 .. n /\ i \in 1 .. Len(ss) /\ i - 1 \in 0 .. Len(ss) /\ j \in Nat
          BY <3>1, <4>2
        <5>2. a[e[i - 1] + j] = ss[i][j]
          BY <3>2, <3>3, <5>1
        <5>3. e[i - 1] + j \in 1 .. Len(a)
          <6>1. e[i] = e[i - 1] + Len(ss[i]) /\ e[i - 1] \in Nat
            BY <1>2, <5>1
          <6>2. Len(ss[i]) \in Nat /\ 1 <= j /\ j <= Len(ss[i])
            BY <5>1, PartLength
          <6>3. e[i] <= e[n]
            BY <1>1, <3>1, <5>1, EndsGrow
          <6>4. Len(a) = e[n] /\ e[n] \in Nat
            BY <1>2, <3>1, <3>2, <3>3
          <6>5. PICK start, length, total : start = e[i - 1] /\ length = Len(ss[i]) /\ total = Len(a)
            OBVIOUS
          <6>6. /\ start \in Nat /\ length \in Nat /\ total \in Nat /\ j \in 1 .. length
                /\ start + length <= total /\ 0 \in Nat
            BY <6>1, <6>2, <6>3, <6>4, <6>5
          <6> QED
            BY <6>5, <6>6, WithinWhole, Zenon
        <5> QED
          BY <3>4, <3>5, <5>2, <5>3
      <4> QED
        BY <4>1, <4>2
    <3> QED
      BY <3>6, <3>7
  <2>3. T \in SUBSET Nat
    OBVIOUS
  <2> HIDE DEF T
  <2> QED
    BY <2>1, <2>2, <2>3, Inductive
<1>5. Len(ss) \in Nat /\ Len(ss) \in 0 .. Len(ss)
  OBVIOUS
<1>6. Holds(Len(ss))
  <2>1. Len(ss) \in T
    BY <1>4, <1>5
  <2> QED
    BY <1>5, <2>1
<1>7. FlattenSeq(ss) \in Seq(S)
  BY <1>3, <1>5
<1>8. Joined(FlattenSeq(ss), e, ss)
  BY <1>1, <1>3, <1>6, Zenon DEF Joined
<1> QED
  BY <1>7, <1>8

\* The i-th of the parts stands where the lengths of those before it say.
PartStands(buf, o, e, ss, i) ==
    /\ At(buf, o + e[i - 1], ss[i])
    /\ e[i - 1] \in Nat /\ e[i] = e[i - 1] + Len(ss[i])
    /\ o + e[i] <= Len(buf)

\* If a concatenation stands in a buffer, so do its parts.
LEMMA PartsStand ==
    ASSUME NEW S, NEW ss \in Seq(Seq(S)), NEW c, NEW e, Joined(c, e, ss),
           NEW buf, NEW o \in Nat, At(buf, o, c),
           NEW i \in 1 .. Len(ss)
    PROVE  PartStands(buf, o, e, ss, i)
<1> USE DEF PartStands
<1>1. /\ e \in [0 .. Len(ss) -> Nat] /\ Laid(e, ss) /\ Len(c) = e[Len(ss)]
      /\ e[i] = e[i - 1] + Len(ss[i])
      /\ \A j \in 1 .. Len(ss[i]) : c[e[i - 1] + j] = ss[i][j]
  BY DEF Joined, Laid
<1>2. /\ Len(buf) \in Nat /\ o + Len(c) <= Len(buf)
      /\ \A j \in 1 .. Len(c) : buf[o + j] = c[j]
  BY DEF At
<1>3. i - 1 \in 0 .. Len(ss) /\ i \in 0 .. Len(ss) /\ Len(ss) \in 0 .. Len(ss) /\ i <= Len(ss)
  OBVIOUS
<1>4. e[i] <= e[Len(ss)]
  BY <1>1, <1>3, EndsGrow
<1>5. e[i - 1] \in Nat /\ e[i] \in Nat /\ e[Len(ss)] \in Nat /\ Len(ss[i]) \in Nat
  <2>1. Len(ss[i]) \in Nat
    BY PartLength
  <2> QED
    BY <1>1, <1>3, <2>1
<1>6. o + e[i] <= Len(buf)
  BY <1>1, <1>2, <1>4, <1>5
<1>7. ASSUME NEW j \in 1 .. Len(ss[i])
      PROVE  buf[(o + e[i - 1]) + j] = ss[i][j]
  <2>1. e[i - 1] + j \in 1 .. Len(c) /\ (o + e[i - 1]) + j = o + (e[i - 1] + j)
    <3>1. PICK start, length, total : start = e[i - 1] /\ length = Len(ss[i]) /\ total = Len(c)
      OBVIOUS
    <3>2. start + length <= total
      BY <1>1, <1>4, <1>5, <3>1
    <3>3. start \in Nat /\ length \in Nat /\ total \in Nat
      BY <1>1, <1>5, <3>1
    <3>4. j \in 1 .. length
      <4>1. j \in 1 .. Len(ss[i])
        BY <1>7, Zenon
      <4> QED
        BY <3>1, <4>1, Zenon
    <3>5. start + j \in 1 .. total /\ (o + start) + j = o + (start + j)
      BY <3>2, <3>3, <3>4, WithinWhole
    <3> QED
      BY <3>1, <3>5, Zenon
  <2>2. buf[o + (e[i - 1] + j)] = c[e[i - 1] + j]
    BY <1>2, <2>1
  <2> QED
    BY <1>1, <2>1, <2>2
<1>8. (o + e[i - 1]) + Len(ss[i]) <= Len(buf)
  <2>1. PICK start, length, total, all :
            start = e[i - 1] /\ length = Len(ss[i]) /\ total = Len(c) /\ all = Len(buf)
    OBVIOUS
  <2>2. start + length <= total /\ o + total <= all
    BY <1>1, <1>2, <1>4, <1>5, <1>6, <2>1
  <2>3. start \in Nat /\ length \in Nat /\ total \in Nat /\ all \in Nat
    BY <1>1, <1>2, <1>5, <2>1
  <2>4. (o + start) + length <= all
    BY <2>2, <2>3
  <2> QED
    BY <2>1, <2>4, Zenon
<1>9. At(buf, o + e[i - 1], ss[i])
  BY <1>2, <1>7, <1>8, Zenon DEF At
<1> QED
  BY <1>1, <1>5, <1>6, <1>9

-----------------------------------------------------------------------------
(* Reading one after the other.                                             *)

\* What is read next, where the reading before it has ended.
LEMMA ThenNext ==
    ASSUME NEW before, NEW rd, before.end # Thrown, NEW x, x = rd[before.end]
    PROVE  Then(before, rd) = IF x.end = Thrown THEN Fails
                              ELSE [value |-> Append(before.value, x.value), end |-> x.end]
  BY DEF Then, Once

\* f[n] is what the first n readers make of a buffer.
Turns(f, readers, o) ==
    /\ f[0] = [value |-> <<>>, end |-> o]
    /\ \A n \in 1 .. Len(readers) : f[n] = Then(f[n - 1], readers[n])

\* The properties of a structure are read one after the other.
LEMMA InTurn ==
    ASSUME NEW readers, NEW o, Len(readers) \in Nat
    PROVE  \E f : Turns(f, readers, o) /\ propertiesFrom(readers, o) = f[Len(readers)]
<1> DEFINE Q(f, m) == f = [n \in 0 .. m |-> IF n = 0 THEN [value |-> <<>>, end |-> o]
                                            ELSE Then(f[n - 1], readers[n])]
           S == {m \in Nat : \E f : Q(f, m)}
<1>1. S = Nat
  <2>1. 0 \in S
    <3> DEFINE f == [n \in 0 .. 0 |-> [value |-> <<>>, end |-> o]]
    <3>1. \A n \in 0 .. 0 : n = 0
      OBVIOUS
    <3>2. Q(f, 0)
      BY <3>1
    <3> HIDE DEF f, Q
    <3> QED
      BY <3>2
  <2>2. ASSUME NEW m \in S PROVE m + 1 \in S
    <3>1. PICK f : Q(f, m)
      BY <2>2
    <3>2. PICK last : last = Then(f[m], readers[m + 1])
      OBVIOUS
    <3> DEFINE g == [n \in 0 .. m + 1 |-> IF n = m + 1 THEN last ELSE f[n]]
    <3>3. \A n \in 0 .. m + 1 :
              g[n] = IF n = 0 THEN [value |-> <<>>, end |-> o] ELSE Then(g[n - 1], readers[n])
      <4> TAKE n \in 0 .. m + 1
      <4>1. m \in Nat
        BY <2>2
      <4>2. CASE n = 0
        <5>1. g[n] = f[n] /\ n \in 0 .. m
          BY <4>1, <4>2
        <5> QED
          BY <3>1, <4>2, <5>1
      <4>3. CASE n \in 1 .. m
        <5>1. g[n] = f[n] /\ g[n - 1] = f[n - 1] /\ n \in 0 .. m /\ n # 0
          BY <4>1, <4>3
        <5> HIDE DEF g
        <5> QED
          BY <3>1, <5>1
      <4>4. CASE n = m + 1
        <5>1. g[n] = last /\ g[n - 1] = f[m] /\ n # 0
          BY <4>1, <4>4
        <5> HIDE DEF g
        <5> QED
          BY <3>2, <4>4, <5>1
      <4> QED
        BY <4>1, <4>2, <4>3, <4>4
    <3>4. g = [n \in 0 .. m + 1 |-> g[n]]
      OBVIOUS
    <3> HIDE DEF g
    <3>5. Q(g, m + 1)
      BY <3>3, <3>4
    <3> HIDE DEF Q
    <3> QED
      BY <2>2, <3>5
  <2>3. S \in SUBSET Nat
    OBVIOUS
  <2> HIDE DEF S
  <2> QED
    BY <2>1, <2>2, <2>3, Inductive
<1>2. PICK N \in Nat : N = Len(readers)
  OBVIOUS
<1>3. PICK f : f = CHOOSE g : Q(g, N)
  OBVIOUS
<1>4. Q(f, N)
  <2>1. \E g : Q(g, N)
    BY <1>1
  <2> HIDE DEF Q
  <2> QED
    BY <1>3, <2>1
<1>5. propertiesFrom(readers, o) = f[N]
  BY <1>2, <1>3, Zenon DEF propertiesFrom
<1>6. f[0] = [value |-> <<>>, end |-> o]
  BY <1>2, <1>4
<1>7. \A n \in 1 .. Len(readers) : f[n] = Then(f[n - 1], readers[n])
  BY <1>2, <1>4
<1> QED
  BY <1>2, <1>5, <1>6, <1>7, Zenon DEF Turns

\* The first parts of a sequence.
Firsts(s, n) == [i \in 1 .. n |-> s[i]]

\* The first elements of a sequence, and one more.
LEMMA FirstsGrow ==
    ASSUME NEW V, NEW s \in Seq(V)
    PROVE  /\ Firsts(s, 0) = <<>> /\ Firsts(s, Len(s)) = s
           /\ \A n \in Nat : n + 1 <= Len(s) =>
                  Append(Firsts(s, n), s[n + 1]) = Firsts(s, n + 1)
<1>1. Firsts(s, 0) = <<>>
  BY DEF Firsts
<1>2. Firsts(s, Len(s)) = s
  BY DEF Firsts
<1>3. ASSUME NEW n \in Nat, n + 1 <= Len(s)
      PROVE  Append(Firsts(s, n), s[n + 1]) = Firsts(s, n + 1)
  <2>1. PICK a : a = Firsts(s, n)
    OBVIOUS
  <2>2. a \in Seq(V) /\ Len(a) = n /\ \A i \in 1 .. n : a[i] = s[i]
    <3>1. \A i \in 1 .. n : s[i] \in V
      BY <1>3
    <3> QED
      BY <2>1, <3>1 DEF Firsts
  <2>3. s[n + 1] \in V
    BY <1>3
  <2>4. Append(a, s[n + 1]) = [i \in 1 .. n + 1 |-> s[i]]
    <3>1. PICK b : b = Append(a, s[n + 1])
      OBVIOUS
    <3>2. b \in Seq(V) /\ Len(b) = n + 1 /\ b[n + 1] = s[n + 1] /\ \A i \in 1 .. n : b[i] = a[i]
      BY <2>2, <2>3, <3>1
    <3>3. \A i \in 1 .. n + 1 : b[i] = s[i]
      BY <2>2, <3>2
    <3>4. b = [i \in 1 .. n + 1 |-> b[i]]
      BY <3>2
    <3> QED
      BY <3>1, <3>3, <3>4
  <2> QED
    BY <2>1, <2>4 DEF Firsts
<1> QED
  BY <1>1, <1>2, <1>3

\* Each reader finds its value where the one before it ends.
Chained(readers, vs, e) ==
    \A i \in 1 .. Len(readers) :
        /\ readers[i][e[i - 1]] = [value |-> vs[i], end |-> e[i]]
        /\ e[i - 1] # Thrown /\ e[i] # Thrown

\* Then all of them find their values.
LEMMA AllInTurn ==
    ASSUME NEW V, NEW vs \in Seq(V), NEW readers, Len(readers) = Len(vs),
           NEW e, Chained(readers, vs, e)
    PROVE  propertiesFrom(readers, e[0]) = [value |-> vs, end |-> e[Len(vs)]]
<1>1. Len(readers) \in Nat
  OBVIOUS
<1>2. PICK f : Turns(f, readers, e[0]) /\ propertiesFrom(readers, e[0]) = f[Len(readers)]
  BY <1>1, InTurn
<1>3. /\ f[0] = [value |-> <<>>, end |-> e[0]]
      /\ \A n \in 1 .. Len(readers) : f[n] = Then(f[n - 1], readers[n])
  BY <1>2 DEF Turns
<1> DEFINE S == {n \in Nat : n <= Len(vs) => f[n] = [value |-> Firsts(vs, n), end |-> e[n]]}
<1>4. S = Nat
  <2>1. 0 \in S
    BY <1>3, FirstsGrow
  <2>2. ASSUME NEW n \in S PROVE n + 1 \in S
    <3> SUFFICES ASSUME n + 1 <= Len(vs)
                 PROVE  f[n + 1] = [value |-> Firsts(vs, n + 1), end |-> e[n + 1]]
      OBVIOUS
    <3>1. n \in Nat /\ n + 1 \in 1 .. Len(readers) /\ (n + 1) - 1 = n
      OBVIOUS
    <3>2. f[n] = [value |-> Firsts(vs, n), end |-> e[n]]
      BY <2>2, <3>1
    <3>3. PICK x : x = readers[n + 1][e[n]]
      OBVIOUS
    <3>4. x = [value |-> vs[n + 1], end |-> e[n + 1]] /\ e[n] # Thrown /\ e[n + 1] # Thrown
      <4>1. PICK i : i = n + 1 /\ i \in 1 .. Len(readers) /\ i - 1 = n
        BY <3>1
      <4>2. readers[i][e[i - 1]] = [value |-> vs[i], end |-> e[i]]
            /\ e[i - 1] # Thrown /\ e[i] # Thrown
        BY <4>1, Zenon DEF Chained
      <4> QED
        BY <3>3, <4>1, <4>2, Zenon
    <3>5. f[n + 1] = Then(f[n], readers[n + 1])
      BY <1>3, <3>1
    <3>6. f[n].end # Thrown /\ x = readers[n + 1][f[n].end] /\ f[n].value = Firsts(vs, n)
      <4>1. f[n].end = e[n] /\ f[n].value = Firsts(vs, n)
        BY <3>2
      <4> QED
        BY <3>3, <3>4, <4>1, Zenon
    <3>7. Then(f[n], readers[n + 1])
            = IF x.end = Thrown THEN Fails
              ELSE [value |-> Append(f[n].value, x.value), end |-> x.end]
      <4>1. PICK before, rd : before = f[n] /\ rd = readers[n + 1]
        OBVIOUS
      <4>2. before.end # Thrown /\ x = rd[before.end]
        BY <3>6, <4>1, Zenon
      <4>3. Then(before, rd) = IF x.end = Thrown THEN Fails
                               ELSE [value |-> Append(before.value, x.value), end |-> x.end]
        BY <4>2 DEF Then, Once
      <4> QED
        BY <4>1, <4>3, Zenon
    <3>8. x.end # Thrown /\ x.value = vs[n + 1] /\ x.end = e[n + 1]
      BY <3>4
    <3>9. Append(Firsts(vs, n), vs[n + 1]) = Firsts(vs, n + 1)
      BY <3>1, FirstsGrow
    <3> QED
      BY <3>5, <3>6, <3>7, <3>8, <3>9, Zenon
  <2>3. S \in SUBSET Nat
    OBVIOUS
  <2> HIDE DEF S
  <2> QED
    BY <2>1, <2>2, <2>3, Inductive
<1>5. f[Len(vs)] = [value |-> Firsts(vs, Len(vs)), end |-> e[Len(vs)]]
  <2>1. Len(vs) \in S /\ Len(vs) <= Len(vs)
    BY <1>4
  <2> QED
    BY <2>1
<1>6. Firsts(vs, Len(vs)) = vs
  BY FirstsGrow
<1> QED
  BY <1>2, <1>5, <1>6, Zenon

\* What a turn of the loop makes of what it has found.
Adds(after, before, x) == after = [value |-> Append(before.value, x.value), end |-> x.end]

\* An item that is longer than nothing, in front of the end, is added.
LEMMA MoreNext ==
    ASSUME NEW before, NEW rd, NEW until, before.end # Thrown, ~ (before.end >= until),
           NEW x, x = rd[before.end], x.end # Thrown, ~ (x.end <= before.end)
    PROVE  Adds(More(before, rd, until), before, x)
<1>1. Then(before, rd) = [value |-> Append(before.value, x.value), end |-> x.end]
  BY ThenNext
<1>2. PICK after : after = Then(before, rd)
  OBVIOUS
<1>3. after.end = x.end
  BY <1>1, <1>2
<1>4. More(before, rd, until)
        = Once(after, LAMBDA y : IF y.end # Thrown /\ y.end <= before.end THEN Fails ELSE y)
  BY <1>2, Zenon DEF More
<1>5. Once(after, LAMBDA y : IF y.end # Thrown /\ y.end <= before.end THEN Fails ELSE y)
        = after
  BY <1>3 DEF Once
<1> QED
  BY <1>1, <1>2, <1>4, <1>5, Zenon DEF Adds

\* g[n] is what is found of the items after n turns of the loop.
Loops(g, rd, start, length) ==
    /\ g[0] = [value |-> <<>>, end |-> start]
    /\ \A n \in 1 .. length : g[n] = More(g[n - 1], rd, start + length)

\* The items of a vector are read in the turns of a loop.
LEMMA InLoop ==
    ASSUME NEW rd, NEW start, NEW length \in Nat
    PROVE  \E g : Loops(g, rd, start, length) /\ itemsFrom(rd, start, length) = g[length]
<1> DEFINE Q(f, m) == f = [n \in 0 .. m |-> IF n = 0 THEN [value |-> <<>>, end |-> start]
                                            ELSE More(f[n - 1], rd, start + length)]
           S == {m \in Nat : \E f : Q(f, m)}
<1>1. S = Nat
  <2>1. 0 \in S
    <3> DEFINE f == [n \in 0 .. 0 |-> [value |-> <<>>, end |-> start]]
    <3>1. \A n \in 0 .. 0 : n = 0
      OBVIOUS
    <3>2. Q(f, 0)
      BY <3>1
    <3> HIDE DEF f, Q
    <3> QED
      BY <3>2
  <2>2. ASSUME NEW m \in S PROVE m + 1 \in S
    <3>1. PICK f : Q(f, m)
      BY <2>2
    <3>2. PICK last : last = More(f[m], rd, start + length)
      OBVIOUS
    <3> DEFINE g == [n \in 0 .. m + 1 |-> IF n = m + 1 THEN last ELSE f[n]]
    <3>3. \A n \in 0 .. m + 1 :
              g[n] = IF n = 0 THEN [value |-> <<>>, end |-> start]
                     ELSE More(g[n - 1], rd, start + length)
      <4> TAKE n \in 0 .. m + 1
      <4>1. m \in Nat
        BY <2>2
      <4>2. CASE n = 0
        <5>1. g[n] = f[n] /\ n \in 0 .. m
          BY <4>1, <4>2
        <5> QED
          BY <3>1, <4>2, <5>1
      <4>3. CASE n \in 1 .. m
        <5>1. g[n] = f[n] /\ g[n - 1] = f[n - 1] /\ n \in 0 .. m /\ n # 0
          BY <4>1, <4>3
        <5> HIDE DEF g
        <5> QED
          BY <3>1, <5>1
      <4>4. CASE n = m + 1
        <5>1. g[n] = last /\ g[n - 1] = f[m] /\ n # 0
          BY <4>1, <4>4
        <5> HIDE DEF g
        <5> QED
          BY <3>2, <4>4, <5>1
      <4> QED
        BY <4>1, <4>2, <4>3, <4>4
    <3>4. g = [n \in 0 .. m + 1 |-> g[n]]
      OBVIOUS
    <3> HIDE DEF g
    <3>5. Q(g, m + 1)
      BY <3>3, <3>4
    <3> HIDE DEF Q
    <3> QED
      BY <2>2, <3>5
  <2>3. S \in SUBSET Nat
    OBVIOUS
  <2> HIDE DEF S
  <2> QED
    BY <2>1, <2>2, <2>3, Inductive
<1>2. PICK f : f = CHOOSE g : Q(g, length)
  OBVIOUS
<1>3. Q(f, length)
  <2>1. \E g : Q(g, length)
    BY <1>1
  <2> HIDE DEF Q
  <2> QED
    BY <1>2, <2>1
<1>4. itemsFrom(rd, start, length) = f[length]
  BY <1>2, Zenon DEF itemsFrom
<1>5. f[0] = [value |-> <<>>, end |-> start]
  BY <1>3
<1>6. \A n \in 1 .. length : f[n] = More(f[n - 1], rd, start + length)
  BY <1>3
<1> QED
  BY <1>4, <1>5, <1>6, Zenon DEF Loops

\* Each item is found where the one before it ends, and has at least a byte.
Stepping(rd, vs, e) ==
    \A i \in 1 .. Len(vs) :
        e[i - 1] < e[i] /\ rd[e[i - 1]] = [value |-> vs[i], end |-> e[i]]

\* All the items between two places are found.
AllFound(rd, vs, start, length) ==
    itemsFrom(rd, start, length) = [value |-> vs, end |-> start + length]

\* Items that follow each other and have at least a byte each are all found.
LEMMA AllInLoop ==
    ASSUME NEW V, NEW vs \in Seq(V), NEW rd, NEW start \in Nat, NEW length \in Nat,
           NEW e, e \in [0 .. Len(vs) -> Nat], e[0] = start, e[Len(vs)] = start + length,
           Stepping(rd, vs, e)
    PROVE  AllFound(rd, vs, start, length)
<1> USE DEF AllFound
<1>0. \A i \in 1 .. Len(vs) :
          e[i - 1] < e[i] /\ rd[e[i - 1]] = [value |-> vs[i], end |-> e[i]]
  BY Zenon DEF Stepping
<1>1. PICK m \in Nat : m = Len(vs)
  OBVIOUS
<1>2. \A d \in Nat : d <= m => e[m] >= e[m - d] + d
  <2> DEFINE S == {d \in Nat : d <= m => e[m] >= e[m - d] + d}
  <2>1. 0 \in S
    BY <1>1
  <2>2. ASSUME NEW d \in S PROVE d + 1 \in S
    <3> SUFFICES ASSUME d + 1 <= m PROVE e[m] >= e[m - (d + 1)] + (d + 1)
      OBVIOUS
    <3>1. PICK i \in 1 .. m : i = m - d
      BY <2>2
    <3>2. e[m] >= e[i] + d /\ m - (d + 1) = i - 1
      BY <2>2, <3>1
    <3>3. e[i - 1] < e[i] /\ e[i - 1] \in Nat /\ e[i] \in Nat /\ e[m] \in Nat
      <4>1. PICK D, p : D = 0 .. m /\ p = i - 1
        OBVIOUS
      <4>2. D = 0 .. Len(vs) /\ m \in D /\ i \in D /\ p \in D
        BY <1>1, <3>1, <4>1
      <4>3. e \in [D -> Nat]
        BY <4>2, Zenon
      <4>4. e[m] \in Nat /\ e[i] \in Nat /\ e[p] \in Nat
        BY <4>2, <4>3, Zenon
      <4>5. i \in 1 .. Len(vs)
        BY <1>1, <3>1
      <4>6. e[i - 1] < e[i]
        BY <1>0, <4>5, Zenon
      <4> QED
        BY <4>1, <4>4, <4>6, Zenon
    <3>4. d \in Nat
      BY <2>2
    <3>5. e[m] >= e[i - 1] + (d + 1)
      <4>1. PICK a, b, c : a = e[m] /\ b = e[i] /\ c = e[i - 1]
        OBVIOUS
      <4>2. a \in Nat /\ b \in Nat /\ c \in Nat /\ a >= b + d /\ c < b
        BY <3>2, <3>3, <4>1, Zenon
      <4>3. a >= c + (d + 1)
        BY <3>4, <4>2
      <4> QED
        BY <4>1, <4>3, Zenon
    <3> QED
      BY <3>2, <3>5, Zenon
  <2>3. S \in SUBSET Nat
    OBVIOUS
  <2>4. S = Nat
    <3> HIDE DEF S
    <3> QED
      BY <2>1, <2>2, <2>3, Inductive
  <2> QED
    BY <2>4
<1>3. m <= length
  BY <1>1, <1>2
<1>4. ASSUME NEW n \in 0 .. m, n < m PROVE e[n] < start + length
  <2>1. m - n \in Nat /\ m - n <= m /\ m - (m - n) = n /\ m - n > 0
    BY <1>4
  <2>2. e[m] >= e[n] + (m - n)
    BY <1>2, <2>1
  <2> QED
    BY <1>1, <2>1, <2>2
<1>5. PICK g : Loops(g, rd, start, length) /\ itemsFrom(rd, start, length) = g[length]
  BY InLoop
<1>6. /\ g[0] = [value |-> <<>>, end |-> start]
      /\ \A n \in 1 .. length : g[n] = More(g[n - 1], rd, start + length)
  BY <1>5 DEF Loops
<1> DEFINE S == {n \in Nat : n <= length =>
                     /\ n <= m => g[n] = [value |-> Firsts(vs, n), end |-> e[n]]
                     /\ n > m => g[n] = [value |-> vs, end |-> e[m]]}
<1>7. \A n \in Nat : n # Thrown
  BY NoNumbers
<1>8. S = Nat
  <2>1. 0 \in S
    BY <1>6, FirstsGrow
  <2>2. ASSUME NEW n \in S PROVE n + 1 \in S
    <3> SUFFICES ASSUME n + 1 <= length
                 PROVE  /\ n + 1 <= m => g[n + 1] = [value |-> Firsts(vs, n + 1), end |-> e[n + 1]]
                        /\ n + 1 > m => g[n + 1] = [value |-> vs, end |-> e[m]]
      OBVIOUS
    <3>1. n \in Nat /\ n + 1 \in 1 .. length /\ (n + 1) - 1 = n
      OBVIOUS
    <3>2. g[n + 1] = More(g[n], rd, start + length)
      BY <1>6, <3>1
    <3>3. CASE n < m
      <4>1. g[n] = [value |-> Firsts(vs, n), end |-> e[n]]
        BY <2>2, <3>1, <3>3
      <4>2. n \in 0 .. m /\ n + 1 \in 1 .. Len(vs) /\ n + 1 \in Nat
        BY <1>1, <3>1, <3>3
      <4>3. e[n] < e[n + 1] /\ rd[e[n]] = [value |-> vs[n + 1], end |-> e[n + 1]]
        BY <1>0, <3>1, <4>2
      <4>4. e[n] \in Nat /\ e[n + 1] \in Nat /\ e[n] < start + length
        BY <1>1, <1>4, <3>3, <4>2
      <4>5. PICK b, x, u : b = g[n] /\ x = rd[e[n]] /\ u = start + length
        OBVIOUS
      <4>6. /\ b.end = e[n] /\ b.value = Firsts(vs, n)
            /\ x.end = e[n + 1] /\ x.value = vs[n + 1]
        BY <4>1, <4>3, <4>5
      <4>7. b.end # Thrown /\ ~ (b.end >= u) /\ x.end # Thrown /\ ~ (x.end <= b.end)
        BY <1>7, <4>3, <4>4, <4>5, <4>6
      <4>8. x = rd[b.end]
        BY <4>5, <4>6
      <4>9. More(b, rd, u) = [value |-> Append(b.value, x.value), end |-> x.end]
        <5>1. Adds(More(b, rd, u), b, x)
          BY <4>7, <4>8, MoreNext, Zenon
        <5> QED
          BY <5>1, Zenon DEF Adds
      <4>10. Append(Firsts(vs, n), vs[n + 1]) = Firsts(vs, n + 1)
        BY <3>1, <4>2, FirstsGrow
      <4>11. g[n + 1] = [value |-> Firsts(vs, n + 1), end |-> e[n + 1]]
        BY <3>2, <4>5, <4>6, <4>9, <4>10, Zenon
      <4>12. ~ (n + 1 > m)
        BY <1>1, <4>2
      <4> QED
        BY <4>11, <4>12
    <3>4. CASE ~ (n < m)
      <4>1. g[n] = [value |-> vs, end |-> e[m]]
        <5>1. CASE n = m
          BY <1>1, <2>2, <3>1, <5>1, FirstsGrow
        <5>2. CASE n > m
          BY <2>2, <3>1, <5>2
        <5> QED
          BY <3>4, <3>1, <5>1, <5>2
      <4>2. g[n].end >= start + length
        BY <1>1, <4>1
      <4>3. More(g[n], rd, start + length) = g[n]
        BY <4>2, Zenon DEF More
      <4>4. ~ (n + 1 <= m)
        BY <3>1, <3>4
      <4> QED
        BY <3>2, <4>1, <4>3, <4>4
    <3> QED
      BY <3>3, <3>4
  <2>3. S \in SUBSET Nat
    OBVIOUS
  <2> HIDE DEF S
  <2> QED
    BY <2>1, <2>2, <2>3, Inductive
<1>9. g[length] = [value |-> vs, end |-> e[m]]
  <2>1. length \in S
    BY <1>8
  <2>2. CASE m = length
    <3>1. g[length] = [value |-> Firsts(vs, length), end |-> e[length]]
      <4>1. length <= length /\ length <= m
        BY <2>2
      <4> QED
        BY <2>1, <4>1
    <3>2. Firsts(vs, Len(vs)) = vs
      BY FirstsGrow
    <3> QED
      BY <1>1, <2>2, <3>1, <3>2, Zenon
  <2>3. CASE m < length
    BY <2>1, <2>3
  <2> QED
    BY <1>3, <2>2, <2>3
<1> QED
  BY <1>1, <1>5, <1>9

-----------------------------------------------------------------------------
(* Numbers and buffers.                                                     *)

\* The bytes of a length field hold what the maximum length needs.
LEMMA WholeBytes ==
    ASSUME NEW m \in Nat, m < Power[INT_BYTES]
    PROVE  /\ fitToWholeBytes(m) \in 1 .. INT_BYTES
           /\ m < Power[fitToWholeBytes(m)]
<1> DEFINE P(n) == m < Power[n] /\ (n > 1 => m >= Power[n - 1])
<1>1. \E n \in 1 .. INT_BYTES : P(n)
  <2>1. INT_BYTES = 4
    BY DEF INT_BYTES
  <2>2. CASE m < Power[1]
    <3>1. P(1) /\ 1 \in 1 .. 4
      BY <2>2
    <3> QED
      BY <2>1, <3>1
  <2>3. CASE m >= Power[1] /\ m < Power[2]
    <3>1. 2 > 1 /\ 2 - 1 = 1 /\ 2 \in 1 .. 4
      OBVIOUS
    <3>2. P(2)
      BY <2>3, <3>1
    <3> QED
      BY <2>1, <3>1, <3>2
  <2>4. CASE m >= Power[2] /\ m < Power[3]
    <3>1. 3 > 1 /\ 3 - 1 = 2 /\ 3 \in 1 .. 4
      OBVIOUS
    <3>2. P(3)
      BY <2>4, <3>1
    <3> QED
      BY <2>1, <3>1, <3>2
  <2>5. CASE m >= Power[3]
    <3>1. 4 > 1 /\ 4 - 1 = 3 /\ 4 \in 1 .. 4
      OBVIOUS
    <3>2. P(4)
      BY <2>1, <2>5, <3>1
    <3> QED
      BY <2>1, <3>1, <3>2
  <2>6. Power[1] \in Nat /\ Power[2] \in Nat /\ Power[3] \in Nat
    BY PowerPositive
  <2> QED
    BY <2>2, <2>3, <2>4, <2>5, <2>6
<1>2. PICK k : k = CHOOSE n \in 1 .. INT_BYTES : P(n)
  OBVIOUS
<1>3. k \in 1 .. INT_BYTES /\ P(k)
  <2> HIDE DEF P
  <2> QED
    BY <1>1, <1>2
<1>4. fitToWholeBytes(m) = k
  BY <1>2, Zenon DEF fitToWholeBytes
<1> QED
  BY <1>3, <1>4

\* The two parts of a concatenation stand where it stands.
LEMMA TwoStand ==
    ASSUME NEW S, NEW a \in Seq(S), NEW b \in Seq(S), NEW buf, NEW o \in Nat
    PROVE  At(buf, o, a \o b) <=> At(buf, o, a) /\ At(buf, o + Len(a), b)
<1>1. PICK c : c = a \o b
  OBVIOUS
<1>2. /\ Len(c) = Len(a) + Len(b) /\ Len(a) \in Nat /\ Len(b) \in Nat
      /\ \A i \in 1 .. Len(a) : c[i] = a[i]
      /\ \A i \in 1 .. Len(b) : c[Len(a) + i] = b[i]
  BY <1>1
<1>3. ASSUME At(buf, o, c) PROVE At(buf, o, a) /\ At(buf, o + Len(a), b)
  <2>1. /\ Len(buf) \in Nat /\ o + Len(c) <= Len(buf)
        /\ \A i \in 1 .. Len(c) : buf[o + i] = c[i]
    BY <1>3 DEF At
  <2>2. \A i \in 1 .. Len(a) : buf[o + i] = a[i]
    BY <1>2, <2>1
  <2>3. \A i \in 1 .. Len(b) : buf[(o + Len(a)) + i] = b[i]
    <3> TAKE i \in 1 .. Len(b)
    <3>1. Len(a) + i \in 1 .. Len(c) /\ (o + Len(a)) + i = o + (Len(a) + i)
      BY <1>2
    <3> QED
      BY <1>2, <2>1, <3>1
  <2>4. o + Len(a) <= Len(buf) /\ (o + Len(a)) + Len(b) <= Len(buf)
    BY <1>2, <2>1
  <2> QED
    BY <2>1, <2>2, <2>3, <2>4, Zenon DEF At
<1>4. ASSUME At(buf, o, a), At(buf, o + Len(a), b) PROVE At(buf, o, c)
  <2>1. /\ Len(buf) \in Nat /\ (o + Len(a)) + Len(b) <= Len(buf)
        /\ \A i \in 1 .. Len(a) : buf[o + i] = a[i]
        /\ \A i \in 1 .. Len(b) : buf[(o + Len(a)) + i] = b[i]
    BY <1>4 DEF At
  <2>2. \A i \in 1 .. Len(c) : buf[o + i] = c[i]
    <3> TAKE i \in 1 .. Len(c)
    <3>1. CASE i <= Len(a)
      BY <1>2, <2>1, <3>1
    <3>2. CASE i > Len(a)
      <4>1. PICK j \in 1 .. Len(b) : i = Len(a) + j
        <5>1. i - Len(a) \in 1 .. Len(b) /\ i = Len(a) + (i - Len(a))
          BY <1>2, <3>2
        <5> QED
          BY <5>1
      <4>2. (o + Len(a)) + j = o + i
        BY <1>2, <4>1
      <4> QED
        BY <1>2, <2>1, <4>1, <4>2
    <3> QED
      BY <1>2, <3>1, <3>2
  <2>3. o + Len(c) <= Len(buf)
    BY <1>2, <2>1
  <2> QED
    BY <2>1, <2>2, <2>3, Zenon DEF At
<1> QED
  BY <1>1, <1>3, <1>4

\* The length in front of the content says where it ends.
LEMMA LengthRead ==
    ASSUME NEW S, Digits \subseteq S, NEW t, NEW content \in Seq(S), LengthFits(t, content),
           NEW buf, NEW o \in Nat, At(buf, o, WithLength(t, content))
    PROVE  /\ LengthBytes(t) \in Nat /\ LengthAt(t, buf, o) = Len(content)
           /\ At(buf, o + LengthBytes(t), content)
<1>1. Len(content) \in Nat
  OBVIOUS
<1>2. CASE isVariableLength(t)
  <2>1. t.max \in Nat /\ t.max < Power[INT_BYTES] /\ Len(content) <= t.max
    BY <1>2 DEF LengthFits
  <2>2. PICK k : k = fitToWholeBytes(t.max)
    OBVIOUS
  <2>3. k \in 1 .. INT_BYTES /\ t.max < Power[k]
    BY <2>1, <2>2, WholeBytes
  <2>4. k \in Nat /\ Power[k] \in Nat /\ Power[INT_BYTES] \in Nat
    <3>1. k \in Nat /\ INT_BYTES \in Nat
      BY <2>3 DEF INT_BYTES
    <3> QED
      BY <3>1, PowerPositive
  <2>5. Len(content) < Power[k] /\ Len(content) < Power[INT_BYTES]
    BY <1>1, <2>1, <2>3, <2>4
  <2>6. PICK head : head = numberToBuffer(Len(content), k)
    OBVIOUS
  <2>7. head \in Seq(Digits) /\ Len(head) = k
    BY <1>1, <2>4, <2>6, NumberDigits
  <2>8. head \in Seq(S)
    BY <2>7
  <2>9. WithLength(t, content) = head \o content
    BY <1>2, <2>2, <2>6, Zenon DEF WithLength
  <2>10. At(buf, o, head) /\ At(buf, o + k, content)
    <3>1. At(buf, o, head \o content)
      BY <2>9, Zenon
    <3>2. At(buf, o, head) /\ At(buf, o + Len(head), content)
      BY <2>8, <3>1, TwoStand, Zenon
    <3> QED
      BY <2>7, <3>2, Zenon
  <2>11. LengthBytes(t) = k
    BY <1>2, <2>2, Zenon DEF LengthBytes
  <2>12. bufferToNumber(buf, k, o) = Len(content)
    BY <1>1, <2>4, <2>5, <2>6, <2>10, NumberRead
  <2>13. LengthAt(t, buf, o) = Len(content)
    BY <1>2, <2>11, <2>12, Zenon DEF LengthAt
  <2> QED
    BY <2>4, <2>10, <2>11, <2>13
<1>3. CASE ~ isVariableLength(t)
  <2>1. LengthBytes(t) = 0 /\ LengthAt(t, buf, o) = t.max /\ WithLength(t, content) = content
    BY <1>3, Zenon DEF LengthBytes, LengthAt, WithLength
  <2>2. Len(content) = t.max
    BY <1>3, Zenon DEF LengthFits
  <2>3. o + 0 = o
    OBVIOUS
  <2> QED
    BY <2>1, <2>2, <2>3
<1> QED
  BY <1>2, <1>3

\* A content with its length in front is a sequence of bytes.
LEMMA LengthBytesSeq ==
    ASSUME NEW S, Digits \subseteq S, NEW t, NEW content \in Seq(S), LengthFits(t, content)
    PROVE  /\ WithLength(t, content) \in Seq(S)
           /\ LengthBytes(t) \in Nat
           /\ Len(WithLength(t, content)) = LengthBytes(t) + Len(content)
<1>1. Len(content) \in Nat
  OBVIOUS
<1>2. CASE isVariableLength(t)
  <2>1. t.max \in Nat /\ t.max < Power[INT_BYTES]
    BY <1>2 DEF LengthFits
  <2>2. PICK k : k = fitToWholeBytes(t.max)
    OBVIOUS
  <2>3. k \in Nat
    <3>1. k \in 1 .. INT_BYTES
      BY <2>1, <2>2, WholeBytes
    <3> QED
      BY <3>1
  <2>4. PICK head : head = numberToBuffer(Len(content), k)
    OBVIOUS
  <2>5. head \in Seq(Digits) /\ Len(head) = k
    BY <1>1, <2>3, <2>4, NumberDigits
  <2>6. head \in Seq(S)
    BY <2>5
  <2>7. WithLength(t, content) = head \o content
    BY <1>2, <2>2, <2>4, Zenon DEF WithLength
  <2>8. head \o content \in Seq(S) /\ Len(head \o content) = k + Len(content)
    BY <2>5, <2>6
  <2>9. LengthBytes(t) = k
    BY <1>2, <2>2, Zenon DEF LengthBytes
  <2> QED
    BY <2>3, <2>7, <2>8, <2>9
<1>3. CASE ~ isVariableLength(t)
  <2>1. LengthBytes(t) = 0 /\ WithLength(t, content) = content
    BY <1>3, Zenon DEF LengthBytes, WithLength
  <2> QED
    BY <1>1, <2>1
<1> QED
  BY <1>2, <1>3

\* What stands in a buffer is found there with its end.
Found(x, v, o, bytes) == x = [value |-> v, end |-> o + Len(bytes)]

\* A number or a buffer becomes bytes.
LEMMA LeafSeq ==
    ASSUME NEW S, Digits \subseteq S, NEW t, NEW v, leafFits(t, v, S)
    PROVE  serializeLeaf(t, v) \in Seq(S)
<1>1. CASE t.type = "number"
  <2>1. v \in Nat /\ t.bytes \in Nat
    BY <1>1 DEF leafFits
  <2>2. PICK b : b = numberToBuffer(v, t.bytes)
    OBVIOUS
  <2>3. b \in Seq(Digits)
    BY <2>1, <2>2, NumberDigits
  <2>4. b \in Seq(S)
    BY <2>3
  <2> QED
    BY <1>1, <2>2, <2>4, Zenon DEF serializeLeaf
<1>2. CASE t.type = "buffer"
  <2>1. v \in Seq(S) /\ LengthFits(t, v) /\ t.type # "number"
    BY <1>2 DEF leafFits
  <2>2. WithLength(t, v) \in Seq(S)
    BY <2>1, LengthBytesSeq
  <2> QED
    BY <2>1, <2>2, Zenon DEF serializeLeaf
<1> QED
  BY <1>1, <1>2 DEF leafFits

\* A number or a buffer is read as it was written, wherever it stands.
LEMMA LeafRead ==
    ASSUME NEW S, Digits \subseteq S, NEW t, NEW v, leafFits(t, v, S),
           NEW buf, NEW o \in Nat, At(buf, o, serializeLeaf(t, v))
    PROVE  Found(leafFrom(t, buf, o), v, o, serializeLeaf(t, v))
<1>1. CASE t.type = "number"
  <2>1. /\ v \in Nat /\ t.bytes \in Nat
        /\ v < Power[t.bytes] /\ v < Power[INT_BYTES]
    BY <1>1 DEF leafFits
  <2>2. PICK b, n : b = numberToBuffer(v, n) /\ n = t.bytes
    OBVIOUS
  <2>3. serializeLeaf(t, v) = b
    BY <1>1, <2>2, Zenon DEF serializeLeaf
  <2>4. Len(b) = n
    BY <2>1, <2>2, NumberDigits
  <2>5. bufferToNumber(buf, n, o) = v
    BY <2>1, <2>2, <2>3, NumberRead
  <2>6. leafFrom(t, buf, o) = [value |-> bufferToNumber(buf, t.bytes, o), end |-> o + t.bytes]
    BY <1>1, Zenon DEF leafFrom
  <2> QED
    BY <2>2, <2>3, <2>4, <2>5, <2>6, Zenon DEF Found
<1>2. CASE t.type = "buffer"
  <2>1. v \in Seq(S) /\ LengthFits(t, v) /\ t.type # "number"
    BY <1>2 DEF leafFits
  <2>2. serializeLeaf(t, v) = WithLength(t, v)
    BY <2>1, Zenon DEF serializeLeaf
  <2>3. PICK k, start : k = LengthBytes(t) /\ start = o + k
    OBVIOUS
  <2>4. k \in Nat /\ LengthAt(t, buf, o) = Len(v) /\ At(buf, start, v)
    BY <2>1, <2>2, <2>3, LengthRead
  <2>5. Len(serializeLeaf(t, v)) = k + Len(v)
    BY <2>1, <2>2, <2>3, LengthBytesSeq
  <2>6. Len(v) \in Nat /\ Len(v) # NaN /\ t.max # Infinity
    <3>1. t.max \in Nat
      BY <2>1 DEF LengthFits
    <3>2. Len(v) \in Nat
      BY <2>1
    <3> QED
      BY <3>1, <3>2, NoNumbers
  <2>7. /\ Len(buf) \in Nat /\ start + Len(v) <= Len(buf)
        /\ \A i \in 1 .. Len(v) : buf[start + i] = v[i]
    BY <2>4 DEF At
  <2>8. start \in Nat /\ ~ (start > Len(buf))
    BY <2>3, <2>4, <2>6, <2>7
  <2>9. [i \in 1 .. Len(v) |-> IF start + i <= Len(buf) THEN buf[start + i] ELSE Unwritten] = v
    <3>1. \A i \in 1 .. Len(v) : start + i <= Len(buf)
      BY <2>6, <2>7, <2>8
    <3>2. v = [i \in 1 .. Len(v) |-> v[i]]
      BY <2>1
    <3> QED
      BY <2>7, <3>1, <3>2
  <2>10. bufferFrom(t, buf, o)
           = [value |-> [i \in 1 .. Len(v) |-> IF start + i <= Len(buf) THEN buf[start + i]
                                               ELSE Unwritten],
              end |-> start + Len(v)]
    BY <2>3, <2>4, <2>6, <2>8, Zenon DEF bufferFrom
  <2>11. leafFrom(t, buf, o) = [value |-> v, end |-> start + Len(v)]
    BY <2>1, <2>9, <2>10, Zenon DEF leafFrom
  <2>12. start + Len(v) = o + Len(serializeLeaf(t, v))
    BY <2>3, <2>4, <2>5, <2>6
  <2> QED
    BY <2>11, <2>12, Zenon DEF Found
<1> QED
  BY <1>1, <1>2 DEF leafFits

-----------------------------------------------------------------------------
(* Structures.                                                              *)

\* Each of the readers finds its part; the last of them may end elsewhere.
EachReads(readers, buf, ss, vs, o, last) ==
    \A i \in 1 .. Len(vs) : \A p \in Nat :
        At(buf, p, ss[i]) /\ (i = Len(vs) => p + Len(ss[i]) = o + Len(FlattenSeq(ss)))
            => readers[i][p] = [value |-> vs[i],
                                end |-> IF i = Len(vs) THEN last ELSE p + Len(ss[i])]
AllRead(readers, vs, o, last) ==
    propertiesFrom(readers, o) = [value |-> vs, end |-> IF Len(vs) = 0 THEN o ELSE last]

\* A reader for each part of a concatenation finds its value; where the last
\* of them ends is its own business.
LEMMA EachRead ==
    ASSUME NEW S, NEW ss \in Seq(Seq(S)), NEW V, NEW vs \in Seq(V), Len(ss) = Len(vs),
           NEW readers, Len(readers) = Len(vs),
           NEW buf, NEW o \in Nat, At(buf, o, FlattenSeq(ss)),
           NEW last \in Nat, EachReads(readers, buf, ss, vs, o, last)
    PROVE  AllRead(readers, vs, o, last)
<1>0. ASSUME NEW i \in 1 .. Len(vs), NEW p \in Nat, At(buf, p, ss[i]),
             i = Len(vs) => p + Len(ss[i]) = o + Len(FlattenSeq(ss))
      PROVE  readers[i][p] = [value |-> vs[i],
                              end |-> IF i = Len(vs) THEN last ELSE p + Len(ss[i])]
  BY <1>0, Zenon DEF EachReads
<1>1. PICK n \in Nat : n = Len(vs)
  OBVIOUS
<1>2. PICK c : c = FlattenSeq(ss)
  OBVIOUS
<1>3. PICK e : Joined(c, e, ss)
  BY <1>2, FlattenJoins
<1>4. e \in [0 .. n -> Nat] /\ e[0] = 0 /\ Len(c) = e[n]
  BY <1>1, <1>3 DEF Joined, Laid
<1> DEFINE d == [i \in 0 .. n |-> IF i = n /\ n > 0 THEN last ELSE o + e[i]]
<1>5. Chained(readers, vs, d)
  <2> SUFFICES ASSUME NEW i \in 1 .. n
               PROVE  /\ readers[i][d[i - 1]] = [value |-> vs[i], end |-> d[i]]
                      /\ d[i - 1] # Thrown /\ d[i] # Thrown
    BY <1>1 DEF Chained
  <2>1. /\ At(buf, o + e[i - 1], ss[i])
        /\ e[i - 1] \in Nat /\ e[i] = e[i - 1] + Len(ss[i])
    <3>1. i \in 1 .. Len(ss)
      BY <1>1
    <3>2. At(buf, o, c)
      BY <1>2, Zenon
    <3>3. PartStands(buf, o, e, ss, i)
      BY <1>3, <3>1, <3>2, PartsStand, Zenon
    <3> QED
      BY <3>3, Zenon DEF PartStands
  <2>2. d[i - 1] = o + e[i - 1] /\ d[i - 1] \in Nat
    <3>1. i - 1 \in 0 .. n /\ ~ (i - 1 = n)
      OBVIOUS
    <3>2. d[i - 1] = o + e[i - 1]
      BY <3>1, Zenon
    <3>3. o + e[i - 1] \in Nat
      BY <2>1
    <3> QED
      BY <3>2, <3>3, Zenon
  <2>3. d[i] \in Nat /\ d[i] = IF i = n THEN last ELSE o + e[i]
    <3>1. i \in 0 .. n /\ n > 0
      OBVIOUS
    <3>2. e[i] \in Nat
      BY <1>4, <3>1
    <3>3. d[i] = IF i = n THEN last ELSE o + e[i]
      BY <3>1
    <3>4. o + e[i] \in Nat
      BY <3>2
    <3> HIDE DEF d
    <3> QED
      BY <3>3, <3>4
  <2>4. Len(ss[i]) \in Nat
    <3>1. ss[i] \in Seq(S)
      BY <1>1
    <3> QED
      BY <3>1
  <2>6. (o + e[i - 1]) + Len(ss[i]) = o + e[i]
    <3>1. PICK x, y, z : x = e[i - 1] /\ y = Len(ss[i]) /\ z = e[i]
      OBVIOUS
    <3>2. x \in Nat /\ y \in Nat /\ z = x + y
      BY <2>1, <2>4, <3>1, Zenon
    <3>3. (o + x) + y = o + z
      BY <3>2
    <3> QED
      BY <3>1, <3>3, Zenon
  <2>5. i = n => (o + e[i - 1]) + Len(ss[i]) = o + Len(c)
    BY <1>4, <2>6, Zenon
  <2>7. PICK p \in Nat : p = o + e[i - 1]
    BY <2>2
  <2>8. readers[i][p] = [value |-> vs[i], end |-> IF i = n THEN last ELSE p + Len(ss[i])]
    <3>1. i \in 1 .. Len(vs)
      BY <1>1
    <3>2. At(buf, p, ss[i]) /\ (i = Len(vs) => p + Len(ss[i]) = o + Len(FlattenSeq(ss)))
      BY <1>1, <1>2, <2>1, <2>5, <2>7
    <3> QED
      BY <1>0, <1>1, <3>1, <3>2, Zenon
  <2>9. readers[i][d[i - 1]] = [value |-> vs[i], end |-> d[i]]
    BY <2>2, <2>3, <2>6, <2>7, <2>8
  <2> QED
    BY <2>2, <2>3, <2>9, NoNumbers
<1>6. d[0] = o
  BY <1>4
<1>7. d[n] = IF n = 0 THEN o ELSE last
  BY <1>4
<1> HIDE DEF d
<1>8. propertiesFrom(readers, d[0]) = [value |-> vs, end |-> d[Len(vs)]]
  BY <1>5, AllInTurn
<1> QED
  BY <1>1, <1>6, <1>7, <1>8, Zenon DEF AllRead

\* A listing is a sequence of its elements.
LEMMA ListingLength ==
    ASSUME NEW s, Listing(s)
    PROVE  Len(s) \in Nat /\ DOMAIN s = 1 .. Len(s) /\ s \in Seq(Range(s))
<1>1. PICK n \in Nat : n = Len(s) /\ s = [i \in 1 .. n |-> s[i]]
  BY DEF Listing
<1>2. DOMAIN s = 1 .. n /\ \A i \in 1 .. n : s[i] \in Range(s)
  <2>1. DOMAIN s = 1 .. n
    BY <1>1
  <2> QED
    BY <2>1 DEF Range
<1> QED
  BY <1>1, <1>2

\* The items of a vector and the properties of a structure are sequences of
\* bytes if each of them is.
LEMMA PartsListed ==
    ASSUME NEW S, NEW n \in Nat, NEW ss, ss = [i \in 1 .. n |-> ss[i]],
           \A i \in 1 .. n : ss[i] \in Seq(S)
    PROVE  ss \in Seq(Seq(S)) /\ Len(ss) = n
  OBVIOUS

\* An item of a vector becomes bytes.
LEMMA ItemSeq ==
    ASSUME NEW S, Digits \subseteq S, NEW t, NEW v, itemFits(t, v, S)
    PROVE  serializeItem(t, v) \in Seq(S)
<1>1. CASE t.type = "struct"
  <2>1. /\ Listing(t.props) /\ Listing(v) /\ Len(v) = Len(t.props)
        /\ \A i \in DOMAIN t.props : leafFits(t.props[i], v[i], S)
    BY <1>1, Zenon DEF itemFits
  <2>2. PICK n \in Nat : n = Len(v) /\ DOMAIN t.props = 1 .. n
    BY <2>1, ListingLength
  <2>3. PICK ss : ss = [i \in 1 .. n |-> serializeLeaf(t.props[i], v[i])]
    OBVIOUS
  <2>4. \A i \in 1 .. n : ss[i] \in Seq(S)
    BY <2>1, <2>2, <2>3, LeafSeq
  <2>5. ss \in Seq(Seq(S))
    BY <2>3, <2>4, PartsListed
  <2>6. serializeItem(t, v) = FlattenSeq(ss)
    BY <1>1, <2>2, <2>3, Zenon DEF serializeItem
  <2> QED
    BY <2>5, <2>6, FlattenJoins
<1>2. CASE t.type # "struct"
  <2>1. leafFits(t, v, S)
    BY <1>2, Zenon DEF itemFits
  <2>2. serializeLeaf(t, v) \in Seq(S)
    BY <2>1, LeafSeq
  <2> QED
    BY <1>2, <2>2, Zenon DEF serializeItem
<1> QED
  BY <1>1, <1>2

\* So is a structure of them, such as a protocol version or an extension.
LEMMA ItemRead ==
    ASSUME NEW S, Digits \subseteq S, NEW t, NEW v, itemFits(t, v, S),
           NEW buf, NEW o \in Nat, At(buf, o, serializeItem(t, v))
    PROVE  Found(itemFrom(t, buf, o), v, o, serializeItem(t, v))
<1>1. CASE t.type = "struct"
  <2>1. /\ Listing(t.props) /\ Listing(v) /\ Len(v) = Len(t.props)
        /\ \A i \in DOMAIN t.props : leafFits(t.props[i], v[i], S)
    BY <1>1, Zenon DEF itemFits
  <2>2. PICK n \in Nat : n = Len(v) /\ DOMAIN t.props = 1 .. n
    BY <2>1, ListingLength
  <2>3. PICK ss : ss = [i \in 1 .. n |-> serializeLeaf(t.props[i], v[i])]
    OBVIOUS
  <2>4. \A i \in 1 .. n : ss[i] \in Seq(S)
    BY <2>1, <2>2, <2>3, LeafSeq
  <2>5. ss \in Seq(Seq(S)) /\ Len(ss) = n
    BY <2>3, <2>4, PartsListed
  <2>6. serializeItem(t, v) = FlattenSeq(ss)
    BY <1>1, <2>2, <2>3, Zenon DEF serializeItem
  <2>7. PICK rds : rds = [i \in 1 .. n |-> [p \in Nat |-> leafFrom(t.props[i], buf, p)]]
    OBVIOUS
  <2>8. Len(rds) = n
    <3>1. DOMAIN rds = 1 .. n /\ rds = [i \in 1 .. n |-> rds[i]]
      BY <2>7
    <3> QED
      BY <3>1, Listed
  <2>9. PICK last \in Nat : last = o + Len(FlattenSeq(ss))
    <3>1. FlattenSeq(ss) \in Seq(S)
      BY <2>5, FlattenJoins
    <3>2. Len(FlattenSeq(ss)) \in Nat
      BY <3>1
    <3> QED
      BY <3>2
  <2>10. ASSUME NEW i \in 1 .. Len(v), NEW p \in Nat, At(buf, p, ss[i]),
                i = Len(v) => p + Len(ss[i]) = o + Len(FlattenSeq(ss))
         PROVE  rds[i][p] = [value |-> v[i], end |-> IF i = Len(v) THEN last ELSE p + Len(ss[i])]
    <3>1. ss[i] = serializeLeaf(t.props[i], v[i]) /\ leafFits(t.props[i], v[i], S)
      BY <2>1, <2>2, <2>3
    <3>2. PICK ti, vi : ti = t.props[i] /\ vi = v[i]
      OBVIOUS
    <3>3. Found(leafFrom(ti, buf, p), vi, p, serializeLeaf(ti, vi))
      BY <2>10, <3>1, <3>2, LeafRead
    <3>4. rds[i][p] = leafFrom(ti, buf, p)
      BY <2>2, <2>7, <3>2
    <3>5. rds[i][p] = [value |-> v[i], end |-> p + Len(ss[i])]
      BY <3>1, <3>2, <3>3, <3>4, Zenon DEF Found
    <3> QED
      BY <2>9, <2>10, <3>5
  <2>11. v \in Seq(Range(v)) /\ Len(ss) = Len(v) /\ Len(rds) = Len(v)
    BY <2>1, <2>2, <2>5, <2>8, ListingLength
  <2>12. At(buf, o, FlattenSeq(ss))
    BY <2>6
  <2>13. propertiesFrom(rds, o) = [value |-> v, end |-> IF Len(v) = 0 THEN o ELSE last]
    <3>1. EachReads(rds, buf, ss, v, o, last)
      BY <2>10, Zenon DEF EachReads
    <3>2. AllRead(rds, v, o, last)
      BY <2>5, <2>9, <2>11, <2>12, <3>1, EachRead, Zenon
    <3> QED
      BY <3>2, Zenon DEF AllRead
  <2>14. itemFrom(t, buf, o) = propertiesFrom(rds, o)
    BY <1>1, <2>2, <2>7, Zenon DEF itemFrom
  <2>15. Len(v) = 0 => last = o
    <3> SUFFICES ASSUME Len(v) = 0 PROVE Len(FlattenSeq(ss)) = 0
      BY <2>9
    <3>1. PICK e : Joined(FlattenSeq(ss), e, ss)
      BY <2>5, FlattenJoins
    <3> QED
      BY <2>11, <3>1 DEF Joined, Laid
  <2>16. itemFrom(t, buf, o) = [value |-> v, end |-> last]
    BY <2>13, <2>14, <2>15
  <2> QED
    BY <2>6, <2>9, <2>16, Zenon DEF Found
<1>2. CASE t.type # "struct"
  <2>1. leafFits(t, v, S)
    BY <1>2, Zenon DEF itemFits
  <2>2. serializeItem(t, v) = serializeLeaf(t, v) /\ itemFrom(t, buf, o) = leafFrom(t, buf, o)
    BY <1>2, Zenon DEF serializeItem, itemFrom
  <2>3. At(buf, o, serializeLeaf(t, v))
    BY <2>2
  <2>4. Found(leafFrom(t, buf, o), v, o, serializeLeaf(t, v))
    BY <2>1, <2>3, LeafRead
  <2> QED
    BY <2>2, <2>4
<1> QED
  BY <1>1, <1>2

\* No sequences are flattened to none.
LEMMA NothingFlattened ==
  FlattenSeq(<<>>) = <<>>
<1>1. Len(<<>>) = 0
  OBVIOUS
<1> QED
  BY <1>1, Zenon DEF FlattenSeq

\* The items of a vector become bytes.
LEMMA ItemsSeq ==
    ASSUME NEW S, Digits \subseteq S, NEW t, NEW v, Listing(v),
           \A i \in DOMAIN v : itemFits(t.item, v[i], S)
    PROVE  serializeItems(t, v) \in Seq(S)
<1>1. PICK n \in Nat : n = Len(v) /\ DOMAIN v = 1 .. n
  BY ListingLength
<1>2. PICK ss : ss = [i \in 1 .. n |-> serializeItem(t.item, v[i])]
  OBVIOUS
<1>3. \A i \in 1 .. n : ss[i] \in Seq(S)
  BY <1>1, <1>2, ItemSeq
<1>4. ss \in Seq(Seq(S))
  BY <1>2, <1>3, PartsListed
<1>5. serializeItems(t, v) = FlattenSeq(ss)
  BY <1>1, <1>2, Zenon DEF serializeItems
<1> QED
  BY <1>4, <1>5, FlattenJoins

\* A property becomes bytes.
LEMMA PropertySeq ==
    ASSUME NEW S, Digits \subseteq S, NEW t, NEW v, propertyFits(t, v, S)
    PROVE  serializeProperty(t, v) \in Seq(S)
<1>1. CASE t.type = "vector"
  <2>1. /\ LengthFits(t, serializeItems(t, v)) /\ Listing(v)
        /\ \A i \in DOMAIN v : itemFits(t.item, v[i], S)
    BY <1>1 DEF propertyFits
  <2>2. serializeItems(t, v) \in Seq(S)
    BY <2>1, ItemsSeq
  <2>3. WithLength(t, serializeItems(t, v)) \in Seq(S)
    BY <2>1, <2>2, LengthBytesSeq
  <2>4. <<>> \in Seq(S)
    OBVIOUS
  <2> QED
    BY <1>1, <2>3, <2>4, Zenon DEF serializeProperty
<1>2. CASE t.type # "vector"
  <2>1. itemFits(t, v, S)
    BY <1>2, Zenon DEF propertyFits
  <2>2. serializeItem(t, v) \in Seq(S)
    BY <2>1, ItemSeq
  <2> QED
    BY <1>2, <2>2, Zenon DEF serializeProperty
<1> QED
  BY <1>1, <1>2

\* A vector is read as it was written: item by item up to the announced end.
LEMMA VectorRead ==
    ASSUME NEW S, Digits \subseteq S, NEW t, NEW v, t.type = "vector", propertyFits(t, v, S),
           NEW buf, NEW o \in Nat, At(buf, o, WithLength(t, serializeItems(t, v)))
    PROVE  Found(vectorFrom(t, buf, o), v, o, WithLength(t, serializeItems(t, v)))
<1>1. /\ isVariableLength(t) /\ LengthFits(t, serializeItems(t, v)) /\ Listing(v)
      /\ \A i \in DOMAIN v : itemFits(t.item, v[i], S) /\ serializeItem(t.item, v[i]) # <<>>
  BY DEF propertyFits
<1>2. PICK n \in Nat : n = Len(v) /\ DOMAIN v = 1 .. n
  BY <1>1, ListingLength
<1>3. PICK ss : ss = [i \in 1 .. n |-> serializeItem(t.item, v[i])]
  OBVIOUS
<1>4. \A i \in 1 .. n : ss[i] \in Seq(S)
  BY <1>1, <1>2, <1>3, ItemSeq
<1>5. ss \in Seq(Seq(S)) /\ Len(ss) = n
  BY <1>3, <1>4, PartsListed
<1>6. PICK c : c = serializeItems(t, v) /\ c = FlattenSeq(ss)
  BY <1>2, <1>3, Zenon DEF serializeItems
<1>7. c \in Seq(S) /\ Len(c) \in Nat
  BY <1>5, <1>6, FlattenJoins
<1>8. PICK e : Joined(c, e, ss)
  BY <1>5, <1>6, FlattenJoins
<1>9. e \in [0 .. n -> Nat] /\ e[0] = 0 /\ Len(c) = e[n]
  BY <1>5, <1>8 DEF Joined, Laid
<1>10. PICK k, start : k = LengthBytes(t) /\ start = o + k
  OBVIOUS
<1>11. k \in Nat /\ LengthAt(t, buf, o) = Len(c) /\ At(buf, start, c)
  BY <1>1, <1>6, <1>7, <1>10, LengthRead
<1>12. Len(WithLength(t, c)) = k + Len(c)
  BY <1>1, <1>6, <1>7, <1>10, LengthBytesSeq
<1>13. start \in Nat
  BY <1>10, <1>11
<1>14. PICK d : d = [i \in 0 .. n |-> start + e[i]]
  OBVIOUS
<1>15. d \in [0 .. Len(v) -> Nat] /\ d[0] = start /\ d[Len(v)] = start + Len(c)
  BY <1>2, <1>9, <1>13, <1>14
<1>16. PICK rd : rd = Items(t, buf)
  OBVIOUS
<1>17. ASSUME NEW i \in 1 .. Len(v)
       PROVE  d[i - 1] < d[i] /\ rd[d[i - 1]] = [value |-> v[i], end |-> d[i]]
  <2>1. /\ At(buf, start + e[i - 1], ss[i])
        /\ e[i - 1] \in Nat /\ e[i] = e[i - 1] + Len(ss[i])
    <3>1. i \in 1 .. Len(ss) /\ ss \in Seq(Seq(S))
      BY <1>2, <1>5, Zenon
    <3>2. PartStands(buf, start, e, ss, i)
      BY <1>8, <1>11, <1>13, <3>1, PartsStand, Zenon
    <3> QED
      BY <3>2, Zenon DEF PartStands
  <2>2. PICK ti, vi, p, b : ti = t.item /\ vi = v[i] /\ p = start + e[i - 1] /\ b = ss[i]
    OBVIOUS
  <2>3. itemFits(ti, vi, S) /\ b = serializeItem(ti, vi) /\ b # <<>> /\ b \in Seq(S)
    BY <1>1, <1>2, <1>3, <1>4, <2>2
  <2>4. Len(b) \in Nat \ {0}
    BY <2>3
  <2>5. p \in Nat /\ d[i - 1] = p /\ d[i] = p + Len(b)
    <3>1. i \in 0 .. n /\ i - 1 \in 0 .. n
      BY <1>2
    <3>2. d[i - 1] = start + e[i - 1] /\ d[i] = start + e[i]
      BY <1>14, <3>1, Zenon
    <3>3. PICK x, y, z : x = e[i - 1] /\ y = e[i] /\ z = Len(b)
      OBVIOUS
    <3>4. x \in Nat /\ z \in Nat /\ y = x + z /\ p = start + x
      BY <2>1, <2>2, <2>4, <3>3
    <3>5. p \in Nat /\ start + y = p + z
      BY <1>13, <3>4
    <3> QED
      BY <2>2, <3>2, <3>3, <3>5, Zenon
  <2>6. Found(itemFrom(ti, buf, p), vi, p, b)
    BY <2>1, <2>2, <2>3, <2>5, ItemRead
  <2>7. rd[p] = itemFrom(ti, buf, p)
    BY <1>16, <2>2, <2>5 DEF Items
  <2>8. rd[p] = [value |-> vi, end |-> p + Len(b)]
    BY <2>6, <2>7, Zenon DEF Found
  <2> QED
    BY <2>2, <2>4, <2>5, <2>8
<1>18. v \in Seq(Range(v))
  BY <1>1, ListingLength
<1>19. itemsFrom(rd, start, Len(c)) = [value |-> v, end |-> start + Len(c)]
  <2>1. Stepping(rd, v, d)
    BY <1>17, Zenon DEF Stepping
  <2>2. PICK l \in Nat : l = Len(c)
    BY <1>7
  <2>3. d \in [0 .. Len(v) -> Nat] /\ d[0] = start /\ d[Len(v)] = start + l
    BY <1>15, <2>2, Zenon
  <2>4. AllFound(rd, v, start, l)
    BY <1>13, <1>18, <2>1, <2>3, AllInLoop, Zenon
  <2> QED
    BY <2>2, <2>4, Zenon DEF AllFound
<1>20. buf # <<>>
  <2>1. k \in 1 .. INT_BYTES
    <3>1. t.max \in Nat /\ t.max < Power[INT_BYTES]
      BY <1>1 DEF LengthFits
    <3>2. k = fitToWholeBytes(t.max)
      BY <1>1, <1>10, Zenon DEF LengthBytes
    <3> QED
      BY <3>1, <3>2, WholeBytes
  <2>2. start + Len(c) <= Len(buf)
    BY <1>11 DEF At
  <2>3. Len(buf) # 0
    BY <1>7, <1>10, <2>1, <2>2 DEF INT_BYTES
  <2> QED
    BY <2>3
<1>21. Len(c) # NaN
  BY <1>7, NoNumbers
<1>22. vectorFrom(t, buf, o) = itemsFrom(rd, start, Len(c))
  BY <1>10, <1>11, <1>16, <1>20, <1>21, Zenon DEF vectorFrom
<1>23. start + Len(c) = o + Len(WithLength(t, c))
  BY <1>7, <1>10, <1>11, <1>12
<1> QED
  BY <1>6, <1>19, <1>22, <1>23, Zenon DEF Found

\* A property that is not left out is read as it was written.
LEMMA PropertyRead ==
    ASSUME NEW S, Digits \subseteq S, NEW t, NEW v, propertyFits(t, v, S), ~ LeftOut(t, v),
           NEW buf, NEW o \in Nat, At(buf, o, serializeProperty(t, v))
    PROVE  Found(propertyFrom(t, buf, o), v, o, serializeProperty(t, v))
<1>1. CASE t.type = "vector"
  <2>1. serializeProperty(t, v) = WithLength(t, serializeItems(t, v))
    BY <1>1, Zenon DEF serializeProperty
  <2>2. propertyFrom(t, buf, o) = vectorFrom(t, buf, o)
    BY <1>1, Zenon DEF propertyFrom
  <2>3. At(buf, o, WithLength(t, serializeItems(t, v)))
    BY <2>1
  <2>4. Found(vectorFrom(t, buf, o), v, o, WithLength(t, serializeItems(t, v)))
    BY <1>1, <2>3, VectorRead
  <2> QED
    BY <2>1, <2>2, <2>4
<1>2. CASE t.type # "vector"
  <2>1. itemFits(t, v, S)
    BY <1>2, Zenon DEF propertyFits
  <2>2. serializeProperty(t, v) = serializeItem(t, v) /\ propertyFrom(t, buf, o) = itemFrom(t, buf, o)
    BY <1>2, Zenon DEF serializeProperty, propertyFrom
  <2>3. At(buf, o, serializeItem(t, v))
    BY <2>2
  <2>4. Found(itemFrom(t, buf, o), v, o, serializeItem(t, v))
    BY <2>1, <2>3, ItemRead
  <2> QED
    BY <2>2, <2>4
<1> QED
  BY <1>1, <1>2

\* A vector that was left out at the end of a buffer is read as one without
\* items, and so is one whose length is there and 0.
LEMMA LeftOutRead ==
    ASSUME NEW S, Digits \subseteq S, NEW t, NEW v, propertyFits(t, v, S), LeftOut(t, v),
           NEW buf, NEW o \in Nat, Len(buf) \in Nat,
           o = Len(buf) \/ At(buf, o, WithLength(t, <<>>))
    PROVE  \E last \in Nat : propertyFrom(t, buf, o) = [value |-> v, end |-> last]
<1>1. t.type = "vector" /\ t.optional /\ v = <<>>
  BY DEF LeftOut
<1>2. isVariableLength(t) /\ LengthFits(t, serializeItems(t, v))
  BY <1>1 DEF propertyFits
<1>3. serializeItems(t, v) = <<>>
  <2>1. [i \in DOMAIN v |-> serializeItem(t.item, v[i])] = <<>>
    BY <1>1
  <2> QED
    BY <2>1, NothingFlattened, Zenon DEF serializeItems
<1>4. propertyFrom(t, buf, o) = vectorFrom(t, buf, o)
  BY <1>1, Zenon DEF propertyFrom
<1>5. CASE buf = <<>>
  BY <1>1, <1>4, <1>5, Zenon DEF vectorFrom
<1>6. CASE buf # <<>>
  <2>1. PICK k, start : k = LengthBytes(t) /\ start = o + k
    OBVIOUS
  <2>2. k \in 1 .. INT_BYTES
    <3>1. t.max \in Nat /\ t.max < Power[INT_BYTES]
      BY <1>2 DEF LengthFits
    <3>2. k = fitToWholeBytes(t.max)
      BY <1>2, <2>1, Zenon DEF LengthBytes
    <3> QED
      BY <3>1, <3>2, WholeBytes
  <2>3. start \in Nat /\ start > o
    BY <2>1, <2>2 DEF INT_BYTES
  <2>4. LengthAt(t, buf, o) = NaN \/ LengthAt(t, buf, o) = 0
    <3>1. CASE o = Len(buf)
      <4>1. o + k > Len(buf)
        BY <2>1, <2>3, <3>1
      <4>2. bufferToNumber(buf, k, o) = NaN
        BY <4>1, Zenon DEF bufferToNumber
      <4> QED
        BY <1>2, <2>1, <4>2, Zenon DEF LengthAt
    <3>2. CASE At(buf, o, WithLength(t, <<>>))
      <4>1. PICK w \in Seq(S) : w = <<>> /\ Len(w) = 0
        <5>1. <<>> \in Seq(S) /\ Len(<<>>) = 0
          OBVIOUS
        <5> QED
          BY <5>1
      <4>2. LengthFits(t, w) /\ At(buf, o, WithLength(t, w))
        BY <1>2, <1>3, <3>2, <4>1
      <4>3. LengthAt(t, buf, o) = Len(w)
        BY <4>2, LengthRead
      <4> QED
        BY <4>1, <4>3
    <3> QED
      BY <3>1, <3>2
  <2>5. vectorFrom(t, buf, o) = itemsFrom(Items(t, buf), start, 0)
    BY <1>6, <2>1, <2>4, Zenon DEF vectorFrom
  <2>6. PICK rd : rd = Items(t, buf)
    OBVIOUS
  <2>7. PICK g : Loops(g, rd, start, 0) /\ itemsFrom(rd, start, 0) = g[0]
    BY InLoop
  <2>8. itemsFrom(rd, start, 0) = [value |-> <<>>, end |-> start]
    BY <2>7 DEF Loops
  <2> QED
    BY <1>1, <1>4, <2>3, <2>5, <2>6, <2>8, Zenon
<1> QED
  BY <1>5, <1>6

\* The bytes a buffer ends with, and a property read as all of them.
AtTheEnd(buf, o, v) == At(buf, o, v) /\ o + Len(v) = Len(buf)
TakesTheRest(t, buf, o, v) == propertyFrom(t, buf, o) = [value |-> v, end |-> Len(buf)]

\* A buffer without a length takes what is left.
LEMMA WholeRead ==
    ASSUME NEW S, NEW t, Whole(t), NEW v \in Seq(S),
           NEW buf, NEW o \in Nat, AtTheEnd(buf, o, v)
    PROVE  TakesTheRest(t, buf, o, v)
<1> USE DEF AtTheEnd, TakesTheRest
<1>1. t.type = "buffer" /\ t.max = Infinity /\ ~ isVariableLength(t)
  BY DEF Whole, isVariableLength
<1>2. t.type # "vector" /\ t.type # "struct" /\ t.type # "number"
  BY <1>1
<1>3. propertyFrom(t, buf, o) = bufferFrom(t, buf, o)
  BY <1>2, Zenon DEF propertyFrom, itemFrom, leafFrom
<1>4. /\ Len(buf) \in Nat /\ Len(v) \in Nat
      /\ \A i \in 1 .. Len(v) : buf[o + i] = v[i]
  BY DEF At
<1>5. LengthBytes(t) = 0
  BY <1>1, Zenon DEF LengthBytes
<1>6. PICK n, start : n = Len(buf) - o /\ start = o + 0
  OBVIOUS
<1>7. n = Len(v) /\ start = o /\ n # NaN /\ ~ (start > Len(buf)) /\ start + n = Len(buf)
  <2>1. n = Len(v) /\ start = o /\ ~ (start > Len(buf)) /\ start + n = Len(buf)
    BY <1>4, <1>6
  <2> QED
    BY <1>4, <2>1, NoNumbers
<1>8. bufferFrom(t, buf, o)
        = [value |-> [i \in 1 .. n |-> IF start + i <= Len(buf) THEN buf[start + i]
                                       ELSE Unwritten],
           end |-> start + n]
  BY <1>1, <1>5, <1>6, <1>7, Zenon DEF bufferFrom
<1>9. [i \in 1 .. n |-> IF start + i <= Len(buf) THEN buf[start + i] ELSE Unwritten] = v
  <2>1. \A i \in 1 .. n : start + i <= Len(buf) /\ buf[start + i] = v[i]
    BY <1>4, <1>7
  <2>2. v = [i \in 1 .. n |-> v[i]]
    BY <1>7
  <2> QED
    BY <2>1, <2>2
<1> QED
  BY <1>3, <1>7, <1>8, <1>9, Zenon

\* A structure whose last property is left out or takes what is left stands at
\* the end of its buffer, or what was left out follows without items.
Closes(t, v, buf, o) ==
    Len(v) > 0 =>
        /\ Whole(t.props[Len(v)]) => o + Len(serialize(t, v)) = Len(buf)
        /\ LeftOut(t.props[Len(v)], v[Len(v)]) =>
               \/ o + Len(serialize(t, v)) = Len(buf)
               \/ At(buf, o + Len(serialize(t, v)), WithLength(t.props[Len(v)], <<>>))

\* A structure that ends where its last byte is.
Exact(t, v) ==
    \A i \in DOMAIN t.props : ~ Whole(t.props[i]) /\ ~ LeftOut(t.props[i], v[i])

\* A buffer without a length is written as it is.
LEMMA WholeBytesOnly ==
    ASSUME NEW t, NEW v, Whole(t)
    PROVE  serializeProperty(t, v) = v
<1>1. t.type = "buffer" /\ ~ isVariableLength(t)
  BY DEF Whole, isVariableLength
<1>2. t.type # "vector" /\ t.type # "struct" /\ t.type # "number"
  BY <1>1
<1> QED
  BY <1>1, <1>2, Zenon DEF serializeProperty, serializeItem, serializeLeaf, WithLength

\* The bytes of a structure are those of its properties.
Serialized(t, v, ss, n) ==
    /\ Len(ss) = n /\ serialize(t, v) = FlattenSeq(ss)
    /\ \A i \in 1 .. n : ss[i] = serializeProperty(t.props[i], v[i])

\* A structure becomes bytes, those of its properties one after the other.
LEMMA StructureSeq ==
    ASSUME NEW S, Digits \subseteq S, NEW t, NEW v, fits(t, v, S), NEW n, n = Len(v)
    PROVE  /\ n \in Nat /\ DOMAIN t.props = 1 .. n /\ Listing(v)
           /\ \E ss \in Seq(Seq(S)) : Serialized(t, v, ss, n)
           /\ serialize(t, v) \in Seq(S)
<1>1. /\ Listing(t.props) /\ Listing(v) /\ Len(v) = Len(t.props)
      /\ \A i \in DOMAIN t.props :
            IF Whole(t.props[i]) THEN i = Len(v) /\ v[i] \in Seq(S)
            ELSE /\ propertyFits(t.props[i], v[i], S)
                 /\ i < Len(v) => ~ LeftOut(t.props[i], v[i])
  BY Zenon DEF fits
<1>2. n \in Nat /\ DOMAIN t.props = 1 .. n
  BY <1>1, ListingLength
<1>3. PICK ss : ss = [i \in 1 .. n |-> serializeProperty(t.props[i], v[i])]
  OBVIOUS
<1>4. \A i \in 1 .. n : ss[i] \in Seq(S)
  <2> TAKE i \in 1 .. n
  <2>1. ss[i] = serializeProperty(t.props[i], v[i])
    BY <1>3
  <2>2. CASE Whole(t.props[i])
    BY <1>1, <1>2, <2>1, <2>2, WholeBytesOnly
  <2>3. CASE ~ Whole(t.props[i])
    <3>1. propertyFits(t.props[i], v[i], S)
      BY <1>1, <1>2, <2>3
    <3> QED
      BY <2>1, <3>1, PropertySeq
  <2> QED
    BY <2>2, <2>3
<1>5. ss \in Seq(Seq(S)) /\ Len(ss) = n
  BY <1>2, <1>3, <1>4, PartsListed
<1>6. serialize(t, v) = FlattenSeq(ss)
  BY <1>2, <1>3, Zenon DEF serialize
<1>7. serialize(t, v) \in Seq(S)
  BY <1>5, <1>6, FlattenJoins
<1>8. \A i \in 1 .. n : ss[i] = serializeProperty(t.props[i], v[i])
  BY <1>3
<1>9. Serialized(t, v, ss, n)
  BY <1>5, <1>6, <1>8, Zenon DEF Serialized
<1> QED
  BY <1>1, <1>2, <1>5, <1>7, <1>9, Zenon

\* Every structure whose values fit their types is read as it was written,
\* wherever its bytes stand in a buffer.
THEOREM StructuresReadBack ==
    ASSUME NEW S, Digits \subseteq S, NEW t, NEW v, fits(t, v, S),
           NEW buf, NEW o \in Nat, At(buf, o, serialize(t, v)), Closes(t, v, buf, o)
    PROVE  /\ from(t, buf, o).value = v /\ from(t, buf, o).end \in Nat
           /\ Exact(t, v) => from(t, buf, o).end = o + Len(serialize(t, v))
<1>1. /\ Listing(t.props) /\ Listing(v) /\ Len(v) = Len(t.props)
      /\ \A i \in DOMAIN t.props :
            IF Whole(t.props[i]) THEN i = Len(v) /\ v[i] \in Seq(S)
            ELSE /\ propertyFits(t.props[i], v[i], S)
                 /\ i < Len(v) => ~ LeftOut(t.props[i], v[i])
  BY Zenon DEF fits
<1>2. PICK n \in Nat : n = Len(v) /\ DOMAIN t.props = 1 .. n
  BY <1>1, ListingLength
<1>3. PICK ss \in Seq(Seq(S)) :
          /\ Len(ss) = n /\ serialize(t, v) = FlattenSeq(ss)
          /\ \A i \in 1 .. n : ss[i] = serializeProperty(t.props[i], v[i])
  <2>1. PICK ss \in Seq(Seq(S)) : Serialized(t, v, ss, n)
    BY <1>2, StructureSeq, Zenon
  <2> QED
    BY <2>1, Zenon DEF Serialized
<1>4. PICK c : c = serialize(t, v)
  OBVIOUS
<1>5. c \in Seq(S) /\ Len(c) \in Nat /\ Len(buf) \in Nat /\ o + Len(c) <= Len(buf)
  <2>1. c \in Seq(S)
    BY <1>4, StructureSeq
  <2> QED
    BY <1>4, <2>1 DEF At
<1>6. PICK rds : rds = [i \in 1 .. n |-> [p \in Nat |-> propertyFrom(t.props[i], buf, p)]]
  OBVIOUS
<1>7. Len(rds) = n
  <2>1. DOMAIN rds = 1 .. n /\ rds = [i \in 1 .. n |-> rds[i]]
    BY <1>6
  <2> QED
    BY <2>1, Listed
<1>8. ASSUME NEW i \in 1 .. n, NEW p \in Nat, At(buf, p, ss[i]),
             ~ Whole(t.props[i]), ~ LeftOut(t.props[i], v[i])
      PROVE  rds[i][p] = [value |-> v[i], end |-> p + Len(ss[i])]
  <2>1. PICK ti, vi, b : ti = t.props[i] /\ vi = v[i] /\ b = ss[i]
    OBVIOUS
  <2>2. propertyFits(ti, vi, S) /\ b = serializeProperty(ti, vi) /\ ~ LeftOut(ti, vi)
    BY <1>1, <1>2, <1>3, <1>8, <2>1
  <2>3. Found(propertyFrom(ti, buf, p), vi, p, b)
    BY <1>8, <2>1, <2>2, PropertyRead
  <2>4. rds[i][p] = propertyFrom(ti, buf, p)
    BY <1>6, <2>1
  <2> QED
    BY <2>1, <2>3, <2>4, Zenon DEF Found
<1>9. n > 0 => /\ n \in 1 .. n /\ Len(ss[n]) \in Nat
               /\ At(buf, (o + Len(c)) - Len(ss[n]), ss[n])
               /\ (o + Len(c)) - Len(ss[n]) \in Nat
  <2> SUFFICES ASSUME n > 0
               PROVE  /\ n \in 1 .. n /\ Len(ss[n]) \in Nat
                      /\ At(buf, (o + Len(c)) - Len(ss[n]), ss[n])
                      /\ (o + Len(c)) - Len(ss[n]) \in Nat
    OBVIOUS
  <2>1. n \in 1 .. n
    OBVIOUS
  <2>2. PICK e : Joined(c, e, ss)
    BY <1>3, <1>4, FlattenJoins
  <2>3. /\ At(buf, o + e[n - 1], ss[n])
        /\ e[n - 1] \in Nat /\ e[n] = e[n - 1] + Len(ss[n])
    <3>1. PartStands(buf, o, e, ss, n)
      BY <1>3, <1>4, <2>1, <2>2, PartsStand
    <3> QED
      BY <3>1, Zenon DEF PartStands
  <2>4. Len(c) = e[n]
    BY <1>3, <2>2 DEF Joined
  <2>5. Len(ss[n]) \in Nat
    <3>1. ss[n] \in Seq(S)
      BY <1>3, <2>1
    <3> QED
      BY <3>1
  <2>6. (o + Len(c)) - Len(ss[n]) = o + e[n - 1]
    <3>1. PICK a, b, l : a = e[n - 1] /\ b = Len(ss[n]) /\ l = Len(c)
      OBVIOUS
    <3>2. a \in Nat /\ b \in Nat /\ l = a + b
      BY <2>3, <2>4, <2>5, <3>1
    <3>3. (o + l) - b = o + a
      BY <3>2
    <3> QED
      BY <3>1, <3>3, Zenon
  <2>7. o + e[n - 1] \in Nat
    BY <2>3
  <2> QED
    BY <2>1, <2>3, <2>5, <2>6, <2>7, Zenon
<1>10. PICK last \in Nat :
           /\ n > 0 => rds[n][(o + Len(c)) - Len(ss[n])] = [value |-> v[n], end |-> last]
           /\ Exact(t, v) => last = o + Len(c)
  <2>0. o + Len(c) \in Nat
    BY <1>5
  <2>1. CASE n = 0
    BY <2>0, <2>1
  <2>2. CASE n > 0
    <3>1. PICK p, tn, vn, b :
              /\ p \in Nat /\ p = (o + Len(c)) - Len(ss[n]) /\ tn = t.props[n] /\ vn = v[n] /\ b = ss[n]
      BY <1>9, <2>2
    <3>2. /\ n \in 1 .. n /\ Len(b) \in Nat /\ At(buf, p, b) /\ b = serializeProperty(tn, vn)
          /\ p + Len(b) = o + Len(c)
      BY <1>3, <1>5, <1>9, <2>2, <3>1
    <3>3. rds[n][p] = propertyFrom(tn, buf, p)
      BY <1>6, <3>1, <3>2
    <3>4. CASE Whole(tn)
      <4>1. vn \in Seq(S) /\ b = vn
        BY <1>1, <1>2, <3>1, <3>2, <3>4, WholeBytesOnly
      <4>2. p + Len(vn) = Len(buf)
        BY <1>2, <1>4, <2>2, <3>1, <3>2, <3>4, <4>1 DEF Closes
      <4>3. propertyFrom(tn, buf, p) = [value |-> vn, end |-> Len(buf)]
        <5>1. p \in Nat /\ vn \in Seq(S) /\ At(buf, p, vn)
          BY <3>1, <3>2, <4>1, Zenon
        <5>2. AtTheEnd(buf, p, vn)
          BY <4>2, <5>1, Zenon DEF AtTheEnd
        <5>3. TakesTheRest(tn, buf, p, vn)
          BY <3>4, <5>1, <5>2, WholeRead, Zenon
        <5> QED
          BY <5>3, Zenon DEF TakesTheRest
      <4>4. Len(buf) = o + Len(c)
        BY <3>2, <4>1, <4>2
      <4> QED
        BY <1>5, <3>1, <3>3, <4>3, <4>4
    <3>5. CASE LeftOut(tn, vn) /\ ~ Whole(tn)
      <4>1. propertyFits(tn, vn, S)
        BY <1>1, <1>2, <3>1, <3>2, <3>5
      <4>2. b = <<>> /\ Len(b) = 0
        <5>1. tn.type = "vector"
          BY <3>5 DEF LeftOut
        <5>2. b = <<>>
          BY <3>2, <3>5, <5>1, Zenon DEF serializeProperty
        <5> QED
          BY <5>2
      <4>3. p = o + Len(c)
        <5>1. PICK l : l = Len(c) /\ l \in Nat
          BY <1>5
        <5>2. p + 0 = o + l /\ p \in Nat
          BY <3>1, <3>2, <4>2, <5>1, Zenon
        <5>3. p = o + l
          BY <5>1, <5>2
        <5> QED
          BY <5>1, <5>3, Zenon
      <4>4. p = Len(buf) \/ At(buf, p, WithLength(tn, <<>>))
        BY <1>2, <1>4, <2>2, <3>1, <3>5, <4>3 DEF Closes
      <4>5. PICK q \in Nat : propertyFrom(tn, buf, p) = [value |-> vn, end |-> q]
        <5>1. p \in Nat /\ Len(buf) \in Nat /\ LeftOut(tn, vn)
          BY <1>5, <3>1, <3>5, Zenon
        <5> QED
          BY <4>1, <4>4, <5>1, LeftOutRead
      <4>6. ~ Exact(t, v)
        BY <1>2, <3>1, <3>2, <3>5 DEF Exact
      <4> QED
        BY <3>1, <3>3, <4>5, <4>6
    <3>6. CASE ~ LeftOut(tn, vn) /\ ~ Whole(tn)
      <4>1. rds[n][p] = [value |-> v[n], end |-> p + Len(ss[n])]
        BY <1>8, <3>1, <3>2, <3>6
      <4>2. p + Len(ss[n]) = o + Len(c)
        BY <3>1, <3>2
      <4> QED
        BY <2>0, <3>1, <4>1, <4>2
    <3> QED
      BY <3>4, <3>5, <3>6
  <2> QED
    <3>1. n = 0 \/ n > 0
      OBVIOUS
    <3> QED
      BY <2>1, <2>2, <3>1, Zenon
<1>11. ASSUME NEW i \in 1 .. Len(v), NEW p \in Nat, At(buf, p, ss[i]),
              i = Len(v) => p + Len(ss[i]) = o + Len(FlattenSeq(ss))
       PROVE  rds[i][p] = [value |-> v[i], end |-> IF i = Len(v) THEN last ELSE p + Len(ss[i])]
  <2>1. CASE i = Len(v)
    <3>1. n > 0 /\ i = n
      BY <1>2, <2>1
    <3>2. p = (o + Len(c)) - Len(ss[n])
      BY <1>3, <1>4, <1>5, <1>9, <1>11, <2>1, <3>1
    <3> QED
      BY <1>10, <2>1, <3>1, <3>2
  <2>2. CASE i # Len(v)
    <3>1. i \in DOMAIN t.props /\ i < Len(v) /\ i \in 1 .. n
      BY <1>2, <2>2
    <3>2. ~ Whole(t.props[i]) /\ ~ LeftOut(t.props[i], v[i])
      BY <1>1, <3>1, <2>2
    <3>3. rds[i][p] = [value |-> v[i], end |-> p + Len(ss[i])]
      BY <1>8, <1>11, <3>1, <3>2
    <3> QED
      BY <2>2, <3>3
  <2> QED
    BY <2>1, <2>2
<1>12. v \in Seq(Range(v)) /\ Len(ss) = Len(v) /\ Len(rds) = Len(v)
  BY <1>1, <1>2, <1>3, <1>7, ListingLength
<1>13. At(buf, o, FlattenSeq(ss))
  BY <1>3
<1>14. propertiesFrom(rds, o) = [value |-> v, end |-> IF Len(v) = 0 THEN o ELSE last]
  <2>1. EachReads(rds, buf, ss, v, o, last)
    BY <1>11, Zenon DEF EachReads
  <2>2. AllRead(rds, v, o, last)
    BY <1>3, <1>10, <1>12, <1>13, <2>1, EachRead, Zenon
  <2> QED
    BY <2>2, Zenon DEF AllRead
<1>15. from(t, buf, o) = propertiesFrom(rds, o)
  BY <1>2, <1>6, Zenon DEF from
<1>16. n = 0 => Len(c) = 0
  <2>1. PICK e : Joined(c, e, ss)
    BY <1>3, <1>4, FlattenJoins
  <2> QED
    BY <1>3, <2>1 DEF Joined, Laid
<1>17. /\ from(t, buf, o).value = v
       /\ from(t, buf, o).end = IF n = 0 THEN o ELSE last
  BY <1>2, <1>14, <1>15
<1>18. Exact(t, v) => from(t, buf, o).end = o + Len(c)
  BY <1>2, <1>10, <1>16, <1>17
<1> QED
  BY <1>4, <1>10, <1>17, <1>18

-----------------------------------------------------------------------------
(* Keys.                                                                    *)

Suite(s) == \E name \in DOMAIN CipherSuites : s = CipherSuites[name]

\* The keys the two ends have in use never share a byte.
LEMMA KeysStayApart == Suite(cipherSuite) => KeysApart
<1> SUFFICES ASSUME NEW name \in DOMAIN CipherSuites, cipherSuite = CipherSuites[name]
             PROVE  KeysApart
  BY DEF Suite
<1>1. HasLengths(cipherSuite)
  BY SuiteKeys
<1>2. PICK suite, master : suite = cipherSuite /\ master = MasterSecret(PreMasterSecret(<<"psk">>), "client", "this")
  OBVIOUS
<1>3. SlicesApart(suite, computeKeyMaterial(suite, master, "client", "this"))
  BY <1>1, <1>2, KeysCutApart DEF HasLengths
<1> QED
  BY <1>2, <1>3, Zenon DEF KeysApart, Material

\* Once the keys are computed, the write keys, the MAC keys and the IVs of the
\* two ends lie apart in the key block, whatever the suite: no byte serves two
\* purposes, or both directions.
THEOREM KeysAreApart == Spec => []KeysApart
<1>1. Init => Suite(cipherSuite)
  <2> SUFFICES ASSUME Init PROVE Suite(cipherSuite)
    OBVIOUS
  <2>1. PICK name \in Suites : cipherSuite = CipherSuites[name]
    BY DEF Init
  <2> QED
    BY <2>1, SuitesAssumption DEF Suite
<1>2. Suite(cipherSuite) /\ [Next]_vars => Suite(cipherSuite)'
  <2> SUFFICES ASSUME Suite(cipherSuite), [Next]_vars PROVE cipherSuite' = cipherSuite
    BY DEF Suite
  <2> QED
    BY DEF Next, vars, ends, processOutgoingMessage, Change, Parse, Decipher
<1> QED
  BY <1>1, <1>2, KeysStayApart, PTL DEF Spec

-----------------------------------------------------------------------------
(* The bytes of a record.                                                   *)

\* What is read from a byte as a number is one.
IsByte(x) == Value(x) \in 0 .. Base - 1

\* A digit of the wire is a number a byte holds.
LEMMA DigitIsByte ==
    ASSUME NEW x \in Digits
    PROVE  IsByte(x) /\ x[1] = "byte"
  BY DEF IsByte, Digits, Byte, Value

\* So is what is read of a byte a cipher or a chance has made.
LEMMA MadeIsByte ==
    ASSUME NEW x, x[1] # "byte"
    PROVE  IsByte(x)
<1>1. Value(x) = Chance
  BY Zenon DEF Value
<1> QED
  BY <1>1, BaseAssumption, ChanceAssumption DEF IsByte

\* A sequence of a length, and what a cipher makes as one.
Sized(r, n) == r \in Seq(Parts(r)) /\ Len(r) = n

\* A ciphertext is as long as what it hides.
LEMMA HideSized ==
    ASSUME NEW mode, NEW key, NEW nonce, NEW S, NEW plain \in Seq(S)
    PROVE  Sized(Hide(mode, key, nonce, plain), Len(plain))
  BY HiddenListed DEF Sized

\* A tag has the length it is asked for.
LEMMA TagSized ==
    ASSUME NEW n \in Nat, NEW key, NEW nonce, NEW aad, NEW content
    PROVE  Sized(Tag(n, key, nonce, aad, content), n)
  BY TagListed DEF Sized

\* Every byte of a block cipher's or an AEAD cipher's output is made.
LEMMA BlockBytes ==
    ASSUME NEW suite, suite.algorithm \in DOMAIN BlockCipherParameters,
           suite.cipherType = "block", suite.macAlgorithm \in DOMAIN HMACLength,
           NEW packet, NEW S, packet.fragment \in Seq(S), NEW material, NEW connEnd,
           NEW c, c = blockCipher(suite, packet, material, connEnd)
    PROVE  /\ c \in Seq(Parts(c)) /\ Len(c) <= Len(packet.fragment) + 96
           /\ \A x \in Parts(c) : x[1] \in {"random", "cbc"}
<1>1. PICK b, v : /\ b = BlockCipherParameters[suite.algorithm].blockSize
                  /\ v = BlockCipherParameters[suite.algorithm].recordIvLength
                  /\ b \in 1 .. 16 /\ v \in 0 .. 16
  <2>1. \A a \in DOMAIN BlockCipherParameters :
            /\ BlockCipherParameters[a].blockSize \in 1 .. 16
            /\ BlockCipherParameters[a].recordIvLength \in 0 .. 16
    BY DEF BlockCipherParameters
  <2> QED
    BY <2>1, Zenon
<1>2. PICK key, m, r, pad, plain, content :
          /\ content = packet.fragment
          /\ key = material[connEnd].key
          /\ m = MAC(suite, material[connEnd].MAC_key, packet, content)
          /\ r = randomBytes(packet, connEnd, v)
          /\ plain = content \o m
          /\ pad = padding(Len(plain), b)
  OBVIOUS
<1>3. m \in Seq(Parts(m)) /\ Len(m) \in 0 .. 64
  <2>1. m \in Seq(Parts(m)) /\ Len(m) = MACLength(suite)
    BY <1>2, MACListed
  <2>2. MACLength(suite) \in 0 .. 64
    <3>1. \A a \in DOMAIN HMACLength : HMACLength[a] \in 0 .. 64
      <4>1. DOMAIN HMACLength = {"md5", "sha1", "sha256", "sha384", "sha512"}
        BY DEF HMACLength
      <4>2. /\ HMACLength["md5"] = 16 /\ HMACLength["sha1"] = 20 /\ HMACLength["sha256"] = 32
            /\ HMACLength["sha384"] = 48 /\ HMACLength["sha512"] = 64
        BY DEF HMACLength
      <4> TAKE a \in DOMAIN HMACLength
      <4>3. HMACLength[a] = 16 \/ HMACLength[a] = 20 \/ HMACLength[a] = 32
            \/ HMACLength[a] = 48 \/ HMACLength[a] = 64
        <5>1. a = "md5" \/ a = "sha1" \/ a = "sha256" \/ a = "sha384" \/ a = "sha512"
          BY <4>1, Zenon
        <5>2. CASE a = "md5"
          BY <4>2, <5>2, Zenon
        <5>3. CASE a = "sha1"
          BY <4>2, <5>3, Zenon
        <5>4. CASE a = "sha256"
          BY <4>2, <5>4, Zenon
        <5>5. CASE a = "sha384"
          BY <4>2, <5>5, Zenon
        <5>6. CASE a = "sha512"
          BY <4>2, <5>6, Zenon
        <5> QED
          BY <5>1, <5>2, <5>3, <5>4, <5>5, <5>6, Zenon
      <4>4. PICK l : l = HMACLength[a]
        OBVIOUS
      <4>5. l \in 0 .. 64
        <5>1. l = 16 \/ l = 20 \/ l = 32 \/ l = 48 \/ l = 64
          BY <4>3, <4>4, Zenon
        <5> QED
          BY <5>1
      <4> QED
        BY <4>4, <4>5, Zenon
    <3> QED
      BY <3>1, Zenon DEF MACLength
  <2> QED
    BY <2>1, <2>2
<1>4. content \in Seq(S) /\ Len(content) \in Nat
  BY <1>2
<1>5. PICK Q : Q = S \cup Parts(m)
  OBVIOUS
<1>6. plain \in Seq(Q) /\ Len(plain) = Len(content) + Len(m)
  <2>1. content \in Seq(Q) /\ m \in Seq(Q)
    BY <1>3, <1>4, <1>5
  <2> QED
    BY <1>2, <2>1
<1>7. Len(plain) \in Nat
  BY <1>6
<1>8. pad \in Seq(Parts(pad)) /\ Len(pad) \in 0 .. 16
  <2>1. b \in Nat \ {0}
    <3>1. b \in 1 .. 16
      BY <1>1, Zenon
    <3> QED
      BY <3>1
  <2>2. PICK l : l = Len(plain) /\ l \in Nat /\ pad = padding(l, b)
    BY <1>2, <1>7
  <2>3. PICK n \in 0 .. b - 1 : padding(l, b) = [i \in 1 .. n + 1 |-> Byte(n)]
    BY <2>1, <2>2, PaddingFills, Zenon
  <2>4. PICK k : k = n + 1 /\ k \in Nat /\ k \in 0 .. 16
    <3>1. b \in 1 .. 16 /\ n \in 0 .. b - 1
      BY <1>1, Zenon
    <3>2. n + 1 \in Nat /\ n + 1 \in 0 .. 16
      BY <3>1
    <3> QED
      BY <3>2, Zenon
  <2>5. pad = [i \in 1 .. k |-> Byte(n)]
    BY <2>2, <2>3, <2>4, Zenon
  <2>6. DOMAIN pad = 1 .. k /\ pad = [i \in 1 .. k |-> pad[i]]
    BY <2>5
  <2>7. pad \in Seq(Parts(pad)) /\ Len(pad) = k
    BY <2>4, <2>6, Listed, Zenon
  <2> QED
    BY <2>4, <2>7
<1>9. PICK padded, hidden : padded = plain \o pad /\ hidden = Hide("cbc", key, r, padded)
  OBVIOUS
<1>10. PICK R : R = Q \cup Parts(pad)
  OBVIOUS
<1>11. padded \in Seq(R) /\ Len(padded) = Len(plain) + Len(pad)
  <2>1. plain \in Seq(R) /\ pad \in Seq(R)
    BY <1>6, <1>8, <1>10
  <2> QED
    BY <1>9, <2>1
<1>12. hidden \in Seq(Parts(hidden)) /\ Len(hidden) = Len(padded)
  <2>1. padded \in Seq(R)
    BY <1>11
  <2>2. hidden = Hide("cbc", key, r, padded)
    BY <1>9
  <2>3. Sized(Hide("cbc", key, r, padded), Len(padded))
    BY <2>1, HideSized
  <2>4. Sized(hidden, Len(padded))
    BY <2>2, <2>3, Zenon
  <2> QED
    BY <2>4, Zenon DEF Sized
<1>13. r \in Seq(Parts(r)) /\ Len(r) = v
  <2>1. v \in 0 .. 16 /\ r = randomBytes(packet, connEnd, v)
    BY <1>1, <1>2, Zenon
  <2>2. v \in Nat
    BY <2>1
  <2> QED
    BY <2>1, <2>2, RandomListed, Zenon
<1>14. c = r \o hidden
  BY <1>1, <1>2, <1>9, Zenon DEF blockCipher
<1>15. PICK T : T = Parts(r) \cup Parts(hidden)
  OBVIOUS
<1>16. r \in Seq(T) /\ hidden \in Seq(T)
  BY <1>12, <1>13, <1>15
<1>17. Parts(c) = Parts(r) \cup Parts(hidden)
  BY <1>14, <1>16, PartsJoined
<1>18. c \in Seq(T) /\ Len(c) = Len(r) + Len(hidden)
  BY <1>14, <1>16
<1>19. Len(c) <= Len(packet.fragment) + 96
  <2>1. PICK l, lm, lp : l = Len(content) /\ lm = Len(m) /\ lp = Len(pad)
    OBVIOUS
  <2>2. l \in Nat /\ lm \in 0 .. 64 /\ lp \in 0 .. 16 /\ v \in 0 .. 16
    BY <1>1, <1>3, <1>4, <1>8, <2>1, Zenon
  <2>3. Len(c) = v + ((l + lm) + lp)
    BY <1>6, <1>11, <1>12, <1>13, <1>18, <2>1, Zenon
  <2>4. v + ((l + lm) + lp) <= l + 96
    BY <2>2
  <2> QED
    BY <1>2, <2>1, <2>3, <2>4, Zenon
<1>20. \A x \in Parts(c) : x[1] \in {"random", "cbc"}
  <2>1. \A x \in Parts(r) : x[1] = "random"
    BY <1>2, RandomKind
  <2>2. \A x \in Parts(hidden) : x[1] = "cbc"
    <3>1. \A x \in Parts(Hide("cbc", key, r, padded)) :
              \E i \in DOMAIN padded : x = <<"cbc", key, r, i, padded[i]>>
      BY HiddenKind
    <3> QED
      BY <1>9, <3>1
  <2> QED
    BY <1>17, <2>1, <2>2
<1> QED
  BY <1>15, <1>17, <1>18, <1>19, <1>20

\* What an AEAD cipher makes of a content: less than 96 bytes more, all its own.
LEMMA AEADBytes ==
    ASSUME NEW suite, suite.algorithm \in DOMAIN AEADCipherParameters,
           suite.cipherType = "aead",
           NEW packet, NEW S, packet.fragment \in Seq(S), NEW material, NEW connEnd,
           NEW c, c = aeadCipher(suite, packet, material, connEnd)
    PROVE  /\ c \in Seq(Parts(c)) /\ Len(c) <= Len(packet.fragment) + 96
           /\ \A x \in Parts(c) : x[1] \in {"random", "aead", "tag"}
<1>1. PICK n, v : /\ n = AEADCipherParameters[suite.algorithm].authTagLength
                  /\ v = AEADCipherParameters[suite.algorithm].recordIvLength
                  /\ n \in 0 .. 16 /\ v \in 0 .. 16
  <2>1. \A a \in DOMAIN AEADCipherParameters :
            /\ AEADCipherParameters[a].authTagLength \in 0 .. 16
            /\ AEADCipherParameters[a].recordIvLength \in 0 .. 16
    BY DEF AEADCipherParameters, AEADParameters
  <2> QED
    BY <2>1, Zenon
<1>2. PICK keys, r, nonce, aad, content :
          /\ content = packet.fragment
          /\ keys = material[connEnd]
          /\ r = randomBytes(packet, connEnd, v)
          /\ nonce = <<keys.IV, r>>
          /\ aad = Header(packet, Len(content))
  OBVIOUS
<1>3. PICK hidden, tag : /\ hidden = Hide("aead", keys.key, nonce, content)
                         /\ tag = Tag(n, keys.key, nonce, aad, content)
  OBVIOUS
<1>4. c = r \o hidden \o tag
  BY <1>1, <1>2, <1>3, Zenon DEF aeadCipher
<1>5. content \in Seq(S) /\ Len(content) \in Nat
  BY <1>2
<1>6. r \in Seq(Parts(r)) /\ Len(r) = v
  <2>1. v \in 0 .. 16 /\ r = randomBytes(packet, connEnd, v)
    BY <1>1, <1>2, Zenon
  <2>2. v \in Nat
    BY <2>1
  <2> QED
    BY <2>1, <2>2, RandomListed, Zenon
<1>7. hidden \in Seq(Parts(hidden)) /\ Len(hidden) = Len(content)
  <2>1. content \in Seq(S) /\ hidden = Hide("aead", keys.key, nonce, content)
    BY <1>3, <1>5, Zenon
  <2>2. Sized(Hide("aead", keys.key, nonce, content), Len(content))
    BY <2>1, HideSized
  <2>3. Sized(hidden, Len(content))
    BY <2>1, <2>2, Zenon
  <2> QED
    BY <2>3, Zenon DEF Sized
<1>8. tag \in Seq(Parts(tag)) /\ Len(tag) = n
  <2>1. n \in 0 .. 16 /\ tag = Tag(n, keys.key, nonce, aad, content)
    BY <1>1, <1>3, Zenon
  <2>2. n \in Nat
    BY <2>1
  <2>3. Sized(Tag(n, keys.key, nonce, aad, content), n)
    BY <2>2, TagSized
  <2>4. Sized(tag, n)
    BY <2>1, <2>3, Zenon
  <2> QED
    BY <2>4, Zenon DEF Sized
<1>9. PICK T : T = Parts(r) \cup Parts(hidden) \cup Parts(tag)
  OBVIOUS
<1>10. r \in Seq(T) /\ hidden \in Seq(T) /\ tag \in Seq(T)
  BY <1>6, <1>7, <1>8, <1>9
<1>11. Parts(c) = T
  BY <1>4, <1>9, <1>10, ThreeJoined
<1>12. c \in Seq(T) /\ Len(c) = Len(r) + Len(hidden) + Len(tag)
  BY <1>4, <1>10
<1>13. Len(c) <= Len(packet.fragment) + 96
  <2>1. PICK l : l = Len(content) /\ l \in Nat
    BY <1>5
  <2>2. Len(c) = v + l + n
    <3>1. PICK x, y, z : x = Len(r) /\ y = Len(hidden) /\ z = Len(tag)
      OBVIOUS
    <3>2. Len(c) = x + y + z
      BY <1>12, <3>1, Zenon
    <3>3. x = v /\ y = l /\ z = n
      BY <1>2, <1>6, <1>7, <1>8, <2>1, <3>1, Zenon
    <3> QED
      BY <3>2, <3>3, Zenon
  <2>3. v + l + n <= l + 96
    <3>1. v \in 0 .. 16 /\ n \in 0 .. 16 /\ l \in Nat
      BY <1>1, <2>1, Zenon
    <3> QED
      BY <3>1
  <2> QED
    BY <1>2, <2>1, <2>2, <2>3, Zenon
<1>14. \A x \in Parts(c) : x[1] \in {"random", "aead", "tag"}
  <2>1. \A x \in Parts(r) : x[1] = "random"
    BY <1>2, RandomKind
  <2>2. \A x \in Parts(hidden) : x[1] = "aead"
    <3>1. \A x \in Parts(Hide("aead", keys.key, nonce, content)) :
              \E i \in DOMAIN content : x = <<"aead", keys.key, nonce, i, content[i]>>
      BY HiddenKind
    <3> QED
      BY <1>3, <3>1
  <2>3. \A x \in Parts(tag) : x[1] = "tag"
    <3>1. \A x \in Parts(Tag(n, keys.key, nonce, aad, content)) :
              \E i : x = <<"tag", keys.key, nonce, aad, content, i>>
      BY TagKind
    <3> QED
      BY <1>3, <3>1
  <2> QED
    BY <1>9, <1>11, <2>1, <2>2, <2>3
<1> QED
  BY <1>11, <1>12, <1>13, <1>14

\* What a suite makes of a content: at most 96 bytes more.
LEMMA EncipheredBytes ==
    ASSUME NEW suite, Suite(suite), NEW packet, packet.fragment \in Seq(Digits),
           NEW material, NEW connEnd,
           NEW c, c = Enciphered(suite, packet, material, connEnd)
    PROVE  /\ c \in Seq(Parts(c)) /\ Len(c) <= Len(packet.fragment) + 96
           /\ \A x \in Parts(c) : IsByte(x)
<1>1. PICK name \in DOMAIN CipherSuites : suite = CipherSuites[name]
  BY DEF Suite
<1>2. /\ suite.cipherType \in {"null", "block", "aead"}
      /\ suite.cipherType = "block" =>
             /\ suite.algorithm \in DOMAIN BlockCipherParameters
             /\ suite.macAlgorithm \in DOMAIN HMACLength
      /\ suite.cipherType = "aead" => suite.algorithm \in DOMAIN AEADCipherParameters
  BY <1>1, SuiteLengths
<1>3. CASE suite.cipherType = "null"
  <2>1. c = packet.fragment
    BY <1>3 DEF Enciphered
  <2>2. c \in Seq(Digits)
    BY <2>1
  <2>3. \A x \in Parts(c) : x \in Digits
    BY <2>2 DEF Parts
  <2>4. c \in Seq(Parts(c))
    <3>1. Len(c) \in Nat /\ DOMAIN c = 1 .. Len(c) /\ c = [i \in 1 .. Len(c) |-> c[i]]
      BY <2>2
    <3> QED
      BY <3>1, Listed
  <2>5. Len(c) <= Len(c) + 96
    BY <2>2
  <2> QED
    BY <2>1, <2>3, <2>4, <2>5, DigitIsByte
<1>4. CASE suite.cipherType = "block"
  <2>1. c = blockCipher(suite, packet, material, connEnd)
    BY <1>4 DEF Enciphered
  <2>2. /\ c \in Seq(Parts(c)) /\ Len(c) <= Len(packet.fragment) + 96
        /\ \A x \in Parts(c) : x[1] \in {"random", "cbc"}
    BY <1>2, <1>4, <2>1, BlockBytes
  <2> QED
    BY <2>2, MadeIsByte
<1>5. CASE suite.cipherType = "aead"
  <2>1. c = aeadCipher(suite, packet, material, connEnd)
    BY <1>5 DEF Enciphered
  <2>2. /\ c \in Seq(Parts(c)) /\ Len(c) <= Len(packet.fragment) + 96
        /\ \A x \in Parts(c) : x[1] \in {"random", "aead", "tag"}
    BY <1>2, <1>5, <2>1, AEADBytes
  <2> QED
    BY <2>2, MadeIsByte
<1> QED
  BY <1>2, <1>3, <1>4, <1>5

-----------------------------------------------------------------------------
(* Structures that fit.                                                     *)

\* A listing of two.
LEMMA ListingTwo ==
    ASSUME NEW a, NEW b, NEW s, s = <<a, b>>
    PROVE  Listing(s) /\ Len(s) = 2 /\ DOMAIN s = 1 .. 2 /\ s[1] = a /\ s[2] = b
<1>1. Len(s) = 2 /\ DOMAIN s = 1 .. 2
  OBVIOUS
<1>2. s = [i \in 1 .. 2 |-> s[i]]
  OBVIOUS
<1> QED
  BY <1>1, <1>2 DEF Listing

\* A listing of five.
LEMMA ListingFive ==
    ASSUME NEW a, NEW b, NEW c, NEW d, NEW e, NEW s, s = <<a, b, c, d, e>>
    PROVE  /\ Listing(s) /\ Len(s) = 5 /\ DOMAIN s = 1 .. 5
           /\ s[1] = a /\ s[2] = b /\ s[3] = c /\ s[4] = d /\ s[5] = e
<1>1. Len(s) = 5 /\ DOMAIN s = 1 .. 5
  OBVIOUS
<1>2. s = [i \in 1 .. 5 |-> s[i]]
  OBVIOUS
<1> QED
  BY <1>1, <1>2 DEF Listing

\* The powers of the base that the fields of a record are bounded by.
LEMMA PowersGrow ==
    /\ Power[1] = Base /\ Power[1] < Power[2] /\ Power[2] < Power[3] /\ Power[3] < Power[4]
    /\ Power[4] < Power[6] /\ Power[2] > 128 /\ Power[4] > 128
    /\ \A k \in {1, 2, 3, 4, 6} : Power[k] \in Nat
    /\ NumberLimit = Power[4] /\ INT_BYTES = 4
<1>1. ASSUME NEW k \in Nat PROVE Power[k] < Power[k + 1] /\ Power[k] \in Nat
  <2>1. Power[k] \in Nat \ {0} /\ Power[k + 1] = Base * Power[k]
    BY Powers, Zenon
  <2>2. PICK p, q : p = Power[k] /\ q = Power[k + 1]
    OBVIOUS
  <2>3. p \in Nat \ {0} /\ q = Base * p
    BY <2>1, <2>2, Zenon
  <2>4. Base \in Nat /\ Base > 23
    BY BaseAssumption, NumberAssumption
  <2>5. q >= 2 * p
    BY <2>3, <2>4, SMTT(30)
  <2> QED
    BY <2>2, <2>3, <2>4, <2>5
<1>2. Power[0] = 1 /\ Power[1] = Base * 1 /\ Power[2] = Base * Power[1]
  <2>1. Power[0 + 1] = Base * Power[0] /\ Power[1 + 1] = Base * Power[1] /\ Power[0] = 1
    BY Powers
  <2> QED
    BY <2>1
<1>3. Power[1] = Base /\ Power[2] = Base * Base /\ Base \in Nat /\ Base > 23
  BY <1>2, BaseAssumption, NumberAssumption
<1>4. Power[2] > 128
  <2>1. Base * Base >= 24 * Base
    BY <1>3, SMTT(30)
  <2> QED
    BY <1>3, <2>1
<1>5. /\ Power[1] < Power[2] /\ Power[2] < Power[3] /\ Power[3] < Power[4]
      /\ Power[4] < Power[5] /\ Power[5] < Power[6]
      /\ \A k \in 0 .. 6 : Power[k] \in Nat
  <2>1. /\ Power[1] < Power[1 + 1] /\ Power[2] < Power[2 + 1] /\ Power[3] < Power[3 + 1]
        /\ Power[4] < Power[4 + 1] /\ Power[5] < Power[5 + 1]
    BY <1>1
  <2> QED
    BY <1>1, <2>1
<1>6. NumberLimit = Power[4] /\ INT_BYTES = 4
  BY NumberAssumption DEF INT_BYTES
<1> QED
  BY <1>3, <1>4, <1>5, <1>6

\* A number fits a field it is small enough for.
LEMMA NumberFits ==
    ASSUME NEW S, NEW k \in {1, 2, 3, 6}, NEW n \in Nat, n < Power[k], n < Power[4]
    PROVE  leafFits(Number(k), n, S) /\ Number(k).type = "number" /\ Number(k).bytes = k
<1>1. Number(k).type = "number" /\ Number(k).bytes = k /\ k \in Nat
  BY DEF Number
<1>2. INT_BYTES = 4
  BY DEF INT_BYTES
<1> QED
  BY <1>1, <1>2, Zenon DEF leafFits

\* Bytes fit a buffer they are few enough for.
LEMMA BufferFits ==
    ASSUME NEW S, NEW k \in {2, 3}, NEW f \in Seq(S), Len(f) <= Largest(k)
    PROVE  /\ leafFits(Buffer(0, Largest(k)), f, S)
           /\ Buffer(0, Largest(k)).type = "buffer" /\ Buffer(0, Largest(k)).max = Largest(k)
           /\ isVariableLength(Buffer(0, Largest(k)))
           /\ Largest(k) \in Nat /\ Largest(k) < Power[4]
<1>1. PICK t : t = Buffer(0, Largest(k))
  OBVIOUS
<1>2. t.type = "buffer" /\ t.max = Largest(k) /\ t.min = 0
  BY <1>1 DEF Buffer
<1>3. Largest(k) \in Nat /\ Largest(k) # 0 /\ Largest(k) < Power[INT_BYTES]
      /\ INT_BYTES = 4
  <2>1. PICK p2, p3, p4 : p2 = Power[2] /\ p3 = Power[3] /\ p4 = Power[4]
    OBVIOUS
  <2>2. p2 \in Nat /\ p3 \in Nat /\ p4 \in Nat /\ 128 < p2 /\ p2 < p3 /\ p3 < p4
    BY <2>1, PowersGrow
  <2>3. Power[k] = p2 \/ Power[k] = p3
    BY <2>1
  <2>4. PICK p : p = Power[k]
    OBVIOUS
  <2>5. p - 1 \in Nat /\ p - 1 # 0 /\ p - 1 < p4
    BY <2>2, <2>3, <2>4
  <2> QED
    BY <2>1, <2>4, <2>5, PowersGrow, Zenon DEF Largest
<1>4. isVariableLength(t)
  BY <1>2, <1>3, Zenon DEF isVariableLength
<1>5. LengthFits(t, f)
  BY <1>2, <1>3, <1>4, Zenon DEF LengthFits
<1>6. leafFits(t, f, S)
  BY <1>2, <1>5, Zenon DEF leafFits
<1> QED
  BY <1>1, <1>2, <1>3, <1>4, <1>6, Zenon

\* A leaf is a property that can stand anywhere.
LEMMA LeafIsProperty ==
    ASSUME NEW S, NEW t, NEW v, leafFits(t, v, S)
    PROVE  /\ t.type \in {"number", "buffer"} /\ ~ LeftOut(t, v)
           /\ itemFits(t, v, S) /\ propertyFits(t, v, S)
<1>1. t.type \in {"number", "buffer"}
  BY DEF leafFits
<1>2. t.type # "vector" /\ t.type # "struct"
  BY <1>1
<1> QED
  BY <1>1, <1>2, Zenon DEF LeftOut, itemFits, propertyFits

\* A property that is neither left out nor takes what is left.
Closed(t, v, S) == propertyFits(t, v, S) /\ ~ Whole(t) /\ ~ LeftOut(t, v)

\* A field for a number ends where its bytes do.
LEMMA NumberClosed ==
    ASSUME NEW S, NEW k \in {1, 2, 3, 6}, NEW n \in Nat, n < Power[k], n < Power[4]
    PROVE  Closed(Number(k), n, S)
<1>1. PICK t : t = Number(k)
  OBVIOUS
<1>2. leafFits(t, n, S) /\ t.type = "number"
  BY <1>1, NumberFits
<1>3. propertyFits(t, n, S) /\ ~ LeftOut(t, n)
  BY <1>2, LeafIsProperty
<1>4. ~ Whole(t)
  BY <1>2 DEF Whole
<1> QED
  BY <1>1, <1>3, <1>4, Zenon DEF Closed

\* So does one for bytes with a length.
LEMMA BufferClosed ==
    ASSUME NEW S, NEW k \in {2, 3}, NEW f \in Seq(S), Len(f) <= Largest(k)
    PROVE  Closed(Buffer(0, Largest(k)), f, S)
<1>1. PICK t : t = Buffer(0, Largest(k))
  OBVIOUS
<1>2. leafFits(t, f, S) /\ t.max \in Nat
  <2>1. leafFits(t, f, S) /\ t.max = Largest(k) /\ Largest(k) \in Nat
    BY <1>1, BufferFits
  <2> QED
    BY <2>1
<1>3. propertyFits(t, f, S) /\ ~ LeftOut(t, f)
  BY <1>2, LeafIsProperty
<1>4. ~ Whole(t)
  BY <1>2, NoNumbers, Zenon DEF Whole
<1> QED
  BY <1>1, <1>3, <1>4, Zenon DEF Closed

\* So does the version.
LEMMA VersionClosed ==
    ASSUME NEW S
    PROVE  Closed(ProtocolVersion, DTLSVersion, S)
<1>1. PICK a, b, x, y : a = Number(1) /\ b = Number(1) /\ x = Base - 2 /\ y = Base - 3
  OBVIOUS
<1>2. x \in Nat /\ y \in Nat /\ x < Power[1] /\ y < Power[1] /\ x < Power[4] /\ y < Power[4]
  <2>1. PICK p1, p2, p3, p4 : p1 = Power[1] /\ p2 = Power[2] /\ p3 = Power[3] /\ p4 = Power[4]
    OBVIOUS
  <2>2. p1 = Base /\ p1 < p2 /\ p2 < p3 /\ p3 < p4 /\ p2 \in Nat /\ p3 \in Nat /\ p4 \in Nat
    BY <2>1, PowersGrow
  <2>3. Base \in Nat /\ Base > 23
    BY BaseAssumption, NumberAssumption
  <2> QED
    BY <1>1, <2>1, <2>2, <2>3
<1>3. leafFits(a, x, S) /\ leafFits(b, y, S)
  <2>1. 1 \in {1, 2, 3, 6}
    OBVIOUS
  <2> QED
    BY <1>1, <1>2, <2>1, NumberFits
<1>4. PICK t, v, ps : t = ProtocolVersion /\ v = DTLSVersion /\ ps = <<a, b>>
  OBVIOUS
<1>5. t.type = "struct" /\ t.props = ps
  BY <1>1, <1>4 DEF ProtocolVersion, Struct
<1>6. v = <<x, y>>
  BY <1>1, <1>4 DEF DTLSVersion
<1>7. /\ Listing(ps) /\ Len(ps) = 2 /\ DOMAIN ps = 1 .. 2 /\ ps[1] = a /\ ps[2] = b
      /\ Listing(v) /\ Len(v) = 2 /\ v[1] = x /\ v[2] = y
  BY <1>4, <1>6, ListingTwo
<1>8. \A i \in DOMAIN ps : leafFits(ps[i], v[i], S)
  <2> TAKE i \in DOMAIN ps
  <2>1. i = 1 \/ i = 2
    BY <1>7
  <2> QED
    BY <1>3, <1>7, <2>1
<1>9. itemFits(t, v, S)
  BY <1>5, <1>7, <1>8, Zenon DEF itemFits
<1>10. t.type # "vector" /\ t.type # "buffer"
  BY <1>5
<1> QED
  BY <1>4, <1>9, <1>10, Zenon DEF Closed, propertyFits, Whole, LeftOut

Five(t, v, S) == fits(t, v, S) /\ Exact(t, v) /\ Listing(v) /\ Len(v) = 5

\* Five such fields make a structure that is read back whatever follows.
LEMMA FiveFit ==
    ASSUME NEW S, NEW a, NEW b, NEW c, NEW d, NEW e, NEW p, NEW q, NEW r, NEW s, NEW u,
           Closed(a, p, S), Closed(b, q, S), Closed(c, r, S), Closed(d, s, S), Closed(e, u, S),
           NEW t, t.props = <<a, b, c, d, e>>, NEW v, v = <<p, q, r, s, u>>
    PROVE  Five(t, v, S)
<1>1. PICK ps : ps = t.props /\ ps = <<a, b, c, d, e>>
  OBVIOUS
<1>2. /\ Listing(ps) /\ Len(ps) = 5 /\ DOMAIN ps = 1 .. 5
      /\ ps[1] = a /\ ps[2] = b /\ ps[3] = c /\ ps[4] = d /\ ps[5] = e
  BY <1>1, ListingFive
<1>3. /\ Listing(v) /\ Len(v) = 5
      /\ v[1] = p /\ v[2] = q /\ v[3] = r /\ v[4] = s /\ v[5] = u
  BY ListingFive
<1>4. \A i \in DOMAIN ps : Closed(ps[i], v[i], S)
  <2> TAKE i \in DOMAIN ps
  <2>1. i = 1 \/ i = 2 \/ i = 3 \/ i = 4 \/ i = 5
    BY <1>2
  <2> QED
    BY <1>2, <1>3, <2>1, Zenon
<1>5. fits(t, v, S)
  BY <1>1, <1>2, <1>3, <1>4, Zenon DEF fits, Closed
<1>6. Exact(t, v)
  BY <1>1, <1>4, Zenon DEF Exact, Closed
<1> QED
  BY <1>3, <1>5, <1>6 DEF Five

\* The fields of a record fit.
LEMMA RecordFits ==
    ASSUME NEW S, NEW type \in 0 .. Base - 1, NEW n \in 0 .. NumberLimit - 1,
           NEW f \in Seq(S), Len(f) <= Largest(2),
           NEW v, v = <<type, DTLSVersion, Epoch, n, f>>
    PROVE  Five(DTLSCiphertext, v, S)
<1>1. PICK a, b, c, d, e : /\ a = ContentType /\ b = ProtocolVersion /\ c = Number(2)
                           /\ d = Number(6) /\ e = Buffer(0, Largest(2))
  OBVIOUS
<1>2. PICK p1, p2, p3, p4, p6 :
          p1 = Power[1] /\ p2 = Power[2] /\ p3 = Power[3] /\ p4 = Power[4] /\ p6 = Power[6]
  OBVIOUS
<1>3. /\ p1 = Base /\ p1 < p2 /\ p2 < p3 /\ p3 < p4 /\ p4 < p6 /\ p2 > 128
      /\ p2 \in Nat /\ p3 \in Nat /\ p4 \in Nat /\ p6 \in Nat /\ NumberLimit = p4
  BY <1>2, PowersGrow
<1>4. Base \in Nat
  BY BaseAssumption
<1>5. type \in Nat /\ type < Power[1] /\ type < Power[4]
  <2>1. type \in Nat /\ type < p1 /\ type < p4
    BY <1>3, <1>4
  <2> QED
    BY <1>2, <2>1, Zenon
<1>6. n \in Nat /\ n < Power[6] /\ n < Power[4]
  <2>1. n \in Nat /\ n < p6 /\ n < p4
    BY <1>3
  <2> QED
    BY <1>2, <2>1, Zenon
<1>7. Epoch \in Nat /\ Epoch < Power[2] /\ Epoch < Power[4]
  <2>1. Epoch \in Nat /\ Epoch < p2 /\ Epoch < p4
    BY <1>3 DEF Epoch
  <2> QED
    BY <1>2, <2>1, Zenon
<1>8. Closed(a, type, S)
  <2>1. a = Number(1) /\ 1 \in {1, 2, 3, 6}
    BY <1>1 DEF ContentType
  <2> QED
    BY <1>5, <2>1, NumberClosed
<1>9. Closed(b, DTLSVersion, S)
  BY <1>1, VersionClosed
<1>10. Closed(c, Epoch, S)
  <2>1. 2 \in {1, 2, 3, 6}
    OBVIOUS
  <2> QED
    BY <1>1, <1>7, <2>1, NumberClosed
<1>11. Closed(d, n, S)
  <2>1. 6 \in {1, 2, 3, 6}
    OBVIOUS
  <2> QED
    BY <1>1, <1>6, <2>1, NumberClosed
<1>12. Closed(e, f, S)
  <2>1. 2 \in {2, 3}
    OBVIOUS
  <2> QED
    BY <1>1, <2>1, BufferClosed
<1>13. DTLSCiphertext.props = <<a, b, c, d, e>>
  BY <1>1 DEF DTLSCiphertext, Struct
<1>14. PICK q, t, E : q = DTLSVersion /\ t = DTLSCiphertext /\ E = Epoch
  OBVIOUS
<1>15. v = <<type, q, E, n, f>>
  BY <1>14
<1>16. Closed(b, q, S) /\ Closed(c, E, S) /\ t.props = <<a, b, c, d, e>>
  BY <1>9, <1>10, <1>13, <1>14, Zenon
<1>17. Five(t, v, S)
  BY <1>8, <1>11, <1>12, <1>15, <1>16, FiveFit
<1> QED
  BY <1>14, <1>17, Zenon

\* Of a number only what fits an integer is written.
LEMMA NumberWraps ==
    ASSUME NEW w \in Nat, NEW k
    PROVE  numberToBuffer(w, k) = numberToBuffer(w % NumberLimit, k)
           /\ w % NumberLimit \in 0 .. NumberLimit - 1
<1>1. PICK l : l = Power[INT_BYTES] /\ l = NumberLimit /\ l \in Nat \ {0}
  <2>1. Power[4] \in Nat /\ Power[4] > 128 /\ NumberLimit = Power[4] /\ INT_BYTES = 4
    BY PowersGrow
  <2> QED
    BY <2>1
<1>2. PICK m : m = w % l
  OBVIOUS
<1>3. m \in 0 .. l - 1
  BY <1>1, <1>2, Division
<1>4. m % l = m
  BY <1>1, <1>3
<1>5. numberToBuffer(w, k) = numberToBuffer(m, k)
  BY <1>1, <1>2, <1>4, Zenon DEF numberToBuffer
<1> QED
  BY <1>1, <1>2, <1>3, <1>5, Zenon

\* The fields of a record as they are sent.
Fields(p, f) == <<p.type, DTLSVersion, Epoch, p.sequence_number % NumberLimit, f>>

\* A record on the wire is its fields, serialised.
LEMMA RecordSerialized ==
    ASSUME NEW p, p.version = DTLSVersion, p.epoch = Epoch, p.sequence_number \in Nat, NEW f
    PROVE  Record(p, f) = serialize(DTLSCiphertext, Fields(p, f))
<1>1. PICK t, w, m, x, y : /\ t = DTLSCiphertext
                           /\ w = p.sequence_number /\ m = w % NumberLimit
                           /\ x = <<p.type, p.version, p.epoch, w, f>> /\ y = Fields(p, f)
  OBVIOUS
<1>2. /\ DOMAIN t.props = 1 .. 5 /\ t.props[4] = Number(6)
  <2>1. t.props = <<ContentType, ProtocolVersion, Number(2), Number(6), Buffer(0, Largest(2))>>
    BY <1>1 DEF DTLSCiphertext, Struct
  <2> QED
    BY <2>1
<1>3. x[1] = y[1] /\ x[2] = y[2] /\ x[3] = y[3] /\ x[4] = w /\ y[4] = m /\ x[5] = y[5]
  BY <1>1 DEF Fields
<1>4. \A n : serializeProperty(Number(6), n) = numberToBuffer(n, 6)
  <2>1. Number(6).type = "number" /\ Number(6).bytes = 6
    BY DEF Number
  <2>2. Number(6).type # "vector" /\ Number(6).type # "struct"
    BY <2>1
  <2> QED
    BY <2>1, <2>2, Zenon DEF serializeProperty, serializeItem, serializeLeaf
<1>5. numberToBuffer(w, 6) = numberToBuffer(m, 6)
  BY <1>1, NumberWraps
<1>6. \A i \in DOMAIN t.props :
          serializeProperty(t.props[i], x[i]) = serializeProperty(t.props[i], y[i])
  <2> TAKE i \in DOMAIN t.props
  <2>1. i = 1 \/ i = 2 \/ i = 3 \/ i = 4 \/ i = 5
    BY <1>2
  <2> QED
    BY <1>2, <1>3, <1>4, <1>5, <2>1, Zenon
<1>7. [i \in DOMAIN t.props |-> serializeProperty(t.props[i], x[i])]
        = [i \in DOMAIN t.props |-> serializeProperty(t.props[i], y[i])]
  BY <1>6, Zenon
<1>8. serialize(t, x) = serialize(t, y)
  BY <1>7, Zenon DEF serialize
<1>9. Record(p, f) = serialize(t, x)
  BY <1>1, Zenon DEF Record
<1> QED
  BY <1>1, <1>8, <1>9, Zenon

\* A packet that is written, with what a cipher made of its content.
Sendable(p, f, S) ==
    /\ p.type \in 0 .. Base - 1 /\ p.version = DTLSVersion /\ p.epoch = Epoch
    /\ p.sequence_number \in Nat
    /\ f \in Seq(S) /\ Len(f) <= Largest(2)

\* A record is at least a byte long.
LEMMA RecordBytes ==
    ASSUME NEW S, Digits \subseteq S, NEW p, NEW f, Sendable(p, f, S), NEW r, r = Record(p, f)
    PROVE  r \in Seq(S) /\ Len(r) \in Nat \ {0}
<1>1. PICK t, v : t = DTLSCiphertext /\ v = Fields(p, f)
  OBVIOUS
<1>2. Five(t, v, S)
  <2>1. PICK m : m = p.sequence_number % NumberLimit
    OBVIOUS
  <2>2. m \in 0 .. NumberLimit - 1
    BY <2>1, NumberWraps DEF Sendable
  <2>3. v = <<p.type, DTLSVersion, Epoch, m, f>>
    BY <1>1, <2>1 DEF Fields
  <2>4. p.type \in 0 .. Base - 1 /\ f \in Seq(S) /\ Len(f) <= Largest(2)
    BY Zenon DEF Sendable
  <2> QED
    BY <1>1, <2>2, <2>3, <2>4, RecordFits
<1>3. r = serialize(t, v)
  BY <1>1, RecordSerialized, Zenon DEF Sendable
<1>4. fits(t, v, S) /\ Len(v) = 5
  BY <1>2 DEF Five
<1>5. PICK ss \in Seq(Seq(S)) :
          /\ Len(ss) = 5 /\ serialize(t, v) = FlattenSeq(ss)
          /\ \A i \in 1 .. 5 : ss[i] = serializeProperty(t.props[i], v[i])
  <2>1. 5 \in Nat
    OBVIOUS
  <2>2. PICK ss \in Seq(Seq(S)) : Serialized(t, v, ss, 5)
    BY <1>4, <2>1, StructureSeq, Zenon
  <2> QED
    BY <2>2, Zenon DEF Serialized
<1>6. r \in Seq(S)
  BY <1>3, <1>5, FlattenJoins
<1>7. PICK e : Joined(r, e, ss)
  BY <1>3, <1>5, FlattenJoins
<1>8. e[1] <= e[5] /\ Len(r) = e[5] /\ e[1] = e[0] + Len(ss[1]) /\ e[0] = 0
  <2>1. Laid(e, ss) /\ Len(r) = e[5]
    BY <1>5, <1>7 DEF Joined
  <2>2. 1 \in 0 .. Len(ss) /\ 5 \in 0 .. Len(ss) /\ 1 <= 5 /\ 1 \in 1 .. Len(ss)
    BY <1>5
  <2>3. e[1] <= e[5]
    BY <2>1, <2>2, EndsGrow
  <2>4. e[1] = e[1 - 1] + Len(ss[1]) /\ e[0] = 0
    BY <2>1, <2>2, Zenon DEF Laid
  <2> QED
    BY <2>1, <2>3, <2>4
<1>9. Len(ss[1]) = 1
  <2>1. t.props[1] = Number(1)
    BY <1>1 DEF DTLSCiphertext, Struct, ContentType
  <2>2. Number(1).type = "number" /\ Number(1).bytes = 1
    BY DEF Number
  <2>3. Number(1).type # "vector" /\ Number(1).type # "struct"
    BY <2>2
  <2>4. 1 \in 1 .. 5
    OBVIOUS
  <2>5. ss[1] = numberToBuffer(v[1], 1)
    BY <1>5, <2>1, <2>2, <2>3, <2>4, Zenon
    DEF serializeProperty, serializeItem, serializeLeaf
  <2>6. v[1] \in Nat
    <3>1. v[1] = p.type
      BY <1>1 DEF Fields
    <3> QED
      BY <3>1, BaseAssumption DEF Sendable
  <2> QED
    BY <2>5, <2>6, NumberDigits
<1>10. Len(r) \in Nat
  BY <1>6
<1>11. Len(r) # 0
  BY <1>8, <1>9, <1>10
<1> QED
  BY <1>6, <1>10, <1>11

\* Wherever a record stands in a datagram, it is parsed to what was written.
LEMMA RecordRead ==
    ASSUME NEW S, Digits \subseteq S, NEW p, NEW f, Sendable(p, f, S), NEW r, r = Record(p, f),
           NEW buf, NEW o \in Nat, At(buf, o, r), NEW x, x = from(DTLSCiphertext, buf, o)
    PROVE  x.value = Fields(p, f) /\ x.end = o + Len(r)
<1>1. PICK t, v : t = DTLSCiphertext /\ v = Fields(p, f)
  OBVIOUS
<1>2. Five(t, v, S)
  <2>1. PICK m : m = p.sequence_number % NumberLimit
    OBVIOUS
  <2>2. m \in 0 .. NumberLimit - 1
    BY <2>1, NumberWraps DEF Sendable
  <2>3. v = <<p.type, DTLSVersion, Epoch, m, f>>
    BY <1>1, <2>1 DEF Fields
  <2>4. p.type \in 0 .. Base - 1 /\ f \in Seq(S) /\ Len(f) <= Largest(2)
    BY Zenon DEF Sendable
  <2> QED
    BY <1>1, <2>2, <2>3, <2>4, RecordFits
<1>3. r = serialize(t, v)
  BY <1>1, RecordSerialized, Zenon DEF Sendable
<1>4. fits(t, v, S) /\ Len(v) = 5 /\ Exact(t, v)
  BY <1>2 DEF Five
<1>5. Closes(t, v, buf, o)
  <2>1. 5 \in DOMAIN t.props
    <3>1. t.props = <<ContentType, ProtocolVersion, Number(2), Number(6), Buffer(0, Largest(2))>>
      BY <1>1 DEF DTLSCiphertext, Struct
    <3> QED
      BY <3>1
  <2>2. ~ Whole(t.props[5]) /\ ~ LeftOut(t.props[5], v[5])
    BY <1>4, <2>1, Zenon DEF Exact
  <2> QED
    BY <1>4, <2>2, Zenon DEF Closes
<1>6. At(buf, o, serialize(t, v))
  BY <1>3
<1>7. x = from(t, buf, o)
  BY <1>1
<1>8. from(t, buf, o).value = v /\ (Exact(t, v) => from(t, buf, o).end = o + Len(serialize(t, v)))
  BY <1>4, <1>5, <1>6, StructuresReadBack
<1> QED
  BY <1>1, <1>3, <1>4, <1>7, <1>8, Zenon

-----------------------------------------------------------------------------
(* What is parsed of any bytes.                                             *)

\* What is read next comes behind what was read before.
Extended(before, x, y) ==
    /\ before.end # Thrown /\ x.end # Thrown
    /\ y.value = Append(before.value, x.value) /\ y.end = x.end

\* If the reading of two things succeeds, so have both readings.
LEMMA ThenBack ==
    ASSUME NEW before, NEW rd, NEW y, y = Then(before, rd), y.end # Thrown,
           NEW x, x = rd[before.end]
    PROVE  Extended(before, x, y)
<1>1. Fails.end = Thrown
  BY DEF Fails
<1>2. before.end # Thrown
  <2>1. CASE before.end = Thrown
    <3>1. y = Fails
      BY <2>1, Zenon DEF Then
    <3> QED
      BY <1>1, <3>1
  <2> QED
    BY <2>1
<1>3. y = IF x.end = Thrown THEN Fails
          ELSE [value |-> Append(before.value, x.value), end |-> x.end]
  BY <1>2, ThenNext
<1>4. x.end # Thrown
  BY <1>1, <1>3
<1>5. y = [value |-> Append(before.value, x.value), end |-> x.end]
  BY <1>3, <1>4
<1>6. y.value = Append(before.value, x.value) /\ y.end = x.end
  BY <1>5
<1> QED
  BY <1>2, <1>4, <1>6, Zenon DEF Extended

\* Two numbers of a byte each are read without an exception.
LEMMA VersionEnd ==
    ASSUME NEW buf, NEW o \in Nat, NEW x, x = itemFrom(ProtocolVersion, buf, o)
    PROVE  x.end = o + 2
<1>1. PICK rds : rds = [i \in DOMAIN ProtocolVersion.props |->
                           [p \in Nat |-> leafFrom(ProtocolVersion.props[i], buf, p)]]
  OBVIOUS
<1>2. ProtocolVersion.type = "struct" /\ ProtocolVersion.props = <<Number(1), Number(1)>>
  BY DEF ProtocolVersion, Struct
<1>3. /\ DOMAIN rds = 1 .. 2
      /\ \A p \in Nat : /\ rds[1][p] = leafFrom(Number(1), buf, p)
                        /\ rds[2][p] = leafFrom(Number(1), buf, p)
  BY <1>1, <1>2
<1>4. Len(rds) = 2
  <2>1. rds = [i \in 1 .. 2 |-> rds[i]]
    BY <1>1, <1>3
  <2>2. 2 \in Nat
    OBVIOUS
  <2> QED
    BY <1>3, <2>1, <2>2, Listed
<1>5. \A p \in Nat : leafFrom(Number(1), buf, p).end = p + 1
  <2>1. Number(1).type = "number" /\ Number(1).bytes = 1
    BY DEF Number
  <2> TAKE p \in Nat
  <2>2. leafFrom(Number(1), buf, p) = [value |-> bufferToNumber(buf, Number(1).bytes, p),
                                       end |-> p + Number(1).bytes]
    BY <2>1, Zenon DEF leafFrom
  <2> QED
    BY <2>1, <2>2
<1>6. x = propertiesFrom(rds, o)
  BY <1>1, <1>2, Zenon DEF itemFrom
<1>7. PICK f : Turns(f, rds, o) /\ propertiesFrom(rds, o) = f[Len(rds)]
  <2>1. Len(rds) \in Nat
    BY <1>4
  <2> QED
    BY <2>1, InTurn, Zenon
<1>8. f[0].end = o /\ f[1] = Then(f[0], rds[1]) /\ f[2] = Then(f[1], rds[2]) /\ x = f[2]
  <2>1. 1 \in 1 .. Len(rds) /\ 2 \in 1 .. Len(rds) /\ 1 - 1 = 0 /\ 2 - 1 = 1
    BY <1>4
  <2>2. f[0] = [value |-> <<>>, end |-> o] /\ f[1] = Then(f[1 - 1], rds[1])
        /\ f[2] = Then(f[2 - 1], rds[2])
    BY <1>7, <2>1, Zenon DEF Turns
  <2>3. x = f[2]
    BY <1>4, <1>6, <1>7
  <2> QED
    BY <2>1, <2>2, <2>3
<1>9. \A before, i : before.end \in Nat /\ i \in {1, 2} => Then(before, rds[i]).end = before.end + 1
  <2> SUFFICES ASSUME NEW before, NEW i \in {1, 2}, before.end \in Nat
               PROVE  Then(before, rds[i]).end = before.end + 1
    OBVIOUS
  <2>1. PICK y : y = rds[i][before.end]
    OBVIOUS
  <2>2. y.end = before.end + 1
    BY <1>3, <1>5, <2>1
  <2>3. before.end # Thrown /\ y.end # Thrown
    BY <2>2, NoNumbers
  <2>4. Then(before, rds[i]) = IF y.end = Thrown THEN Fails
                               ELSE [value |-> Append(before.value, y.value), end |-> y.end]
    BY <2>1, <2>3, ThenNext
  <2> QED
    BY <2>2, <2>3, <2>4
<1>10. f[1].end = o + 1
  BY <1>8, <1>9
<1>11. f[2].end = f[1].end + 1
  <2>1. f[1].end \in Nat
    BY <1>10
  <2> QED
    BY <1>8, <1>9, <2>1
<1>12. (o + 1) + 1 = o + 2
  OBVIOUS
<1> QED
  BY <1>8, <1>10, <1>11, <1>12, Zenon

\* What five readers one after the other find.
FiveParts(rds, o, x, y1, y2, y3, y4, y5) ==
    /\ y1 = rds[1][o] /\ y2 = rds[2][y1.end] /\ y3 = rds[3][y2.end]
    /\ y4 = rds[4][y3.end] /\ y5 = rds[5][y4.end]
    /\ y5.end # Thrown /\ x.end = y5.end
    /\ x.value[1] = y1.value /\ x.value[2] = y2.value /\ x.value[3] = y3.value
    /\ x.value[4] = y4.value /\ x.value[5] = y5.value

\* If a structure of five properties is read, each of them is.
LEMMA FiveRead ==
    ASSUME NEW rds, Len(rds) = 5, NEW o, NEW x, x = propertiesFrom(rds, o), x.end # Thrown
    PROVE  \E y1, y2, y3, y4, y5 : FiveParts(rds, o, x, y1, y2, y3, y4, y5)
<1>1. PICK f : Turns(f, rds, o) /\ propertiesFrom(rds, o) = f[Len(rds)]
  <2>1. Len(rds) \in Nat
    OBVIOUS
  <2> QED
    BY <2>1, InTurn, Zenon
<1>2. /\ f[0] = [value |-> <<>>, end |-> o] /\ x = f[5]
      /\ f[1] = Then(f[0], rds[1]) /\ f[2] = Then(f[1], rds[2]) /\ f[3] = Then(f[2], rds[3])
      /\ f[4] = Then(f[3], rds[4]) /\ f[5] = Then(f[4], rds[5])
  <2>1. \A n \in 1 .. 5 : f[n] = Then(f[n - 1], rds[n])
    BY <1>1, Zenon DEF Turns
  <2>2. /\ f[1] = Then(f[1 - 1], rds[1]) /\ f[2] = Then(f[2 - 1], rds[2])
        /\ f[3] = Then(f[3 - 1], rds[3]) /\ f[4] = Then(f[4 - 1], rds[4])
        /\ f[5] = Then(f[5 - 1], rds[5])
    BY <2>1
  <2>3. f[0] = [value |-> <<>>, end |-> o]
    BY <1>1, Zenon DEF Turns
  <2> QED
    BY <1>1, <2>2, <2>3
<1>3. PICK y1, y2, y3, y4, y5 :
          /\ y1 = rds[1][f[0].end] /\ y2 = rds[2][f[1].end] /\ y3 = rds[3][f[2].end]
          /\ y4 = rds[4][f[3].end] /\ y5 = rds[5][f[4].end]
  OBVIOUS
<1>4. Extended(f[4], y5, f[5])
  BY <1>2, <1>3, ThenBack, Zenon
<1>5. Extended(f[3], y4, f[4])
  <2>1. f[4].end # Thrown
    BY <1>4, Zenon DEF Extended
  <2> QED
    BY <1>2, <1>3, <2>1, ThenBack, Zenon
<1>6. Extended(f[2], y3, f[3])
  <2>1. f[3].end # Thrown
    BY <1>5, Zenon DEF Extended
  <2> QED
    BY <1>2, <1>3, <2>1, ThenBack, Zenon
<1>7. Extended(f[1], y2, f[2])
  <2>1. f[2].end # Thrown
    BY <1>6, Zenon DEF Extended
  <2> QED
    BY <1>2, <1>3, <2>1, ThenBack, Zenon
<1>8. Extended(f[0], y1, f[1])
  <2>1. f[1].end # Thrown
    BY <1>7, Zenon DEF Extended
  <2> QED
    BY <1>2, <1>3, <2>1, ThenBack, Zenon
<1>9. /\ f[0].end = o /\ f[1].end = y1.end /\ f[2].end = y2.end /\ f[3].end = y3.end
      /\ f[4].end = y4.end /\ x.end = y5.end /\ y5.end # Thrown
  <2>1. f[0].end = o
    BY <1>2
  <2> QED
    BY <1>2, <1>4, <1>5, <1>6, <1>7, <1>8, <2>1, Zenon DEF Extended
<1>10. PICK v1, v2, v3, v4, v5 : /\ v1 = y1.value /\ v2 = y2.value /\ v3 = y3.value
                                 /\ v4 = y4.value /\ v5 = y5.value
  OBVIOUS
<1>11. PICK s0, s1, s2, s3, s4, s5 :
           /\ s0 = <<>> /\ s1 = Append(s0, v1) /\ s2 = Append(s1, v2) /\ s3 = Append(s2, v3)
           /\ s4 = Append(s3, v4) /\ s5 = Append(s4, v5)
  OBVIOUS
<1>12. x.value = s5
  <2>1. f[0].value = s0
    BY <1>2, <1>11
  <2> QED
    BY <1>2, <1>4, <1>5, <1>6, <1>7, <1>8, <1>10, <1>11, <2>1, Zenon DEF Extended
<1>13. PICK T : T = {v1, v2, v3, v4, v5}
  OBVIOUS
<1>14. v1 \in T /\ v2 \in T /\ v3 \in T /\ v4 \in T /\ v5 \in T
  BY <1>13
<1>15. s0 \in Seq(T) /\ Len(s0) = 0
  BY <1>11
<1>16. s1 \in Seq(T) /\ Len(s1) = 1 /\ s1[1] = v1
  BY <1>11, <1>14, <1>15
<1>17. s2 \in Seq(T) /\ Len(s2) = 2 /\ s2[1] = v1 /\ s2[2] = v2
  BY <1>11, <1>14, <1>16
<1>18. s3 \in Seq(T) /\ Len(s3) = 3 /\ s3[1] = v1 /\ s3[2] = v2 /\ s3[3] = v3
  BY <1>11, <1>14, <1>17
<1>19. s4 \in Seq(T) /\ Len(s4) = 4 /\ s4[1] = v1 /\ s4[2] = v2 /\ s4[3] = v3 /\ s4[4] = v4
  BY <1>11, <1>14, <1>18
<1>20. s5[1] = v1 /\ s5[2] = v2 /\ s5[3] = v3 /\ s5[4] = v4 /\ s5[5] = v5
  BY <1>11, <1>14, <1>19
<1>21. /\ x.value[1] = y1.value /\ x.value[2] = y2.value /\ x.value[3] = y3.value
       /\ x.value[4] = y4.value /\ x.value[5] = y5.value
  BY <1>10, <1>12, <1>20, Zenon
<1>22. /\ y1 = rds[1][o] /\ y2 = rds[2][y1.end] /\ y3 = rds[3][y2.end]
       /\ y4 = rds[4][y3.end] /\ y5 = rds[5][y4.end]
  BY <1>3, <1>9, Zenon
<1>23. FiveParts(rds, o, x, y1, y2, y3, y4, y5)
  BY <1>9, <1>21, <1>22, Zenon DEF FiveParts
<1> QED
  BY <1>23, Zenon

\* A number that is read is one, as long as its bytes are there.
LEMMA NumberIn ==
    ASSUME NEW buf, Listing(buf), \A i \in DOMAIN buf : IsByte(buf[i]),
           NEW k \in Nat, NEW o \in Nat, o + k <= Len(buf), NEW x, x = leafFrom(Number(k), buf, o)
    PROVE  x.value \in 0 .. Power[k] - 1 /\ x.end = o + k
<1>1. Number(k).type = "number" /\ Number(k).bytes = k
  BY DEF Number
<1>2. x = [value |-> bufferToNumber(buf, Number(k).bytes, o), end |-> o + Number(k).bytes]
  BY <1>1, Zenon DEF leafFrom
<1>3. x.value = bufferToNumber(buf, k, o) /\ x.end = o + k
  BY <1>1, <1>2
<1>4. Len(buf) \in Nat /\ DOMAIN buf = 1 .. Len(buf)
  BY ListingLength
<1>5. \A i \in 1 .. k : Value(buf[o + i]) \in 0 .. Base - 1
  <2> TAKE i \in 1 .. k
  <2>1. o + i \in 1 .. Len(buf)
    BY <1>4
  <2> QED
    BY <1>4, <2>1 DEF IsByte
<1>6. bufferToNumber(buf, k, o) \in 0 .. Power[k] - 1
  BY <1>4, <1>5, NumberBelow
<1> QED
  BY <1>3, <1>6

\* A buffer that is read has bytes of the one it is read from, and starts in it.
LEMMA BufferIn ==
    ASSUME NEW buf, Listing(buf), \A i \in DOMAIN buf : IsByte(buf[i]),
           NEW k \in {2, 3}, NEW o \in Nat,
           NEW x, x = leafFrom(Buffer(0, Largest(k)), buf, o), x.end # Thrown
    PROVE  /\ o <= Len(buf) /\ x.end \in Nat /\ Listing(x.value)
           /\ \A i \in DOMAIN x.value : x.value[i] = Unwritten \/ x.value[i] \in Parts(buf)
<1>1. PICK t : t = Buffer(0, Largest(k))
  OBVIOUS
<1>2. t.type = "buffer" /\ t.max = Largest(k) /\ isVariableLength(t)
      /\ Largest(k) \in Nat /\ Largest(k) < Power[INT_BYTES]
  <2>1. <<>> \in Seq(Digits) /\ Len(<<>>) <= Largest(k)
    <3>1. Largest(k) \in Nat
      <4>1. Power[2] \in Nat /\ Power[3] \in Nat /\ Power[2] > 128 /\ Power[2] < Power[3]
        BY PowersGrow
      <4> QED
        BY <4>1 DEF Largest
    <3> QED
      BY <3>1
  <2>2. INT_BYTES = 4
    BY DEF INT_BYTES
  <2> QED
    BY <1>1, <2>1, <2>2, BufferFits
<1>3. PICK n : n = fitToWholeBytes(t.max)
  OBVIOUS
<1>4. n \in 1 .. INT_BYTES /\ n \in Nat
  <2>1. n \in 1 .. INT_BYTES
    BY <1>2, <1>3, WholeBytes
  <2> QED
    BY <2>1
<1>5. LengthBytes(t) = n /\ LengthAt(t, buf, o) = bufferToNumber(buf, n, o)
  BY <1>2, <1>3, Zenon DEF LengthBytes, LengthAt
<1>6. t.max # Infinity /\ t.type # "number"
  BY <1>2, NoNumbers
<1>7. PICK length, start : length = bufferToNumber(buf, n, o) /\ start = o + n
  OBVIOUS
<1>8. PICK content : content = [i \in 1 .. length |-> IF start + i <= Len(buf)
                                                      THEN buf[start + i] ELSE Unwritten]
  OBVIOUS
<1>9. x = IF length = NaN \/ start > Len(buf) THEN Fails
          ELSE [value |-> content, end |-> start + length]
  <2>1. x = bufferFrom(t, buf, o)
    BY <1>1, <1>6, Zenon DEF leafFrom
  <2> QED
    BY <1>5, <1>6, <1>7, <1>8, <2>1, Zenon DEF bufferFrom
<1>10. ~ (start > Len(buf)) /\ x = [value |-> content, end |-> start + length]
  BY <1>9 DEF Fails
<1>11. Len(buf) \in Nat /\ DOMAIN buf = 1 .. Len(buf)
  BY ListingLength
<1>12. start \in Nat /\ o + n <= Len(buf)
  BY <1>4, <1>7, <1>10, <1>11
<1>13. length \in Nat
  <2>1. \A i \in 1 .. n : Value(buf[o + i]) \in 0 .. Base - 1
    <3> TAKE i \in 1 .. n
    <3>1. o + i \in 1 .. Len(buf)
      BY <1>4, <1>11, <1>12
    <3> QED
      BY <1>11, <3>1 DEF IsByte
  <2>2. bufferToNumber(buf, n, o) \in 0 .. Power[n] - 1
    BY <1>4, <1>11, <1>12, <2>1, NumberBelow
  <2> QED
    BY <1>7, <2>2
<1>14. Listing(content) /\ DOMAIN content = 1 .. length
  <2>1. DOMAIN content = 1 .. length /\ content = [i \in 1 .. length |-> content[i]]
    BY <1>8
  <2>2. Len(content) = length
    BY <1>13, <2>1, Listed
  <2> QED
    BY <1>13, <2>1, <2>2 DEF Listing
<1>15. \A i \in 1 .. length : content[i] = Unwritten \/ content[i] \in Parts(buf)
  <2> TAKE i \in 1 .. length
  <2>1. CASE start + i <= Len(buf)
    <3>1. start + i \in DOMAIN buf /\ content[i] = buf[start + i]
      BY <1>8, <1>11, <1>12, <1>13, <2>1
    <3> QED
      BY <3>1 DEF Parts
  <2>2. CASE ~ (start + i <= Len(buf))
    BY <1>8, <2>2
  <2> QED
    BY <2>1, <2>2
<1>16. x.value = content /\ x.end = start + length
  BY <1>10
<1>17. o <= Len(buf) /\ start + length \in Nat
  BY <1>4, <1>11, <1>12, <1>13
<1> QED
  BY <1>14, <1>15, <1>16, <1>17, Zenon

\* Whatever a datagram is made of: a record that is parsed has a complete
\* header and a content of bytes that arrived, or were never written.
Parsed(x, buf) ==
    /\ x.end \in Nat
    /\ x.value[1] \in 0 .. Base - 1 /\ x.value[3] \in 0 .. Largest(2) /\ x.value[4] \in Nat
    /\ Listing(x.value[5])
    /\ \A i \in DOMAIN x.value[5] :
          x.value[5][i] = Unwritten \/ x.value[5][i] \in Parts(buf)

\* Whatever the bytes of a datagram, a record parsed of them has numbers in its
\* header and a content of bytes of the datagram, or of none at all.
LEMMA AnyRecord ==
    ASSUME NEW buf, Listing(buf), \A i \in DOMAIN buf : IsByte(buf[i]),
           NEW o \in Nat, NEW x, x = from(DTLSCiphertext, buf, o), x.end # Thrown
    PROVE  Parsed(x, buf)
<1>1. PICK t, a, b, c, d, e :
          /\ t = DTLSCiphertext /\ a = Number(1) /\ b = ProtocolVersion /\ c = Number(2)
          /\ d = Number(6) /\ e = Buffer(0, Largest(2))
  OBVIOUS
<1>2. t.props = <<a, b, c, d, e>>
  BY <1>1 DEF DTLSCiphertext, Struct, ContentType
<1>3. DOMAIN t.props = 1 .. 5 /\ t.props[1] = a /\ t.props[2] = b /\ t.props[3] = c
      /\ t.props[4] = d /\ t.props[5] = e
  BY <1>2
<1>4. PICK rds : rds = [i \in DOMAIN t.props |-> [p \in Nat |-> propertyFrom(t.props[i], buf, p)]]
  OBVIOUS
<1>5. x = propertiesFrom(rds, o)
  BY <1>1, <1>4, Zenon DEF from
<1>6. Len(rds) = 5
  <2>1. DOMAIN rds = 1 .. 5 /\ rds = [i \in 1 .. 5 |-> rds[i]]
    BY <1>3, <1>4
  <2>2. 5 \in Nat
    OBVIOUS
  <2> QED
    BY <2>1, <2>2, Listed
<1>0. PICK y1, y2, y3, y4, y5 : FiveParts(rds, o, x, y1, y2, y3, y4, y5)
  BY <1>5, <1>6, FiveRead, Zenon
<1>7. /\ y1 = rds[1][o] /\ y2 = rds[2][y1.end] /\ y3 = rds[3][y2.end]
      /\ y4 = rds[4][y3.end] /\ y5 = rds[5][y4.end]
      /\ y5.end # Thrown /\ x.end = y5.end
      /\ x.value[1] = y1.value /\ x.value[2] = y2.value /\ x.value[3] = y3.value
      /\ x.value[4] = y4.value /\ x.value[5] = y5.value
  BY <1>0, Zenon DEF FiveParts
<1>8. \A p \in Nat : /\ rds[1][p] = propertyFrom(a, buf, p)
                     /\ rds[2][p] = propertyFrom(b, buf, p)
                     /\ rds[3][p] = propertyFrom(c, buf, p)
                     /\ rds[4][p] = propertyFrom(d, buf, p)
                     /\ rds[5][p] = propertyFrom(e, buf, p)
  <2>1. \A i \in 1 .. 5 : \A p \in Nat : rds[i][p] = propertyFrom(t.props[i], buf, p)
    BY <1>3, <1>4
  <2>2. 1 \in 1 .. 5 /\ 2 \in 1 .. 5 /\ 3 \in 1 .. 5 /\ 4 \in 1 .. 5 /\ 5 \in 1 .. 5
    OBVIOUS
  <2> QED
    BY <1>3, <2>1, <2>2, Zenon
<1>9. \A p : \A k \in Nat : propertyFrom(Number(k), buf, p) = leafFrom(Number(k), buf, p)
  <2>1. \A k \in Nat : Number(k).type # "vector" /\ Number(k).type # "struct"
    BY DEF Number
  <2> QED
    BY <2>1, Zenon DEF propertyFrom, itemFrom
<1>10. \A p : \A k \in Nat : leafFrom(Number(k), buf, p).end = p + k
  <2> TAKE p
  <2> TAKE k \in Nat
  <2>1. Number(k).type = "number" /\ Number(k).bytes = k
    BY DEF Number
  <2>2. leafFrom(Number(k), buf, p) = [value |-> bufferToNumber(buf, Number(k).bytes, p),
                                       end |-> p + Number(k).bytes]
    BY <2>1, Zenon DEF leafFrom
  <2> QED
    BY <2>1, <2>2
<1>11. PICK o1, o2, o3, o4 : /\ o1 = o + 1 /\ o2 = o1 + 2 /\ o3 = o2 + 2 /\ o4 = o3 + 6
                             /\ o1 \in Nat /\ o2 \in Nat /\ o3 \in Nat /\ o4 \in Nat
  OBVIOUS
<1>12. y1 = leafFrom(a, buf, o) /\ y1.end = o1
  <2>1. 1 \in 1 .. 5 /\ 1 \in Nat
    OBVIOUS
  <2>2. y1 = propertyFrom(a, buf, o)
    BY <1>7, <1>8, Zenon
  <2> QED
    <3>1. y1 = leafFrom(a, buf, o) /\ y1.end = o + 1
      BY <1>1, <1>9, <1>10, <2>1, <2>2, Zenon
    <3> QED
      BY <1>11, <3>1, Zenon
<1>13. y2.end = o2
  <2>1. y2 = propertyFrom(b, buf, o1)
    <3>1. y2 = rds[2][o1]
      BY <1>7, <1>12, Zenon
    <3>2. rds[2][o1] = propertyFrom(b, buf, o1)
      BY <1>8, <1>11, Zenon
    <3> QED
      BY <3>1, <3>2, Zenon
  <2>2. b.type = "struct"
    BY <1>1 DEF ProtocolVersion, Struct
  <2>3. b.type # "vector"
    BY <2>2
  <2>4. y2 = itemFrom(b, buf, o1)
    BY <2>1, <2>3, Zenon DEF propertyFrom
  <2> QED
    BY <1>1, <1>11, <2>4, VersionEnd
<1>14. y3 = leafFrom(c, buf, o2) /\ y3.end = o3
  <2>1. 3 \in 1 .. 5 /\ 2 \in Nat
    OBVIOUS
  <2>2. y3 = propertyFrom(c, buf, o2)
    <3>1. y3 = rds[3][o2]
      BY <1>7, <1>13, Zenon
    <3>2. rds[3][o2] = propertyFrom(c, buf, o2)
      BY <1>8, <1>11, Zenon
    <3> QED
      BY <3>1, <3>2, Zenon
  <2> QED
    <3>1. y3 = leafFrom(c, buf, o2) /\ y3.end = o2 + 2
      BY <1>1, <1>9, <1>10, <2>1, <2>2, Zenon
    <3> QED
      BY <1>11, <3>1, Zenon
<1>15. y4 = leafFrom(d, buf, o3) /\ y4.end = o4
  <2>1. 4 \in 1 .. 5 /\ 6 \in Nat
    OBVIOUS
  <2>2. y4 = propertyFrom(d, buf, o3)
    <3>1. y4 = rds[4][o3]
      BY <1>7, <1>14, Zenon
    <3>2. rds[4][o3] = propertyFrom(d, buf, o3)
      BY <1>8, <1>11, Zenon
    <3> QED
      BY <3>1, <3>2, Zenon
  <2> QED
    <3>1. y4 = leafFrom(d, buf, o3) /\ y4.end = o3 + 6
      BY <1>1, <1>9, <1>10, <2>1, <2>2, Zenon
    <3> QED
      BY <1>11, <3>1, Zenon
<1>16. y5 = leafFrom(e, buf, o4)
  <2>2. y5 = propertyFrom(e, buf, o4)
    <3>1. y5 = rds[5][o4]
      BY <1>7, <1>15, Zenon
    <3>2. rds[5][o4] = propertyFrom(e, buf, o4)
      BY <1>8, <1>11, Zenon
    <3> QED
      BY <3>1, <3>2, Zenon
  <2>3. e.type = "buffer"
    BY <1>1 DEF Buffer
  <2>4. e.type # "vector" /\ e.type # "struct"
    BY <2>3
  <2> QED
    BY <2>2, <2>4, Zenon DEF propertyFrom, itemFrom
<1>17. /\ o4 <= Len(buf) /\ y5.end \in Nat /\ Listing(y5.value)
       /\ \A i \in DOMAIN y5.value : y5.value[i] = Unwritten \/ y5.value[i] \in Parts(buf)
  <2>1. 2 \in {2, 3}
    OBVIOUS
  <2>2. y5 = leafFrom(Buffer(0, Largest(2)), buf, o4) /\ y5.end # Thrown /\ o4 \in Nat
    BY <1>1, <1>7, <1>11, <1>16, Zenon
  <2> QED
    BY <2>1, <2>2, BufferIn, Zenon
<1>18. Len(buf) \in Nat
  BY ListingLength
<1>19. y1.value \in 0 .. Power[1] - 1
  <2>1. 1 \in Nat /\ o + 1 <= Len(buf)
    BY <1>11, <1>17, <1>18
  <2> QED
    BY <1>1, <1>12, <2>1, NumberIn
<1>20. y3.value \in 0 .. Power[2] - 1
  <2>1. 2 \in Nat /\ o2 + 2 <= Len(buf)
    BY <1>11, <1>17, <1>18
  <2> QED
    BY <1>1, <1>11, <1>14, <2>1, NumberIn
<1>21. y4.value \in Nat
  <2>1. 6 \in Nat /\ o3 + 6 <= Len(buf)
    BY <1>11, <1>17, <1>18
  <2>2. y4.value \in 0 .. Power[6] - 1
    BY <1>1, <1>11, <1>15, <2>1, NumberIn
  <2> QED
    BY <2>2
<1>22. Power[1] = Base
  BY PowersGrow
<1>23. x.end = y5.end /\ x.value[1] = y1.value /\ x.value[3] = y3.value
       /\ x.value[4] = y4.value /\ x.value[5] = y5.value
  BY <1>7, Zenon
<1>24. y1.value \in 0 .. Base - 1 /\ y3.value \in 0 .. Largest(2)
  BY <1>19, <1>20, <1>22, Zenon DEF Largest
<1> QED
  BY <1>17, <1>21, <1>23, <1>24, Zenon DEF Parsed

-----------------------------------------------------------------------------
(* The data of a message.                                                   *)

\* The fields of a handshake message fit.
LEMMA FragmentFits ==
    ASSUME NEW type \in 0 .. Base - 1, NEW content \in Seq(Digits),
           Len(content) <= Largest(2),
           NEW v, v = toFragment(type, message_seq, content)
    PROVE  Five(FragmentedHandshake, v, Digits)
<1>1. PICK S, a, b, c, d, e, l, q :
          /\ S = Digits /\ a = HandshakeType /\ b = Number(3) /\ c = Number(2)
          /\ d = Number(3) /\ e = Buffer(0, Largest(3)) /\ l = Len(content) /\ q = message_seq
  OBVIOUS
<1>2. PICK p1, p2, p3, p4 : p1 = Power[1] /\ p2 = Power[2] /\ p3 = Power[3] /\ p4 = Power[4]
  OBVIOUS
<1>3. /\ p1 = Base /\ p1 < p2 /\ p2 < p3 /\ p3 < p4 /\ p2 > 128
      /\ p2 \in Nat /\ p3 \in Nat /\ p4 \in Nat /\ Base \in Nat
  BY <1>2, PowersGrow, BaseAssumption
<1>4. l \in Nat /\ l < p3 /\ l < p4 /\ l <= p3 - 1
  <2>1. l \in Nat /\ l <= p2 - 1
    BY <1>1, <1>2 DEF Largest
  <2> QED
    BY <1>3, <2>1
<1>5. Closed(a, type, S)
  <2>1. type \in Nat /\ type < p1 /\ type < p4
    BY <1>3
  <2>2. type < Power[1] /\ type < Power[4]
    BY <1>2, <2>1, Zenon
  <2>3. a = Number(1) /\ 1 \in {1, 2, 3, 6}
    BY <1>1 DEF HandshakeType
  <2> QED
    BY <2>1, <2>2, <2>3, NumberClosed
<1>6. Closed(b, l, S)
  <2>1. l < Power[3] /\ l < Power[4]
    BY <1>2, <1>4, Zenon
  <2>2. 3 \in {1, 2, 3, 6}
    OBVIOUS
  <2> QED
    BY <1>1, <1>4, <2>1, <2>2, NumberClosed
<1>7. Closed(c, q, S)
  <2>1. q \in Nat /\ q < p2 /\ q < p4
    BY <1>1, <1>3 DEF message_seq
  <2>2. q < Power[2] /\ q < Power[4]
    BY <1>2, <2>1, Zenon
  <2>3. 2 \in {1, 2, 3, 6}
    OBVIOUS
  <2> QED
    BY <1>1, <2>1, <2>2, <2>3, NumberClosed
<1>8. Closed(d, 0, S)
  <2>1. 0 \in Nat /\ 0 < p3 /\ 0 < p4
    BY <1>3
  <2>2. 0 < Power[3] /\ 0 < Power[4]
    BY <1>2, <2>1, Zenon
  <2>3. 3 \in {1, 2, 3, 6}
    OBVIOUS
  <2> QED
    BY <1>1, <2>1, <2>2, <2>3, NumberClosed
<1>9. Closed(e, content, S)
  <2>1. Len(content) <= Largest(3)
    BY <1>1, <1>2, <1>4, Zenon DEF Largest
  <2>2. 3 \in {2, 3}
    OBVIOUS
  <2> QED
    BY <1>1, <2>1, <2>2, BufferClosed
<1>10. PICK t : t = FragmentedHandshake
  OBVIOUS
<1>11. t.props = <<a, b, c, d, e>>
  BY <1>1, <1>10 DEF FragmentedHandshake, Struct
<1>12. v = <<type, l, q, 0, content>>
  BY <1>1 DEF toFragment
<1>13. Five(t, v, S)
  BY <1>5, <1>6, <1>7, <1>8, <1>9, <1>11, <1>12, FiveFit
<1> QED
  BY <1>1, <1>10, <1>13, Zenon

\* A number alone takes the bytes its type says.
LEMMA NumberLength ==
    ASSUME NEW k \in {1, 2, 3, 6}, NEW n \in Nat
    PROVE  Len(serializeProperty(Number(k), n)) = k
<1>1. Number(k).type = "number" /\ Number(k).bytes = k /\ k \in Nat
  BY DEF Number
<1>2. Number(k).type # "vector" /\ Number(k).type # "struct"
  BY <1>1
<1>3. serializeProperty(Number(k), n) = numberToBuffer(n, k)
  BY <1>1, <1>2, Zenon DEF serializeProperty, serializeItem, serializeLeaf
<1> QED
  BY <1>1, <1>3, NumberDigits

\* The header of a handshake message takes no more than 13 bytes.
LEMMA FragmentBytes ==
    ASSUME NEW type \in 0 .. Base - 1, NEW content \in Seq(Digits),
           Len(content) <= Largest(2),
           NEW r, r = serialize(FragmentedHandshake, toFragment(type, message_seq, content))
    PROVE  r \in Seq(Digits) /\ Len(r) <= Len(content) + 13
<1>1. PICK t, v, S : t = FragmentedHandshake /\ v = toFragment(type, message_seq, content)
                     /\ S = Digits
  OBVIOUS
<1>2. fits(t, v, S) /\ Len(v) = 5
  BY <1>1, FragmentFits DEF Five
<1>3. PICK ss \in Seq(Seq(S)) : Serialized(t, v, ss, 5)
  <2>1. 5 \in Nat /\ Digits \subseteq S
    BY <1>1
  <2> QED
    BY <1>2, <2>1, StructureSeq, Zenon
<1>4. /\ Len(ss) = 5 /\ r = FlattenSeq(ss)
      /\ \A i \in 1 .. 5 : ss[i] = serializeProperty(t.props[i], v[i])
  BY <1>1, <1>3, Zenon DEF Serialized
<1>5. PICK e : Joined(r, e, ss)
  BY <1>4, FlattenJoins
<1>6. PICK a, b, c, d, f, l, q :
          /\ a = Number(1) /\ b = Number(3) /\ c = Number(2) /\ d = Number(3)
          /\ f = Buffer(0, Largest(3)) /\ l = Len(content) /\ q = message_seq
  OBVIOUS
<1>7. /\ t.props[1] = a /\ t.props[2] = b /\ t.props[3] = c /\ t.props[4] = d /\ t.props[5] = f
  <2>1. t.props = <<a, b, c, d, f>>
    BY <1>1, <1>6 DEF FragmentedHandshake, Struct, HandshakeType
  <2> QED
    BY <2>1
<1>8. /\ v[1] = type /\ v[2] = l /\ v[3] = q /\ v[4] = 0 /\ v[5] = content
  <2>1. v = <<type, l, q, 0, content>>
    BY <1>1, <1>6 DEF toFragment
  <2> QED
    BY <2>1
<1>9. type \in Nat /\ l \in Nat /\ q \in Nat /\ 0 \in Nat
  BY <1>6, BaseAssumption DEF message_seq
<1>10. Len(ss[1]) = 1 /\ Len(ss[2]) = 3 /\ Len(ss[3]) = 2 /\ Len(ss[4]) = 3
  <2>1. /\ ss[1] = serializeProperty(a, type) /\ ss[2] = serializeProperty(b, l)
        /\ ss[3] = serializeProperty(c, q) /\ ss[4] = serializeProperty(d, 0)
    BY <1>4, <1>7, <1>8
  <2>2. 1 \in {1, 2, 3, 6} /\ 2 \in {1, 2, 3, 6} /\ 3 \in {1, 2, 3, 6}
    OBVIOUS
  <2> QED
    BY <1>6, <1>9, <2>1, <2>2, NumberLength
<1>11. PICK k \in 1 .. 4 : Len(ss[5]) = k + l
  <2>1. PICK m \in Nat : m = Largest(3) /\ m < Power[4] /\ f.max = m /\ f.type = "buffer"
                         /\ isVariableLength(f) /\ content \in Seq(Digits) /\ Len(content) <= m
    <3>1. Len(content) <= Largest(3)
      <4>1. PICK p2, p3 : p2 = Power[2] /\ p3 = Power[3] /\ p2 \in Nat /\ p3 \in Nat /\ p2 < p3
        BY PowersGrow
      <4>2. l <= p2 - 1 /\ l \in Nat
        BY <1>6, <1>9, <4>1 DEF Largest
      <4>3. l <= p3 - 1
        BY <4>1, <4>2
      <4> QED
        BY <1>6, <4>1, <4>3, Zenon DEF Largest
    <3>2. 3 \in {2, 3}
      OBVIOUS
    <3> QED
      BY <1>6, <3>1, <3>2, BufferFits
  <2>2. INT_BYTES = 4 /\ f.type # "vector" /\ f.type # "struct" /\ f.type # "number"
    BY <2>1 DEF INT_BYTES
  <2>3. LengthFits(f, content)
    BY <2>1, <2>2, Zenon DEF LengthFits
  <2>4. 5 \in 1 .. 5
    OBVIOUS
  <2>5. ss[5] = WithLength(f, content)
    BY <1>4, <1>7, <1>8, <2>2, <2>4, Zenon DEF serializeProperty, serializeItem, serializeLeaf
  <2>6. Len(ss[5]) = LengthBytes(f) + Len(content)
    <3>1. Digits \subseteq Digits
      OBVIOUS
    <3> QED
      BY <2>3, <2>5, <3>1, LengthBytesSeq
  <2>7. LengthBytes(f) \in 1 .. 4
    <3>1. fitToWholeBytes(m) \in 1 .. INT_BYTES
      BY <2>1, <2>2, WholeBytes
    <3> QED
      BY <2>1, <2>2, <3>1, Zenon DEF LengthBytes
  <2> QED
    BY <1>6, <2>6, <2>7
<1>12. Len(r) <= l + 13
  <2>1. /\ e[0] = 0 /\ Len(r) = e[5]
        /\ \A i \in 1 .. 5 : e[i] = e[i - 1] + Len(ss[i])
    BY <1>4, <1>5 DEF Joined, Laid
  <2>2. /\ e[1] = e[1 - 1] + Len(ss[1]) /\ e[2] = e[2 - 1] + Len(ss[2])
        /\ e[3] = e[3 - 1] + Len(ss[3]) /\ e[4] = e[4 - 1] + Len(ss[4])
        /\ e[5] = e[5 - 1] + Len(ss[5])
    BY <2>1
  <2>3. e[4] = 9
    BY <1>10, <2>1, <2>2
  <2>4. e[5] = 9 + (k + l)
    BY <1>11, <2>2, <2>3
  <2> QED
    BY <1>9, <1>11, <2>1, <2>4
<1>13. r \in Seq(S)
  BY <1>4, FlattenJoins
<1> QED
  BY <1>1, <1>6, <1>12, <1>13

\* What the code would leave out is bytes, too.
LEMMA ExtraBytes ==
    ASSUME NEW msg, Encodable(msg), msg.type = handshake
    PROVE  msg.extra \in Seq(Digits)
<1>1. PICK t, v, x, n : t = Bodies[msg.msg_type] /\ v = msg.body /\ x = msg.extra /\ n = Len(v)
  OBVIOUS
<1>2. /\ fits(t, v, Digits)
      /\ x # <<>> => /\ n > 0 /\ LeftOut(t.props[n], v[n])
                     /\ x = WithLength(t.props[n], <<>>)
  BY <1>1, Zenon DEF Encodable
<1>3. n \in Nat /\ DOMAIN t.props = 1 .. n
  <2>1. Digits \subseteq Digits
    OBVIOUS
  <2> QED
    BY <1>1, <1>2, <2>1, StructureSeq
<1>4. x \in Seq(Digits)
  <2>1. CASE x = <<>>
    BY <2>1
  <2>2. CASE x # <<>>
    <3>1. PICK u, w : u = t.props[n] /\ w = v[n]
      OBVIOUS
    <3>2. LeftOut(u, w) /\ x = WithLength(u, <<>>) /\ n \in DOMAIN t.props
      BY <1>2, <1>3, <2>2, <3>1
    <3>3. u.type = "vector" /\ w = <<>>
      BY <3>2, Zenon DEF LeftOut
    <3>4. ~ Whole(u)
      BY <3>3 DEF Whole
    <3>5. propertyFits(u, w, Digits)
      BY <1>2, <3>1, <3>2, <3>4, Zenon DEF fits
    <3>6. LengthFits(u, serializeItems(u, w))
      BY <3>3, <3>5, Zenon DEF propertyFits
    <3>7. serializeItems(u, w) = <<>>
      <4>1. [i \in DOMAIN w |-> serializeItem(u.item, w[i])] = <<>>
        BY <3>3
      <4> QED
        BY <4>1, NothingFlattened, Zenon DEF serializeItems
    <3>8. LengthFits(u, <<>>) /\ <<>> \in Seq(Digits) /\ Digits \subseteq Digits
      BY <3>6, <3>7
    <3>9. WithLength(u, <<>>) \in Seq(Digits)
      BY <3>8, LengthBytesSeq
    <3> QED
      BY <3>2, <3>9
  <2> QED
    BY <2>1, <2>2
<1> QED
  BY <1>1, <1>4

\* The content of a handshake message is bytes.
LEMMA ContentBytes ==
    ASSUME NEW msg, Encodable(msg), msg.type = handshake
    PROVE  Content(msg) \in Seq(Digits) /\ Len(Content(msg)) + Overhead <= Largest(2)
<1>1. PICK t, v, x, n : t = Bodies[msg.msg_type] /\ v = msg.body /\ x = msg.extra /\ n = Len(v)
  OBVIOUS
<1>2. /\ fits(t, v, Digits) /\ Len(Content(msg)) + Overhead <= Largest(2)
  BY <1>1, Zenon DEF Encodable
<1>3. serialize(t, v) \in Seq(Digits)
  <2>1. Digits \subseteq Digits
    OBVIOUS
  <2> QED
    BY <1>1, <1>2, <2>1, StructureSeq
<1>4. x \in Seq(Digits)
  BY <1>1, ExtraBytes
<1>5. Content(msg) = serialize(t, v) \o x
  BY <1>1, Zenon DEF Content
<1>6. serialize(t, v) \o x \in Seq(Digits)
  BY <1>3, <1>4
<1> QED
  BY <1>2, <1>5, <1>6

\* A cipher adds less than there is room for.
LEMMA DataBytes ==
    ASSUME NEW msg, Encodable(msg), NEW r, r = Data(msg)
    PROVE  /\ msg.type \in 0 .. Base - 1 /\ r \in Seq(Digits) /\ Len(r) \in Nat
           /\ Len(r) + 96 <= Largest(2) /\ Largest(2) \in Nat
<1>1. msg.type \in 0 .. Base - 1
  BY Zenon DEF Encodable
<1>2. Largest(2) \in Nat
  <2>1. Power[2] \in Nat /\ Power[2] > 128
    BY PowersGrow
  <2> QED
    BY <2>1 DEF Largest
<1>3. CASE msg.type = handshake
  <2>1. PICK c, mt : c = Content(msg) /\ mt = msg.msg_type
    OBVIOUS
  <2>2. c \in Seq(Digits) /\ Len(c) + Overhead <= Largest(2)
    BY <1>3, <2>1, ContentBytes
  <2>3. mt \in 0 .. Base - 1
    <3>1. mt \in DOMAIN Bodies \cap (0 .. Base - 1)
      BY <1>3, <2>1, Zenon DEF Encodable
    <3> QED
      BY <3>1
  <2>4. r = serialize(FragmentedHandshake, toFragment(mt, message_seq, c))
    BY <1>3, <2>1, Zenon DEF Data
  <2>5. Len(c) \in Nat /\ Len(c) <= Largest(2)
    BY <1>2, <2>2 DEF Overhead
  <2>6. r \in Seq(Digits) /\ Len(r) <= Len(c) + 13
    BY <2>2, <2>3, <2>4, <2>5, FragmentBytes
  <2> QED
    BY <1>1, <1>2, <2>2, <2>5, <2>6 DEF Overhead
<1>4. CASE msg.type # handshake
  <2>1. r = msg.data /\ msg.data \in Seq(Digits) /\ Len(msg.data) + Overhead <= Largest(2)
    BY <1>4, Zenon DEF Data, Encodable
  <2> QED
    BY <1>1, <1>2, <2>1 DEF Overhead
<1> QED
  BY <1>3, <1>4

-----------------------------------------------------------------------------
(* Handshake messages are understood.                                       *)

\* A sequence stands in itself.
LEMMA WholeStands ==
    ASSUME NEW S, NEW s \in Seq(S)
    PROVE  At(s, 0, s) /\ 0 + Len(s) = Len(s)
<1>1. Len(s) \in Nat /\ \A i \in 1 .. Len(s) : 0 + i = i
  OBVIOUS
<1>2. 0 + Len(s) = Len(s) /\ 0 + Len(s) <= Len(s)
  BY <1>1
<1>3. \A i \in 1 .. Len(s) : s[0 + i] = s[i]
  BY <1>1
<1> QED
  BY <1>1, <1>2, <1>3, Zenon DEF At

\* The handler finds the fragment that was sent.
LEMMA FragmentRead ==
    ASSUME NEW type \in 0 .. Base - 1, NEW content \in Seq(Digits),
           Len(content) <= Largest(2),
           NEW v, v = toFragment(type, message_seq, content),
           NEW r, r = serialize(FragmentedHandshake, v)
    PROVE  Fragment(r) = v
<1>1. PICK t : t = FragmentedHandshake
  OBVIOUS
<1>2. fits(t, v, Digits) /\ Exact(t, v) /\ Len(v) = 5
  BY <1>1, FragmentFits DEF Five
<1>3. r \in Seq(Digits)
  BY FragmentBytes
<1>4. At(r, 0, serialize(t, v))
  BY <1>1, <1>3, WholeStands
<1>5. Closes(t, v, r, 0)
  <2>1. 5 \in DOMAIN t.props
    <3>1. t.props = <<HandshakeType, Number(3), Number(2), Number(3), Buffer(0, Largest(3))>>
      BY <1>1 DEF FragmentedHandshake, Struct
    <3> QED
      BY <3>1
  <2>2. ~ Whole(t.props[5]) /\ ~ LeftOut(t.props[5], v[5])
    BY <1>2, <2>1, Zenon DEF Exact
  <2> QED
    BY <1>2, <2>2, Zenon DEF Closes
<1>6. from(t, r, 0).value = v
  <2>1. Digits \subseteq Digits /\ 0 \in Nat
    OBVIOUS
  <2> QED
    BY <1>2, <1>4, <1>5, <2>1, StructuresReadBack
<1> QED
  BY <1>1, <1>6, Zenon DEF Fragment

\* The body of a message is read as it was written, whether an empty vector was
\* left out at its end or not.
LEMMA BodyRead ==
    ASSUME NEW msg, Encodable(msg), msg.type = handshake
    PROVE  from(Bodies[msg.msg_type], Content(msg), 0).value = msg.body
<1>1. PICK t, v, x, n, r :
          /\ t = Bodies[msg.msg_type] /\ v = msg.body /\ x = msg.extra /\ n = Len(v)
          /\ r = Content(msg)
  OBVIOUS
<1>2. PICK s : s = serialize(t, v)
  OBVIOUS
<1>3. /\ fits(t, v, Digits)
      /\ x # <<>> => /\ n > 0 /\ LeftOut(t.props[n], v[n])
                     /\ x = WithLength(t.props[n], <<>>)
  BY <1>1, Zenon DEF Encodable
<1>4. s \in Seq(Digits) /\ r \in Seq(Digits) /\ n \in Nat
  <2>1. Digits \subseteq Digits
    OBVIOUS
  <2>2. s \in Seq(Digits) /\ n \in Nat
    BY <1>1, <1>2, <1>3, <2>1, StructureSeq
  <2> QED
    BY <1>1, <2>2, ContentBytes
<1>5. r = s \o x
  BY <1>1, <1>2, Zenon DEF Content
<1>6. At(r, 0, s) /\ Closes(t, v, r, 0)
  <2>1. CASE x = <<>>
    <3>1. r = s
      BY <1>4, <1>5, <2>1
    <3>2. At(r, 0, s) /\ 0 + Len(s) = Len(r)
      BY <1>4, <3>1, WholeStands
    <3>3. 0 + Len(serialize(t, v)) = Len(r)
      BY <1>2, <3>2, Zenon
    <3> QED
      BY <3>2, <3>3, Zenon DEF Closes
  <2>2. CASE x # <<>>
    <3>1. PICK u, w : u = t.props[n] /\ w = v[n] /\ LeftOut(u, w) /\ x = WithLength(u, <<>>)
      BY <1>3, <2>2
    <3>2. u.type = "vector"
      BY <3>1, Zenon DEF LeftOut
    <3>3. ~ Whole(u)
      BY <3>2 DEF Whole
    <3>4. x \in Seq(Digits)
      <4>1. PICK R : R = Digits
        OBVIOUS
      <4>2. x \in Seq(R)
        BY <1>1, <4>1, ExtraBytes
      <4> QED
        BY <4>1, <4>2
    <3>5. At(r, 0, s \o x)
      BY <1>4, <1>5, WholeStands
    <3>6. At(r, 0, s) /\ At(r, 0 + Len(s), x)
      <4>1. 0 \in Nat
        OBVIOUS
      <4> QED
        BY <1>4, <3>4, <3>5, <4>1, TwoStand
    <3>7. At(r, 0 + Len(serialize(t, v)), WithLength(u, <<>>))
      BY <1>2, <3>1, <3>6, Zenon
    <3> QED
      BY <1>1, <3>1, <3>3, <3>6, <3>7, Zenon DEF Closes
  <2> QED
    BY <2>1, <2>2
<1>7. from(t, r, 0).value = v
  <2>1. Digits \subseteq Digits /\ 0 \in Nat /\ At(r, 0, serialize(t, v))
    BY <1>2, <1>6
  <2> QED
    BY <1>3, <1>6, <2>1, StructuresReadBack
<1> QED
  BY <1>1, <1>7, Zenon

\* Reading a fragment does not depend on who looks at the value.
LEMMA OnceIs ==
    ASSUME NEW v
    PROVE  Once(v, fromFragment) = fromFragment(v)
  BY DEF Once

\* What the client can parse it understands, and hashes as it was received.
LEMMA MessageUnderstood ==
    ASSUME NEW msg, Encodable(msg), msg.type = handshake,
           msg.msg_type \in DOMAIN HandshakeMessages, NEW r, r = Data(msg)
    PROVE  /\ Once(Fragment(r), fromFragment).value = msg.body
           /\ msg.extra = <<>> => Rehashed(r) = r
<1>1. PICK c, mt, v : c = Content(msg) /\ mt = msg.msg_type
                      /\ v = toFragment(mt, message_seq, c)
  OBVIOUS
<1>2. c \in Seq(Digits) /\ Len(c) <= Largest(2)
  <2>1. c \in Seq(Digits) /\ Len(c) + Overhead <= Largest(2)
    BY <1>1, ContentBytes
  <2>2. Largest(2) \in Nat
    BY DataBytes
  <2> QED
    BY <2>1, <2>2 DEF Overhead
<1>3. mt \in 0 .. Base - 1 /\ Bodies[mt] = HandshakeMessages[mt]
  <2>1. mt \in DOMAIN Bodies \cap (0 .. Base - 1)
    BY <1>1, Zenon DEF Encodable
  <2>2. mt \in DOMAIN HandshakeMessages \cup {16}
    BY <1>1
  <2> QED
    BY <1>1, <2>1, <2>2 DEF Bodies
<1>4. r = serialize(FragmentedHandshake, v)
  BY <1>1, Zenon DEF Data
<1>5. Fragment(r) = v
  BY <1>1, <1>2, <1>3, <1>4, FragmentRead
<1>6. v[1] = mt /\ v[3] = message_seq /\ v[5] = c
  BY <1>1 DEF toFragment
<1>7. fromFragment(v) = from(HandshakeMessages[mt], c, 0)
  BY <1>1, <1>6, Zenon DEF fromFragment
<1>8. fromFragment(v).value = msg.body
  <2>1. from(Bodies[mt], c, 0).value = msg.body
    BY <1>1, BodyRead
  <2> QED
    BY <1>3, <1>7, <2>1, Zenon
<1>9. Once(Fragment(r), fromFragment).value = msg.body
  BY <1>5, <1>8, OnceIs, Zenon
<1>10. ASSUME msg.extra = <<>> PROVE Rehashed(r) = r
  <2>1. serialize(HandshakeMessages[mt], msg.body) = c
    <3>1. c = serialize(Bodies[mt], msg.body) \o msg.extra
      BY <1>1, Zenon DEF Content
    <3>2. PICK s : s = serialize(Bodies[mt], msg.body)
      OBVIOUS
    <3>3. s \in Seq(Digits)
      <4>1. fits(Bodies[mt], msg.body, Digits)
        BY <1>1, Zenon DEF Encodable
      <4>2. PICK n : n = Len(msg.body) /\ Digits \subseteq Digits
        OBVIOUS
      <4> QED
        BY <3>2, <4>1, <4>2, StructureSeq
    <3>4. s \o <<>> = s
      BY <3>3
    <3> QED
      BY <1>3, <1>10, <3>1, <3>2, <3>4
  <2>2. PICK body : body = serialize(HandshakeMessages[v[1]], fromFragment(v).value)
    OBVIOUS
  <2>3. body = c
    BY <1>6, <1>8, <2>1, <2>2, Zenon
  <2>4. serialize(FragmentedHandshake, toFragment(v[1], v[3], body)) = r
    BY <1>1, <1>4, <1>6, <2>3, Zenon
  <2>5. Rehashed(r) = Once(v, LAMBDA f :
                          Once(serialize(HandshakeMessages[f[1]], fromFragment(f).value), LAMBDA b :
                              serialize(FragmentedHandshake, toFragment(f[1], f[3], b))))
    BY <1>5, Zenon DEF Rehashed
  <2>6. Rehashed(r) = Once(serialize(HandshakeMessages[v[1]], fromFragment(v).value), LAMBDA b :
                              serialize(FragmentedHandshake, toFragment(v[1], v[3], b)))
    BY <2>5 DEF Once
  <2>7. Rehashed(r) = Once(body, LAMBDA b :
                              serialize(FragmentedHandshake, toFragment(v[1], v[3], b)))
    BY <2>2, <2>6
  <2>8. Rehashed(r) = serialize(FragmentedHandshake, toFragment(v[1], v[3], body))
    BY <2>7 DEF Once
  <2> QED
    BY <2>4, <2>8, Zenon
<1> QED
  BY <1>9, <1>10

-----------------------------------------------------------------------------
(* The inductive invariant.  The ends of a datagram, what was written and    *)
(* what travels are parameters: e is the tuple `ends'.                       *)

\* An association's key material, and what a writer makes of a packet.
Association(a) == [master |-> MasterSecret(PreMasterSecret(<<"psk">>), "client", a),
                   client_random |-> "client", server_random |-> a]
Ciphertext(e, p) == Enciphered(e[1], p, KeysOf(e[1], Association(e[4])), e[2])
RecordOf(e, p)   == Record(p, Ciphertext(e, p))

PacketOf(msg, n) == [type |-> msg.type, version |-> DTLSVersion, epoch |-> Epoch,
                     sequence_number |-> n, fragment |-> Data(msg)]

\* What the reader parses from the record of a packet.
WireForm(e, p) == [type |-> p.type, version |-> DTLSVersion, epoch |-> Epoch,
                   sequence_number |-> p.sequence_number % NumberLimit,
                   fragment |-> Ciphertext(e, p)]

EndsOK(e) == /\ Suite(e[1]) /\ e[2] \in Ends /\ e[3] \in Ends
             /\ e[4] \in {"this", "earlier"} /\ e[5] \in Nat

\* Where record i starts; where the records before it are unharmed, so is it
\* unless the damage is in it.
Start(w, i)   == IF i = 1 THEN 0 ELSE w[i - 1].end
Good(w, d, i) == d = 0 \/ w[i].end < d
Safe(w, d, i) == Good(w, d, i) /\ w[i].packet.sequence_number < NumberLimit

\* The packets are those of the messages, numbered one after the other, and
\* their records follow each other.
Wrote(e, x, k, start) ==
    /\ Encodable(x.message) /\ x.packet = PacketOf(x.message, e[5] + k)
    /\ x.end \in Nat /\ x.end = start + Len(RecordOf(e, x.packet))
Writes(e, out, n, w) ==
    /\ Listing(out) /\ Listing(w) /\ Len(w) + Len(out) <= width
    /\ \A i \in DOMAIN out : Encodable(out[i])
    /\ n = e[5] + Len(w)
    /\ \A i \in DOMAIN w : Wrote(e, w[i], i - 1, Start(w, i))

\* The datagram has the records that end before the damage, and of tags and
\* chained blocks no bytes but theirs.
Known(e, w, x) ==
    /\ IsByte(x)
    /\ x[1] \in {"tag", "cbc"} => \E j \in DOMAIN w : x \in Parts(Ciphertext(e, w[j].packet))
Carries(e, w, b, d) ==
    /\ Listing(b) /\ d \in 0 .. Len(b) + 1
    /\ \A i \in DOMAIN b : Known(e, w, b[i])
    /\ d = 0 => Len(b) = Start(w, Len(w) + 1)
    /\ \A i \in DOMAIN w : Good(w, d, i) => At(b, Start(w, i), RecordOf(e, w[i].packet))

\* A packet that was parsed.
PacketOK(e, w, p) ==
    /\ p = [type |-> p.type, version |-> p.version, epoch |-> p.epoch,
            sequence_number |-> p.sequence_number, fragment |-> p.fragment]
    /\ p.type \in 0 .. Base - 1 /\ p.epoch \in 0 .. Largest(2) /\ p.sequence_number \in Nat
    /\ Listing(p.fragment)
    /\ \A i \in DOMAIN p.fragment : p.fragment[i] = Unwritten \/ Known(e, w, p.fragment[i])

\* Record i is there and ends before the damage.
Unharmed(w, d, i) == i \in DOMAIN w /\ Good(w, d, i)

\* All that is parsed, k packets, of which h are deciphered: the packets of
\* unharmed records, up to the place where the next one starts.
Follows(e, w, d, off, ps, h, k) ==
    /\ k = h + Len(ps)
    /\ \A i \in DOMAIN w : Good(w, d, i) /\ i > h /\ i <= k =>
                               ps[i - h] = WireForm(e, w[i].packet)
    /\ d = 0 => k <= Len(w)
    /\ d = 0 \/ Unharmed(w, d, k + 1) => off = Start(w, k + 1)

\* The first h packets are deciphered.
Gets(e, w, d, rs, h) ==
    (e[2] # e[3] /\ e[4] = "this") \/ e[1].cipherType = "null" =>
        /\ \A i \in DOMAIN w : Safe(w, d, i) /\ i <= h => i <= Len(rs) /\ rs[i] = w[i].packet
        /\ d = 0 => \A i \in 1 .. Len(rs) : i \in DOMAIN w /\ Safe(w, d, i)

Reads(e, w, b, d, off, ps, rs) ==
    \E h \in Nat, k \in Nat :
        /\ off < Len(b) => h = 0
        /\ Len(rs) <= h
        /\ Follows(e, w, d, off, ps, h, k)
        /\ Gets(e, w, d, rs, h)

\* What is handed on under keys was written by the other end.
FromTheOther(e, w, x) ==
    e[3] # e[2] /\ e[4] = "this" /\ \E j \in DOMAIN w : x = w[j].packet
Authentics(e, w, rs) ==
    e[1].cipherType # "null" =>
        \A i \in DOMAIN rs : rs[i].epoch = Epoch => FromTheOther(e, w, rs[i])

\* The state of a datagram: what is written and on its way, what of it was
\* parsed and received, and that this is what was written, in its order.
State(e, out, n, w, b, d, off, ps, rs) ==
    /\ EndsOK(e)
    /\ Writes(e, out, n, w)
    /\ Carries(e, w, b, d)
    /\ off \in Nat
    /\ out # <<>> => off = 0 /\ d = 0
    /\ off = 0 => ps = <<>> /\ rs = <<>>
    /\ Listing(ps) /\ \A i \in DOMAIN ps : PacketOK(e, w, ps[i])
    /\ Listing(rs)
    /\ Reads(e, w, b, d, off, ps, rs)
    /\ Authentics(e, w, rs)

\* The inductive invariant.
Inv == State(ends, outgoing, number, written, wire, damage, offset, packets, received)

-----------------------------------------------------------------------------
(* Records of packets.                                                      *)

\* A sequence is a listing.
LEMMA SeqListing ==
    ASSUME NEW S, NEW s \in Seq(S)
    PROVE  Listing(s) /\ Len(s) \in Nat /\ DOMAIN s = 1 .. Len(s)
<1>1. Len(s) \in Nat /\ DOMAIN s = 1 .. Len(s) /\ s = [i \in 1 .. Len(s) |-> s[i]]
  OBVIOUS
<1> QED
  BY <1>1, Zenon DEF Listing

\* The digits of numbers are bytes.
LEMMA DigitsOctets == Digits \subseteq Octets
<1> SUFFICES ASSUME NEW x \in Digits PROVE x \in Octets
  OBVIOUS
<1>1. PICK v \in 0 .. Base - 1 : x = Byte(v)
  BY DEF Digits
<1>2. v \in Nat
  BY BaseAssumption
<1> QED
  BY <1>1, <1>2 DEF Octets

\* What a writer makes of a packet fits a record.
LEMMA CiphertextBytes ==
    ASSUME NEW e, EndsOK(e), NEW msg, Encodable(msg), NEW n \in Nat,
           NEW p, p = PacketOf(msg, n), NEW c, c = Ciphertext(e, p)
    PROVE  /\ p.type = msg.type /\ p.type \in 0 .. Base - 1 /\ p.version = DTLSVersion
           /\ p.epoch = Epoch /\ p.sequence_number = n /\ p.fragment = Data(msg)
           /\ p.fragment \in Seq(Digits) /\ Sendable(p, c, Parts(c) \cup Digits)
           /\ c \in Seq(Parts(c)) /\ \A x \in Parts(c) : IsByte(x)
<1>1. /\ p.type = msg.type /\ p.version = DTLSVersion /\ p.epoch = Epoch
      /\ p.sequence_number = n /\ p.fragment = Data(msg)
  BY DEF PacketOf
<1>2. PICK f, l : /\ f = Data(msg) /\ l = Largest(2)
                  /\ msg.type \in 0 .. Base - 1 /\ f \in Seq(Digits) /\ Len(f) \in Nat
                  /\ Len(f) + 96 <= l /\ l \in Nat
  BY DataBytes
<1>3. /\ c \in Seq(Parts(c)) /\ Len(c) <= Len(f) + 96
      /\ \A x \in Parts(c) : IsByte(x)
  <2>1. PICK suite, material, end : /\ suite = e[1] /\ end = e[2]
                                    /\ material = KeysOf(e[1], Association(e[4]))
    OBVIOUS
  <2>2. Suite(suite)
    BY <2>1, Zenon DEF EndsOK
  <2>3. c = Enciphered(suite, p, material, end)
    BY <2>1, Zenon DEF Ciphertext
  <2>4. p.fragment \in Seq(Digits)
    BY <1>1, <1>2
  <2>5. /\ c \in Seq(Parts(c)) /\ Len(c) <= Len(p.fragment) + 96
        /\ \A x \in Parts(c) : IsByte(x)
    BY <2>2, <2>3, <2>4, EncipheredBytes
  <2> QED
    BY <1>1, <1>2, <2>5
<1>4. Len(c) <= l
  <2>1. Len(c) \in Nat
    BY <1>3
  <2> QED
    BY <1>2, <1>3, <2>1
<1>5. c \in Seq(Parts(c) \cup Digits)
  BY <1>3
<1>6. Sendable(p, c, Parts(c) \cup Digits)
  BY <1>1, <1>2, <1>4, <1>5, Zenon DEF Sendable
<1> QED
  BY <1>1, <1>2, <1>3, <1>6

\* A record of an encodable message is a sequence of bytes, and the tags and
\* the enciphered blocks in it are those of its own ciphertext.
LEMMA RecordKnown ==
    ASSUME NEW e, EndsOK(e), NEW msg, Encodable(msg), NEW n \in Nat,
           NEW p, p = PacketOf(msg, n), NEW r, r = RecordOf(e, p)
    PROVE  /\ Listing(r) /\ Len(r) \in Nat \ {0} /\ DOMAIN r = 1 .. Len(r)
           /\ \A i \in DOMAIN r : /\ IsByte(r[i])
                                  /\ r[i][1] \in {"tag", "cbc"} => r[i] \in Parts(Ciphertext(e, p))
<1>1. PICK c : c = Ciphertext(e, p)
  OBVIOUS
<1>2. PICK S : S = Parts(c) \cup Digits
  OBVIOUS
<1>3. Sendable(p, c, S) /\ \A x \in Parts(c) : IsByte(x)
  BY <1>1, <1>2, CiphertextBytes
<1>4. r = Record(p, c)
  BY <1>1, Zenon DEF RecordOf
<1>5. r \in Seq(S) /\ Len(r) \in Nat \ {0}
  <2>1. Digits \subseteq S
    BY <1>2
  <2> QED
    BY <1>3, <1>4, <2>1, RecordBytes
<1>6. Listing(r) /\ DOMAIN r = 1 .. Len(r)
  BY <1>5, SeqListing
<1>7. \A x \in S : IsByte(x) /\ (x[1] \in {"tag", "cbc"} => x \in Parts(c))
  <2> TAKE x \in S
  <2>1. CASE x \in Parts(c)
    BY <1>3, <2>1
  <2>2. CASE x \in Digits
    <3>1. IsByte(x) /\ x[1] = "byte"
      BY <2>2, DigitIsByte
    <3> QED
      BY <3>1
  <2> QED
    BY <1>2, <2>1, <2>2
<1>8. \A i \in DOMAIN r : r[i] \in S
  BY <1>5
<1> QED
  BY <1>1, <1>5, <1>6, <1>7, <1>8

\* What stands in a buffer stays there when something is added.
LEMMA StandsStill ==
    ASSUME NEW S, NEW b \in Seq(S), NEW x \in Seq(S), NEW o \in Nat, NEW r, Len(r) \in Nat,
           At(b, o, r), NEW b2, b2 = b \o x
    PROVE  At(b2, o, r)
<1>1. /\ Len(b) \in Nat /\ o + Len(r) <= Len(b)
      /\ \A i \in 1 .. Len(r) : b[o + i] = r[i]
  BY Zenon DEF At
<1>2. /\ b2 \in Seq(S) /\ Len(b2) \in Nat /\ Len(b) <= Len(b2)
      /\ \A j \in 1 .. Len(b) : b2[j] = b[j]
  BY <1>1
<1>3. o + Len(r) <= Len(b2)
  <2>1. PICK k, l, m : k = Len(r) /\ l = Len(b) /\ m = Len(b2)
    OBVIOUS
  <2>2. k \in Nat /\ l \in Nat /\ m \in Nat /\ o + k <= l /\ l <= m
    BY <1>1, <1>2, <2>1
  <2>3. o + k <= m
    BY <2>2
  <2> QED
    BY <2>1, <2>3, Zenon
<1>4. \A i \in 1 .. Len(r) : b2[o + i] = r[i]
  <2> TAKE i \in 1 .. Len(r)
  <2>1. o + i \in 1 .. Len(b)
    <3>1. PICK k, l : k = Len(r) /\ l = Len(b) /\ k \in Nat /\ l \in Nat /\ o + k <= l
                      /\ i \in 1 .. k
      BY <1>1
    <3>2. o + i \in 1 .. l
      BY <3>1
    <3> QED
      BY <3>1, <3>2, Zenon
  <2> QED
    BY <1>1, <1>2, <2>1
<1> QED
  BY <1>2, <1>3, <1>4, Zenon DEF At

Behind(b, x, b2, S) == At(b2, Len(b), x) /\ Len(b2) = Len(b) + Len(x) /\ b2 \in Seq(S)

\* What a concatenation consists of.
LEMMA StandsBehind ==
    ASSUME NEW S, NEW b, NEW x, b \in Seq(S), x \in Seq(S), NEW b2, b2 = b \o x
    PROVE  Behind(b, x, b2, S)
<1>1. /\ Len(b) \in Nat /\ Len(x) \in Nat /\ b2 \in Seq(S) /\ Len(b2) = Len(b) + Len(x)
      /\ \A i \in 1 .. Len(x) : b2[Len(b) + i] = x[i]
  OBVIOUS
<1>2. Len(b2) \in Nat /\ Len(b) + Len(x) <= Len(b2)
  BY <1>1
<1> QED
  BY <1>1, <1>2, Zenon DEF At, Behind

-----------------------------------------------------------------------------
(* A record is written.                                                     *)

\* A record is added: those before it are where they were.
AddedTo(w, x, w2, m) ==
    /\ m \in Nat /\ Listing(w2) /\ Len(w2) = m + 1 /\ DOMAIN w = 1 .. m
    /\ DOMAIN w2 = 1 .. m + 1 /\ w2[m + 1] = x
    /\ \A i \in 1 .. m : w2[i] = w[i]
    /\ \A i \in 1 .. m + 1 : Start(w2, i) = Start(w, i)
    /\ Start(w2, m + 2) = x.end

\* What a listing with one more element consists of.
LEMMA Added ==
    ASSUME NEW w, Listing(w), NEW x, NEW w2, w2 = Append(w, x), NEW m, m = Len(w)
    PROVE  AddedTo(w, x, w2, m)
<1>1. m \in Nat /\ DOMAIN w = 1 .. m /\ w \in Seq(Range(w))
  BY ListingLength
<1>2. PICK S : S = Range(w) \cup {x}
  OBVIOUS
<1>3. w \in Seq(S) /\ x \in S
  BY <1>1, <1>2
<1>4. /\ w2 \in Seq(S) /\ Len(w2) = m + 1 /\ w2[m + 1] = x
      /\ \A i \in 1 .. m : w2[i] = w[i]
  BY <1>1, <1>3
<1>5. Listing(w2) /\ DOMAIN w2 = 1 .. m + 1
  BY <1>4, SeqListing
<1>6. \A i \in 1 .. m + 1 : Start(w2, i) = Start(w, i)
  <2> TAKE i \in 1 .. m + 1
  <2>1. CASE i = 1
    BY <2>1 DEF Start
  <2>2. CASE i # 1
    <3>1. i - 1 \in 1 .. m
      BY <1>1, <2>2
    <3>2. w2[i - 1] = w[i - 1]
      BY <1>4, <3>1
    <3> QED
      BY <2>2, <3>2, Zenon DEF Start
  <2> QED
    BY <2>1, <2>2
<1>7. Start(w2, m + 2) = x.end
  <2>1. m + 2 # 1 /\ (m + 2) - 1 = m + 1
    BY <1>1
  <2> QED
    BY <1>4, <2>1, Zenon DEF Start
<1> QED
  BY <1>1, <1>4, <1>5, <1>6, <1>7, Zenon DEF AddedTo

\* Where a written record starts is a place.
LEMMA StartIn ==
    ASSUME NEW e, NEW out, NEW n, NEW w, Writes(e, out, n, w), NEW m, m = Len(w),
           NEW i \in 1 .. m + 1
    PROVE  Start(w, i) \in Nat
<1>1. Listing(w) /\ \A j \in DOMAIN w : Wrote(e, w[j], j - 1, Start(w, j))
  BY Zenon DEF Writes
<1>2. m \in Nat /\ DOMAIN w = 1 .. m
  BY <1>1, ListingLength
<1>3. CASE i = 1
  BY <1>3 DEF Start
<1>4. CASE i # 1
  <2>1. i - 1 \in DOMAIN w
    BY <1>2, <1>4
  <2>2. w[i - 1].end \in Nat
    BY <1>1, <2>1, Zenon DEF Wrote
  <2> QED
    BY <1>4, <2>2, Zenon DEF Start
<1> QED
  BY <1>3, <1>4

\* A record more is written: it stands behind those before it, with the next
\* number, and they stay where they are.
LEMMA WritesMore ==
    ASSUME NEW e, EndsOK(e), NEW out, NEW n, NEW w, NEW b,
           Writes(e, out, n, w), Carries(e, w, b, 0), out # <<>>,
           NEW msg, msg = Head(out), NEW p, p = PacketOf(msg, n), NEW r, r = RecordOf(e, p),
           NEW b2, b2 = b \o r,
           NEW w2, w2 = Append(w, [message |-> msg, packet |-> p, end |-> Len(b2)])
    PROVE  Writes(e, Tail(out), n + 1, w2) /\ Carries(e, w2, b2, 0)
<1>1. /\ Listing(out) /\ Listing(w) /\ Len(w) + Len(out) <= width
      /\ \A i \in DOMAIN out : Encodable(out[i])
      /\ n = e[5] + Len(w)
      /\ \A i \in DOMAIN w : Wrote(e, w[i], i - 1, Start(w, i))
  BY Zenon DEF Writes
<1>2. /\ Listing(b) /\ \A i \in DOMAIN b : Known(e, w, b[i])
      /\ Len(b) = Start(w, Len(w) + 1)
      /\ \A i \in DOMAIN w : At(b, Start(w, i), RecordOf(e, w[i].packet))
  BY Zenon DEF Carries, Good
<1>3. PICK m, x : m = Len(w) /\ x = [message |-> msg, packet |-> p, end |-> Len(b2)]
  OBVIOUS
<1>4. /\ m \in Nat /\ Listing(w2) /\ Len(w2) = m + 1 /\ DOMAIN w = 1 .. m
      /\ DOMAIN w2 = 1 .. m + 1 /\ w2[m + 1] = x
      /\ \A i \in 1 .. m : w2[i] = w[i]
      /\ \A i \in 1 .. m + 1 : Start(w2, i) = Start(w, i)
      /\ Start(w2, m + 2) = x.end
  <2>1. w2 = Append(w, x) /\ m = Len(w)
    BY <1>3
  <2>2. AddedTo(w, x, w2, m)
    BY <1>1, <2>1, Added, Zenon
  <2> QED
    BY <2>2, Zenon DEF AddedTo
<1>5. PICK l : l = Len(out) /\ l \in Nat /\ l > 0 /\ DOMAIN out = 1 .. l /\ out \in Seq(Range(out))
  <2>1. Len(out) \in Nat /\ DOMAIN out = 1 .. Len(out) /\ out \in Seq(Range(out))
    BY <1>1, ListingLength
  <2> QED
    BY <2>1
<1>6. /\ Listing(Tail(out)) /\ Len(Tail(out)) = l - 1 /\ DOMAIN Tail(out) = 1 .. l - 1
      /\ \A i \in 1 .. l - 1 : Tail(out)[i] = out[i + 1]
  <2>1. PICK t : t = Tail(out)
    OBVIOUS
  <2>2. t \in Seq(Range(out)) /\ Len(t) = l - 1 /\ \A i \in 1 .. l - 1 : t[i] = out[i + 1]
    BY <1>5, <2>1
  <2>3. Listing(t) /\ DOMAIN t = 1 .. Len(t)
    BY <2>2, SeqListing
  <2> QED
    BY <2>1, <2>2, <2>3
<1>7. Encodable(msg)
  <2>1. msg = out[1] /\ 1 \in DOMAIN out
    BY <1>5
  <2> QED
    BY <1>1, <2>1
<1>8. n \in Nat /\ n = e[5] + m /\ e[5] \in Nat
  <2>1. e[5] \in Nat
    BY Zenon DEF EndsOK
  <2> QED
    BY <1>1, <1>3, <1>4, <2>1
<1>9. /\ Listing(r) /\ Len(r) \in Nat \ {0} /\ DOMAIN r = 1 .. Len(r)
      /\ \A i \in DOMAIN r : /\ IsByte(r[i])
                             /\ r[i][1] \in {"tag", "cbc"} => r[i] \in Parts(Ciphertext(e, p))
  BY <1>7, <1>8, RecordKnown
<1>10. PICK S : b \in Seq(S) /\ r \in Seq(S)
  <2>1. b \in Seq(Range(b)) /\ r \in Seq(Range(r))
    BY <1>2, <1>9, ListingLength
  <2>2. b \in Seq(Range(b) \cup Range(r)) /\ r \in Seq(Range(b) \cup Range(r))
    BY <2>1
  <2> QED
    BY <2>2
<1>11. At(b2, Len(b), r) /\ Len(b2) = Len(b) + Len(r) /\ b2 \in Seq(S)
  <2>1. Behind(b, r, b2, S)
    BY <1>10, StandsBehind, Zenon
  <2> QED
    BY <2>1, Zenon DEF Behind
<1>12. Listing(b2) /\ Len(b2) \in Nat /\ DOMAIN b2 = 1 .. Len(b2)
  BY <1>11, SeqListing
<1>13. x.message = msg /\ x.packet = p /\ x.end = Len(b2)
  BY <1>3
<1>14. Writes(e, Tail(out), n + 1, w2)
  <2>1. \A i \in DOMAIN Tail(out) : Encodable(Tail(out)[i])
    <3> TAKE i \in DOMAIN Tail(out)
    <3>1. i \in 1 .. l - 1 /\ i + 1 \in 1 .. l
      BY <1>5, <1>6
    <3> QED
      BY <1>1, <1>5, <1>6, <3>1
  <2>2. Len(w2) + Len(Tail(out)) <= width
    <3>1. m + l <= width /\ width = 64
      BY <1>1, <1>3, <1>5 DEF width
    <3>2. (m + 1) + (l - 1) <= width
      BY <1>4, <1>5, <3>1
    <3> QED
      BY <1>4, <1>6, <3>2, Zenon
  <2>3. n + 1 = e[5] + Len(w2)
    BY <1>4, <1>8
  <2>4. \A i \in DOMAIN w2 : Wrote(e, w2[i], i - 1, Start(w2, i))
    <3> TAKE i \in DOMAIN w2
    <3>1. CASE i \in 1 .. m
      <4>1. i \in 1 .. m + 1
        BY <1>4, <3>1
      <4> QED
        BY <1>1, <1>4, <3>1, <4>1, Zenon
    <3>2. CASE i = m + 1
      <4>1. w2[i] = x /\ i - 1 = m /\ i \in 1 .. m + 1
        BY <1>4, <3>2
      <4>2. Start(w2, i) = Len(b)
        BY <1>2, <1>3, <1>4, <3>2, <4>1
      <4>3. Wrote(e, x, m, Len(b))
        <5>1. x.packet = PacketOf(x.message, e[5] + m) /\ RecordOf(e, x.packet) = r
          BY <1>8, <1>13
        <5> QED
          BY <1>7, <1>11, <1>12, <1>13, <5>1, Zenon DEF Wrote
      <4> QED
        BY <4>1, <4>2, <4>3, Zenon
    <3> QED
      BY <1>4, <3>1, <3>2
  <2> QED
    BY <1>4, <1>6, <2>1, <2>2, <2>3, <2>4, Zenon DEF Writes
<1>15. Carries(e, w2, b2, 0)
  <2>1. 0 \in 0 .. Len(b2) + 1
    BY <1>12
  <2>2. \A j \in DOMAIN w : j \in DOMAIN w2 /\ w2[j] = w[j]
    BY <1>4
  <2>3. \A y : Known(e, w, y) => Known(e, w2, y)
    BY <2>2, Zenon DEF Known
  <2>4. \A i \in DOMAIN b2 : Known(e, w2, b2[i])
    <3> TAKE i \in DOMAIN b2
    <3>1. PICK k, kr : /\ k = Len(b) /\ kr = Len(r) /\ k \in Nat /\ kr \in Nat
                       /\ DOMAIN b = 1 .. k /\ DOMAIN r = 1 .. kr /\ i \in 1 .. k + kr
      <4>1. Len(b) \in Nat /\ DOMAIN b = 1 .. Len(b)
        BY <1>2, ListingLength
      <4> QED
        BY <1>9, <1>11, <1>12, <4>1
    <3>2. CASE i \in 1 .. k
      <4>1. b2[i] = b[i]
        BY <1>10, <3>1, <3>2
      <4> QED
        BY <1>2, <2>3, <3>1, <3>2, <4>1, Zenon
    <3>3. CASE i \notin 1 .. k
      <4>1. PICK j \in 1 .. kr : i = k + j
        <5>1. PICK d : d = i - k
          OBVIOUS
        <5>2. d \in 1 .. kr /\ i = k + d
          BY <3>1, <3>3, <5>1
        <5> QED
          BY <5>2
      <4>2. b2[i] = r[j]
        BY <1>10, <3>1, <4>1
      <4>3. m + 1 \in DOMAIN w2 /\ w2[m + 1].packet = p
        BY <1>4, <1>13
      <4>4. Known(e, w2, r[j])
        <5>1. j \in DOMAIN r
          BY <3>1
        <5> QED
          BY <1>9, <4>3, <5>1, Zenon DEF Known
      <4> QED
        BY <4>2, <4>4, Zenon
    <3> QED
      BY <3>2, <3>3
  <2>5. Len(b2) = Start(w2, Len(w2) + 1)
    <3>1. Len(w2) = m + 1 /\ m \in Nat
      BY <1>4, Zenon
    <3>2. Len(w2) + 1 = m + 2
      BY <3>1
    <3> QED
      BY <1>4, <1>13, <3>2, Zenon
  <2>6. \A i \in DOMAIN w2 : At(b2, Start(w2, i), RecordOf(e, w2[i].packet))
    <3> TAKE i \in DOMAIN w2
    <3>1. CASE i \in 1 .. m
      <4>1. PICK q, o : q = RecordOf(e, w[i].packet) /\ o = Start(w, i)
        OBVIOUS
      <4>2. At(b, o, q) /\ i \in DOMAIN w /\ i \in 1 .. m + 1
        BY <1>2, <1>4, <3>1, <4>1
      <4>3. Len(q) \in Nat
        <5>1. Wrote(e, w[i], i - 1, Start(w, i))
          BY <1>1, <4>2
        <5>2. PICK msg2, k : msg2 = w[i].message /\ k = e[5] + (i - 1) /\ k \in Nat
          <6>1. i - 1 \in Nat
            BY <1>4, <3>1
          <6>2. e[5] + (i - 1) \in Nat
            BY <1>8, <6>1
          <6> QED
            BY <6>2, Zenon
        <5>3. Encodable(msg2) /\ w[i].packet = PacketOf(msg2, k)
          BY <5>1, <5>2, Zenon DEF Wrote
        <5> QED
          BY <4>1, <5>2, <5>3, RecordKnown
      <4>4. o \in Nat
        BY <1>3, <4>1, <4>2, StartIn
      <4>5. At(b2, o, q)
        BY <1>10, <4>2, <4>3, <4>4, StandsStill
      <4>6. w2[i] = w[i] /\ Start(w2, i) = o
        BY <1>4, <3>1, <4>1, <4>2
      <4> QED
        BY <4>1, <4>5, <4>6, Zenon
    <3>2. CASE i = m + 1
      <4>1. w2[i].packet = p /\ Start(w2, i) = Len(b)
        <5>1. i \in 1 .. m + 1
          BY <1>4, <3>2
        <5> QED
          BY <1>2, <1>3, <1>4, <1>13, <3>2, <5>1
      <4> QED
        BY <1>11, <4>1, Zenon
    <3>3. i \in 1 .. m + 1
      BY <1>4, Zenon
    <3>4. i \in 1 .. m \/ i = m + 1
      BY <1>4, <3>3
    <3> QED
      BY <3>1, <3>2, <3>4, Zenon
  <2>7. \A i \in DOMAIN w2 : Good(w2, 0, i) => At(b2, Start(w2, i), RecordOf(e, w2[i].packet))
    <3> TAKE i \in DOMAIN w2
    <3> HAVE Good(w2, 0, i)
    <3> QED
      BY <2>6
  <2>8. Listing(b2)
    BY <1>12, Zenon
  <2> QED
    BY <2>1, <2>4, <2>5, <2>7, <2>8, Zenon DEF Carries
<1> QED
  BY <1>14, <1>15

-----------------------------------------------------------------------------
(* A datagram is damaged.                                                   *)

\* Up to byte i a buffer is as it was.
Kept(b, b2, i) ==
    Listing(b2) /\ Len(b2) \in Nat /\ i - 1 <= Len(b2) /\ \A j \in 1 .. i - 1 : b2[j] = b[j]

\* Byte i becomes another one.
Changed(b, i, c) == [b EXCEPT ![i] = IF @[1] = "byte" THEN Byte((@[2] + c) % Base)
                                                      ELSE <<"other", i>>]

\* A changed byte: the others stay, and no tag or block is made of it.
LEMMA ByteChanged ==
    ASSUME NEW e, NEW w, NEW b, Listing(b), \A j \in DOMAIN b : Known(e, w, b[j]),
           NEW i \in DOMAIN b, NEW c \in Changes, NEW b2, b2 = Changed(b, i, c)
    PROVE  Kept(b, b2, i) /\ \A j \in DOMAIN b2 : Known(e, w, b2[j])
<1>1. PICK n \in Nat : n = Len(b) /\ DOMAIN b = 1 .. n /\ b = [j \in 1 .. n |-> b[j]]
  BY ListingLength DEF Listing
<1>2. PICK x : x = IF b[i][1] = "byte" THEN Byte((b[i][2] + c) % Base) ELSE <<"other", i>>
  OBVIOUS
<1>3. b2 = [b EXCEPT ![i] = x]
  BY <1>2 DEF Changed
<1>4. /\ DOMAIN b2 = 1 .. n /\ b2 = [j \in 1 .. n |-> b2[j]] /\ b2[i] = x
      /\ \A j \in 1 .. n : j # i => b2[j] = b[j]
  BY <1>1, <1>3
<1>5. Len(b2) = n /\ Listing(b2)
  <2>1. Len(b2) = n
    BY <1>4, Listed
  <2> QED
    BY <1>4, <2>1 DEF Listing
<1>6. Known(e, w, x)
  <2>1. CASE b[i][1] = "byte"
    <3>1. PICK v : v = b[i][2]
      OBVIOUS
    <3>2. v \in 0 .. Base - 1
      <4>1. IsByte(b[i])
        BY Zenon DEF Known
      <4> QED
        BY <2>1, <3>1, <4>1 DEF IsByte, Value
    <3>3. (v + c) % Base \in 0 .. Base - 1
      <4>1. v + c \in Nat /\ Base \in Nat \ {0}
        BY <3>2, BaseAssumption, ChangesAssumption
      <4> QED
        BY <4>1, Division
    <3>4. x = Byte((v + c) % Base)
      BY <1>2, <2>1, <3>1
    <3>5. x \in Digits
      BY <3>3, <3>4 DEF Digits
    <3>6. IsByte(x) /\ x[1] = "byte"
      BY <3>5, DigitIsByte
    <3>7. x[1] \notin {"tag", "cbc"}
      BY <3>6
    <3> QED
      BY <3>6, <3>7, Zenon DEF Known
  <2>2. CASE b[i][1] # "byte"
    <3>1. x = <<"other", i>>
      BY <1>2, <2>2
    <3>2. x[1] = "other"
      BY <3>1
    <3>3. x[1] # "byte" /\ x[1] \notin {"tag", "cbc"}
      BY <3>2
    <3>4. IsByte(x)
      BY <3>3, MadeIsByte
    <3> QED
      BY <3>3, <3>4, Zenon DEF Known
  <2> QED
    BY <2>1, <2>2
<1>7. Kept(b, b2, i)
  <2>1. i - 1 <= Len(b2) /\ Len(b2) \in Nat
    BY <1>1, <1>5
  <2>2. \A j \in 1 .. i - 1 : b2[j] = b[j]
    BY <1>1, <1>4
  <2> QED
    BY <1>5, <2>1, <2>2, Zenon DEF Kept
<1>8. \A j \in DOMAIN b2 : Known(e, w, b2[j])
  BY <1>1, <1>4, <1>6
<1> QED
  BY <1>7, <1>8

\* A datagram cut off: the bytes before the cut stay.
LEMMA EndCut ==
    ASSUME NEW e, NEW w, NEW b, Listing(b), \A j \in DOMAIN b : Known(e, w, b[j]),
           NEW i \in DOMAIN b, NEW b2, b2 = SubSeq(b, 1, i - 1)
    PROVE  Kept(b, b2, i) /\ \A j \in DOMAIN b2 : Known(e, w, b2[j])
<1>1. PICK n \in Nat : n = Len(b) /\ DOMAIN b = 1 .. n /\ b \in Seq(Range(b))
  BY ListingLength
<1>2. i \in 1 .. n
  BY <1>1
<1>3. /\ b2 \in Seq(Range(b)) /\ Len(b2) = i - 1 /\ \A j \in 1 .. i - 1 : b2[j] = b[j]
  BY <1>1, <1>2
<1>4. Listing(b2) /\ DOMAIN b2 = 1 .. i - 1 /\ Len(b2) \in Nat
  BY <1>3, SeqListing
<1>5. Kept(b, b2, i)
  <2>1. i - 1 <= Len(b2)
    BY <1>2, <1>3
  <2> QED
    BY <1>3, <1>4, <2>1, Zenon DEF Kept
<1>6. \A j \in DOMAIN b2 : Known(e, w, b2[j])
  <2> TAKE j \in DOMAIN b2
  <2>1. j \in DOMAIN b /\ j \in 1 .. i - 1
    BY <1>1, <1>2, <1>4
  <2> QED
    BY <1>3, <2>1
<1> QED
  BY <1>5, <1>6

\* What ends in front of the damage is where it was.
LEMMA CarriesKept ==
    ASSUME NEW e, EndsOK(e), NEW out, NEW n, NEW w, Writes(e, out, n, w),
           NEW b, Carries(e, w, b, 0), NEW i \in DOMAIN b, NEW b2, Kept(b, b2, i),
           \A j \in DOMAIN b2 : Known(e, w, b2[j])
    PROVE  Carries(e, w, b2, i)
<1>1. /\ Listing(b) /\ \A j \in DOMAIN w : At(b, Start(w, j), RecordOf(e, w[j].packet))
  BY Zenon DEF Carries, Good
<1>2. /\ Listing(w) /\ \A j \in DOMAIN w : Wrote(e, w[j], j - 1, Start(w, j))
  BY Zenon DEF Writes
<1>3. PICK m : m = Len(w) /\ m \in Nat /\ DOMAIN w = 1 .. m
  BY <1>2, ListingLength
<1>4. /\ Listing(b2) /\ Len(b2) \in Nat /\ i - 1 <= Len(b2)
      /\ \A j \in 1 .. i - 1 : b2[j] = b[j]
  BY Zenon DEF Kept
<1>5. i \in Nat /\ i # 0
  <2>1. Len(b) \in Nat /\ DOMAIN b = 1 .. Len(b)
    BY <1>1, ListingLength
  <2> QED
    BY <2>1
<1>6. i \in 0 .. Len(b2) + 1
  BY <1>4, <1>5
<1>7. ASSUME NEW j \in DOMAIN w, Good(w, i, j)
      PROVE  At(b2, Start(w, j), RecordOf(e, w[j].packet))
  <2>1. PICK o, r, end, l : /\ o = Start(w, j) /\ r = RecordOf(e, w[j].packet)
                            /\ end = w[j].end /\ l = Len(r)
    OBVIOUS
  <2>2. At(b, o, r)
    BY <1>1, <2>1
  <2>3. o \in Nat
    <3>1. j \in 1 .. m + 1
      BY <1>3
    <3> QED
      BY <1>3, <2>1, <3>1, StartIn
  <2>4. end = o + l /\ end \in Nat
    BY <1>2, <2>1, Zenon DEF Wrote
  <2>5. end < i
    BY <1>5, <1>7, <2>1, Zenon DEF Good
  <2>6. \A k \in 1 .. l : b[o + k] = r[k]
    BY <2>1, <2>2, Zenon DEF At
  <2>7. l \in Nat
    <3>1. e[5] \in Nat /\ Wrote(e, w[j], j - 1, o)
      BY <1>2, <2>1, Zenon DEF EndsOK
    <3>2. PICK msg, k : msg = w[j].message /\ k = e[5] + (j - 1) /\ k \in Nat
      BY <1>3, <3>1
    <3>3. Encodable(msg) /\ w[j].packet = PacketOf(msg, k)
      BY <3>1, <3>2, Zenon DEF Wrote
    <3> QED
      BY <2>1, <3>2, <3>3, RecordKnown
  <2>8. o + l <= Len(b2) /\ \A k \in 1 .. l : o + k \in 1 .. i - 1
    BY <1>4, <1>5, <2>3, <2>4, <2>5, <2>7
  <2>9. \A k \in 1 .. l : b2[o + k] = r[k]
    BY <1>4, <2>6, <2>8
  <2> QED
    BY <1>4, <2>1, <2>8, <2>9, Zenon DEF At
<1> QED
  BY <1>4, <1>5, <1>6, <1>7, Zenon DEF Carries

-----------------------------------------------------------------------------
(* Records are parsed.                                                      *)

\* A record in front of an unharmed one is unharmed, and ends where that begins.
LEMMA UnharmedBefore ==
    ASSUME NEW e, EndsOK(e), NEW out, NEW n, NEW w, Writes(e, out, n, w),
           NEW d \in Nat, NEW k \in Nat \ {0}, Unharmed(w, d, k + 1)
    PROVE  Unharmed(w, d, k) /\ Start(w, k + 1) = w[k].end
<1>1. Listing(w) /\ \A i \in DOMAIN w : Wrote(e, w[i], i - 1, Start(w, i))
  BY Zenon DEF Writes
<1>2. PICK m : m = Len(w) /\ m \in Nat /\ DOMAIN w = 1 .. m
  BY <1>1, ListingLength
<1>3. k + 1 \in DOMAIN w /\ Good(w, d, k + 1)
  BY Zenon DEF Unharmed
<1>4. k \in DOMAIN w
  BY <1>2, <1>3
<1>5. Start(w, k + 1) = w[k].end
  <2>1. k + 1 # 1 /\ (k + 1) - 1 = k
    OBVIOUS
  <2> QED
    BY <2>1, Zenon DEF Start
<1>6. PICK x, l : x = w[k + 1] /\ l = Len(RecordOf(e, x.packet))
  OBVIOUS
<1>7. x.end = w[k].end + l /\ x.end \in Nat /\ w[k].end \in Nat
  <2>1. Wrote(e, x, (k + 1) - 1, Start(w, k + 1))
    BY <1>1, <1>3, <1>6, Zenon
  <2>2. Wrote(e, w[k], k - 1, Start(w, k))
    BY <1>1, <1>4, Zenon
  <2> QED
    BY <1>5, <1>6, <2>1, <2>2, Zenon DEF Wrote
<1>8. l \in Nat
  <2>1. e[5] \in Nat /\ Wrote(e, x, (k + 1) - 1, Start(w, k + 1))
    BY <1>1, <1>3, <1>6, Zenon DEF EndsOK
  <2>2. PICK msg, j : msg = x.message /\ j = e[5] + ((k + 1) - 1) /\ j \in Nat
    BY <2>1
  <2>3. Encodable(msg) /\ x.packet = PacketOf(msg, j)
    BY <2>1, <2>2, Zenon DEF Wrote
  <2> QED
    BY <1>6, <2>2, <2>3, RecordKnown
<1>9. Good(w, d, k)
  <2>1. d = 0 \/ x.end < d
    BY <1>3, <1>6, Zenon DEF Good
  <2>2. d = 0 \/ w[k].end < d
    BY <1>7, <1>8, <2>1
  <2> QED
    BY <2>2, Zenon DEF Good
<1> QED
  BY <1>4, <1>5, <1>9, Zenon DEF Unharmed

\* What is parsed where an unharmed record stands.
PacketParsed(p) == [type |-> p.value[1], version |-> p.value[2], epoch |-> p.value[3],
                    sequence_number |-> p.value[4], fragment |-> p.value[5]]

\* An unharmed record is parsed as the packet it was made of.
LEMMA UnharmedParsed ==
    ASSUME NEW e, EndsOK(e), NEW out, NEW n, NEW w, Writes(e, out, n, w),
           NEW b, NEW d \in Nat, Carries(e, w, b, d),
           NEW i, Unharmed(w, d, i), NEW p, p = from(DTLSCiphertext, b, Start(w, i))
    PROVE  /\ PacketParsed(p) = WireForm(e, w[i].packet) /\ p.end = w[i].end
           /\ p.end \in Nat /\ p.end # Thrown /\ ~ (p.end <= Start(w, i))
<1>1. Listing(w) /\ \A j \in DOMAIN w : Wrote(e, w[j], j - 1, Start(w, j))
  BY Zenon DEF Writes
<1>2. PICK m : m = Len(w) /\ m \in Nat /\ DOMAIN w = 1 .. m
  BY <1>1, ListingLength
<1>3. i \in DOMAIN w /\ Good(w, d, i)
  BY Zenon DEF Unharmed
<1>4. PICK x, o, k, q, c, r :
          /\ x = w[i] /\ o = Start(w, i) /\ k = e[5] + (i - 1) /\ q = x.packet
          /\ c = Ciphertext(e, q) /\ r = RecordOf(e, q)
  OBVIOUS
<1>5. o \in Nat /\ k \in Nat
  <2>1. i \in 1 .. m + 1 /\ i \in 1 .. m
    BY <1>2, <1>3
  <2>2. e[5] \in Nat
    BY Zenon DEF EndsOK
  <2>3. o \in Nat
    BY <1>2, <1>4, <2>1, StartIn
  <2> QED
    BY <1>2, <1>4, <2>1, <2>2, <2>3
<1>6. Encodable(x.message) /\ q = PacketOf(x.message, k) /\ x.end = o + Len(r)
  <2>1. Wrote(e, x, i - 1, o)
    BY <1>1, <1>3, <1>4, Zenon
  <2> QED
    BY <1>4, <2>1, Zenon DEF Wrote
<1>7. At(b, o, r)
  BY <1>3, <1>4, Zenon DEF Carries
<1>8. PICK S : S = Parts(c) \cup Digits
  OBVIOUS
<1>9. PICK msg : msg = x.message
  OBVIOUS
<1>10. Sendable(q, c, S) /\ q.type = msg.type
  <2>1. Encodable(msg) /\ q = PacketOf(msg, k) /\ c = Ciphertext(e, q) /\ k \in Nat
    BY <1>4, <1>5, <1>6, <1>9
  <2>2. Sendable(q, c, Parts(c) \cup Digits) /\ q.type = msg.type
    BY <2>1, CiphertextBytes
  <2> QED
    BY <1>8, <2>2
<1>11. Len(r) \in Nat \ {0}
  BY <1>4, <1>5, <1>6, <1>9, RecordKnown
<1>12. r = Record(q, c)
  BY <1>4, Zenon DEF RecordOf
<1>13. p.value = Fields(q, c) /\ p.end = o + Len(r)
  <2>1. Digits \subseteq S /\ p = from(DTLSCiphertext, b, o)
    BY <1>4, <1>8
  <2> QED
    BY <1>5, <1>7, <1>10, <1>12, <2>1, RecordRead
<1>14. PacketParsed(p) = WireForm(e, q)
  <2>1. PICK v : v = p.value
    OBVIOUS
  <2>2. /\ v[1] = q.type /\ v[2] = DTLSVersion /\ v[3] = Epoch
        /\ v[4] = q.sequence_number % NumberLimit /\ v[5] = c
    BY <1>13, <2>1 DEF Fields
  <2> QED
    BY <1>4, <2>1, <2>2, Zenon DEF PacketParsed, WireForm
<1>15. p.end \in Nat /\ ~ (p.end <= o)
  BY <1>5, <1>11, <1>13
<1>16. p.end # Thrown
  BY <1>15, NoNumbers
<1> QED
  BY <1>4, <1>6, <1>13, <1>14, <1>15, <1>16, Zenon

\* Whatever else is parsed is a packet, too.
LEMMA ParsedPacket ==
    ASSUME NEW e, NEW w, NEW b, NEW d, Carries(e, w, b, d), NEW o \in Nat,
           NEW p, p = from(DTLSCiphertext, b, o), p.end # Thrown
    PROVE  PacketOK(e, w, PacketParsed(p)) /\ p.end \in Nat
<1>1. Listing(b) /\ \A i \in DOMAIN b : Known(e, w, b[i])
  BY Zenon DEF Carries
<1>2. \A i \in DOMAIN b : IsByte(b[i])
  BY <1>1, Zenon DEF Known
<1>3. Parsed(p, b)
  BY <1>1, <1>2, AnyRecord
<1>4. PICK v, x : v = p.value /\ x = PacketParsed(p)
  OBVIOUS
<1>5. /\ p.end \in Nat /\ v[1] \in 0 .. Base - 1 /\ v[3] \in 0 .. Largest(2) /\ v[4] \in Nat
      /\ Listing(v[5])
      /\ \A i \in DOMAIN v[5] : v[5][i] = Unwritten \/ v[5][i] \in Parts(b)
  BY <1>3, <1>4, Zenon DEF Parsed
<1>6. x = [type |-> v[1], version |-> v[2], epoch |-> v[3], sequence_number |-> v[4],
           fragment |-> v[5]]
  BY <1>4, Zenon DEF PacketParsed
<1>7. /\ x.type = v[1] /\ x.version = v[2] /\ x.epoch = v[3] /\ x.sequence_number = v[4]
      /\ x.fragment = v[5]
  BY <1>6
<1>8. \A y \in Parts(b) : Known(e, w, y)
  BY <1>1 DEF Parts
<1>9. \A i \in DOMAIN v[5] : v[5][i] = Unwritten \/ Known(e, w, v[5][i])
  BY <1>5, <1>8, Zenon
<1>10. PacketOK(e, w, x)
  BY <1>5, <1>6, <1>7, <1>9, Zenon DEF PacketOK
<1> QED
  BY <1>4, <1>5, <1>10

\* A turn of the loop that parses, from the start of an unharmed record to its
\* end, or at a record that is not.
OneTurn(e, w, d, b, ps, k, p, off) ==
    IF p.end = Thrown \/ p.end <= off
    THEN Follows(e, w, d, Len(b), ps, 0, k)
    ELSE Follows(e, w, d, p.end, Append(ps, PacketParsed(p)), 0, k + 1)

\* One turn of the parsing loop: the next record is the next of those written,
\* unless the damage comes before its end.
LEMMA ParseFollows ==
    ASSUME NEW e, EndsOK(e), NEW out, NEW n, NEW w, Writes(e, out, n, w),
           NEW b, NEW d \in Nat, Carries(e, w, b, d), NEW off \in Nat, off < Len(b),
           NEW ps, Listing(ps), NEW k \in Nat, Follows(e, w, d, off, ps, 0, k),
           NEW p, p = from(DTLSCiphertext, b, off)
    PROVE  OneTurn(e, w, d, b, ps, k, p, off)
<1>1. Listing(w) /\ Listing(b) /\ (d = 0 => Len(b) = Start(w, Len(w) + 1))
  BY Zenon DEF Writes, Carries
<1>2. PICK m : m = Len(w) /\ m \in Nat /\ DOMAIN w = 1 .. m
  BY <1>1, ListingLength
<1>3. /\ k = 0 + Len(ps)
      /\ \A i \in DOMAIN w : Good(w, d, i) /\ i > 0 /\ i <= k => ps[i - 0] = WireForm(e, w[i].packet)
      /\ d = 0 => k <= m
      /\ d = 0 \/ Unharmed(w, d, k + 1) => off = Start(w, k + 1)
  BY <1>2, Zenon DEF Follows
<1>4. PICK ps2, x : ps2 = Append(ps, x) /\ x = PacketParsed(p)
  OBVIOUS
<1>5. Len(ps2) = k + 1 /\ ps2[k + 1] = x /\ \A i \in 1 .. k : ps2[i] = ps[i]
  <2>1. ps \in Seq(Range(ps)) /\ Len(ps) = k /\ k \in Nat
    BY <1>3, ListingLength
  <2>2. PICK S : S = Range(ps) \cup {x}
    OBVIOUS
  <2>3. ps \in Seq(S) /\ x \in S
    BY <2>1, <2>2
  <2> QED
    BY <1>4, <2>1, <2>3
<1>6. k + 1 = 0 + Len(ps2)
  BY <1>5
<1>7. \A i \in DOMAIN w : Good(w, d, i) /\ i > 0 /\ i <= k => ps2[i - 0] = WireForm(e, w[i].packet)
  <2> TAKE i \in DOMAIN w
  <2> HAVE Good(w, d, i) /\ i > 0 /\ i <= k
  <2>1. i \in 1 .. k /\ i - 0 = i
    BY <1>2
  <2>2. ps[i] = WireForm(e, w[i].packet)
    BY <1>3, <2>1
  <2> QED
    BY <1>5, <2>1, <2>2
<1>8. CASE Unharmed(w, d, k + 1)
  <2>1. off = Start(w, k + 1) /\ k + 1 \in DOMAIN w
    BY <1>3, <1>8, Zenon DEF Unharmed
  <2>2. PICK j : j = k + 1
    OBVIOUS
  <2>3. p = from(DTLSCiphertext, b, Start(w, j)) /\ Unharmed(w, d, j)
    BY <1>8, <2>1, <2>2
  <2>4. /\ PacketParsed(p) = WireForm(e, w[j].packet) /\ p.end = w[j].end
        /\ p.end \in Nat /\ p.end # Thrown /\ ~ (p.end <= Start(w, j))
    BY <2>3, UnharmedParsed
  <2>5. Follows(e, w, d, p.end, ps2, 0, j)
    <3>1. j = 0 + Len(ps2) /\ j \in Nat /\ j # 0 /\ j \in 1 .. m
      BY <1>2, <1>6, <2>1, <2>2
    <3>2. \A i \in DOMAIN w : Good(w, d, i) /\ i > 0 /\ i <= j => ps2[i - 0] = WireForm(e, w[i].packet)
      <4> TAKE i \in DOMAIN w
      <4> HAVE Good(w, d, i) /\ i > 0 /\ i <= j
      <4>1. CASE i <= k
        BY <1>7, <4>1
      <4>2. CASE ~ (i <= k)
        <5>1. i = j /\ i - 0 = j
          BY <1>2, <2>2, <3>1, <4>2
        <5>2. ps2[j] = x
          BY <1>5, <2>2
        <5> QED
          BY <1>4, <2>4, <5>1, <5>2
      <4> QED
        BY <4>1, <4>2
    <3>3. d = 0 => j <= Len(w)
      BY <1>2, <3>1
    <3>4. p.end = Start(w, j + 1)
      <4>1. j + 1 # 1 /\ (j + 1) - 1 = j
        BY <3>1
      <4> QED
        BY <2>4, <4>1, Zenon DEF Start
    <3> QED
      BY <3>1, <3>2, <3>3, <3>4, Zenon DEF Follows
  <2>6. ~ (p.end = Thrown \/ p.end <= off)
    BY <2>1, <2>2, <2>4
  <2> QED
    BY <1>4, <2>2, <2>5, <2>6, Zenon DEF OneTurn
<1>9. CASE ~ Unharmed(w, d, k + 1)
  <2>1. d # 0
    <3> SUFFICES ASSUME d = 0 PROVE FALSE
      OBVIOUS
    <3>1. k + 1 \notin DOMAIN w
      BY <1>9, Zenon DEF Unharmed, Good
    <3>2. k = m
      BY <1>2, <1>3, <3>1
    <3>3. off = Len(b)
      BY <1>1, <1>2, <1>3, <3>2
    <3> QED
      BY <3>3
  <2>2. Follows(e, w, d, Len(b), ps, 0, k)
    BY <1>3, <1>9, <2>1, Zenon DEF Follows
  <2>3. Follows(e, w, d, p.end, ps2, 0, k + 1)
    <3>1. \A i \in DOMAIN w : Good(w, d, i) /\ i > 0 /\ i <= k + 1 => ps2[i - 0] = WireForm(e, w[i].packet)
      <4> TAKE i \in DOMAIN w
      <4> HAVE Good(w, d, i) /\ i > 0 /\ i <= k + 1
      <4>1. i # k + 1
        BY <1>9, Zenon DEF Unharmed
      <4>2. i <= k
        BY <1>2, <4>1
      <4> QED
        BY <1>7, <4>2
    <3>2. ~ Unharmed(w, d, (k + 1) + 1)
      <4>1. PICK j : j = k + 1 /\ j \in Nat \ {0}
        OBVIOUS
      <4>2. ~ Unharmed(w, d, j)
        BY <1>9, <4>1
      <4>3. ~ Unharmed(w, d, j + 1)
        BY <4>1, <4>2, UnharmedBefore
      <4> QED
        BY <4>1, <4>3
    <3> QED
      BY <1>6, <2>1, <3>1, <3>2, Zenon DEF Follows
  <2> QED
    BY <1>4, <2>2, <2>3, Zenon DEF OneTurn
<1> QED
  BY <1>8, <1>9

-----------------------------------------------------------------------------
(* Packets are deciphered.                                                  *)

\* Numbers below a limit stay what they are, those beyond it start again.
LEMMA BelowLimit ==
    ASSUME NEW l \in Nat \ {0}, NEW x \in Nat, x < l
    PROVE  x % l = x
<1>1. x \div l \in Nat /\ x % l \in 0 .. l - 1 /\ x = l * (x \div l) + (x % l)
  BY Division
<1>2. PICK q, r : q = x \div l /\ r = x % l
  OBVIOUS
<1>3. q \in Nat /\ r \in 0 .. l - 1 /\ x = l * q + r
  BY <1>1, <1>2, Zenon
<1>4. q = 0
  <2> SUFFICES ASSUME q >= 1 PROVE FALSE
    BY <1>3
  <2>1. l * q >= l
    BY <1>3, SMTT(30)
  <2> QED
    BY <1>3, <2>1
<1>5. l * q = 0
  BY <1>4
<1> QED
  BY <1>2, <1>3, <1>5

\* A number that has wrapped around is below the numbers it started from.
LEMMA StartsAgain ==
    ASSUME NEW l \in Nat \ {0}, NEW x \in Nat, NEW f \in Nat, ~ (x < l), x < f + l
    PROVE  x % l < f
<1>1. x \div l \in Nat /\ x % l \in 0 .. l - 1 /\ x = l * (x \div l) + (x % l)
  BY Division
<1>2. PICK q, r : q = x \div l /\ r = x % l
  OBVIOUS
<1>3. q \in Nat /\ r \in 0 .. l - 1 /\ x = l * q + r
  BY <1>1, <1>2, Zenon
<1>4. q # 0
  <2> SUFFICES ASSUME q = 0 PROVE FALSE
    OBVIOUS
  <2>1. l * q = 0
    OBVIOUS
  <2> QED
    BY <1>3, <2>1
<1>5. l * q >= l
  <2>1. q >= 1
    BY <1>3, <1>4
  <2> QED
    BY <1>3, <2>1, SMTT(30)
<1>6. r + l <= x
  BY <1>3, <1>5
<1> QED
  BY <1>2, <1>3, <1>6

\* A packet has the bytes of its message.
LEMMA PacketMade ==
    ASSUME NEW msg, Encodable(msg), NEW n \in Nat, NEW p, p = PacketOf(msg, n)
    PROVE  /\ p.type \in 0 .. Base - 1 /\ p.sequence_number = n
           /\ p.fragment \in Seq(Digits) /\ p.version = DTLSVersion /\ p.epoch = Epoch
<1>1. /\ p.type = msg.type /\ p.version = DTLSVersion /\ p.epoch = Epoch
      /\ p.sequence_number = n /\ p.fragment = Data(msg)
  BY DEF PacketOf
<1>2. PICK f : f = Data(msg)
  OBVIOUS
<1>3. msg.type \in 0 .. Base - 1 /\ f \in Seq(Digits)
  BY <1>2, DataBytes
<1> QED
  BY <1>1, <1>2, <1>3

\* What a written packet is.
LEMMA PacketWritten ==
    ASSUME NEW e, EndsOK(e), NEW out, NEW n, NEW w, Writes(e, out, n, w),
           NEW h \in Nat, h + 1 \in DOMAIN w, NEW x, x = w[h + 1].packet
    PROVE  /\ h < width /\ x.sequence_number = e[5] + h /\ e[5] \in Nat
           /\ x = [type |-> x.type, version |-> DTLSVersion, epoch |-> Epoch,
                   sequence_number |-> e[5] + h, fragment |-> x.fragment]
           /\ x.fragment \in Seq(Digits) /\ x.type \in 0 .. Base - 1
           /\ w[h + 1].packet = PacketOf(w[h + 1].message, e[5] + h)
           /\ Encodable(w[h + 1].message)
<1>1. /\ Listing(w) /\ Listing(out) /\ Len(w) + Len(out) <= width
      /\ \A i \in DOMAIN w : Wrote(e, w[i], i - 1, Start(w, i))
  BY Zenon DEF Writes
<1>2. PICK m, l : /\ m = Len(w) /\ l = Len(out) /\ m \in Nat /\ l \in Nat
                  /\ DOMAIN w = 1 .. m
  BY <1>1, ListingLength
<1>3. e[5] \in Nat
  BY Zenon DEF EndsOK
<1>4. PICK k, msg : k = e[5] + h /\ msg = w[h + 1].message
  OBVIOUS
<1>5. h < width
  <2>1. m + l <= width /\ width \in Nat
    BY <1>1, <1>2 DEF width
  <2> QED
    BY <1>2, <2>1
<1>6. k \in Nat
  BY <1>3, <1>4
<1>7. Encodable(msg) /\ x = PacketOf(msg, k)
  <2>1. (h + 1) - 1 = h
    OBVIOUS
  <2>2. Wrote(e, w[h + 1], h, Start(w, h + 1))
    BY <1>1, <2>1
  <2> QED
    BY <1>4, <2>2, Zenon DEF Wrote
<1>8. /\ x.type \in 0 .. Base - 1 /\ x.sequence_number = k
      /\ x.fragment \in Seq(Digits) /\ x.version = DTLSVersion /\ x.epoch = Epoch
  BY <1>6, <1>7, PacketMade
<1>9. x = [type |-> x.type, version |-> DTLSVersion, epoch |-> Epoch,
           sequence_number |-> k, fragment |-> x.fragment]
  BY <1>7, <1>8 DEF PacketOf
<1> QED
  BY <1>3, <1>4, <1>5, <1>7, <1>8, <1>9

\* Where a record is safe, the one before it is.
LEMMA SafeBefore ==
    ASSUME NEW e, EndsOK(e), NEW out, NEW n, NEW w, Writes(e, out, n, w),
           NEW d \in Nat, NEW k \in Nat \ {0}, k + 1 \in DOMAIN w, Safe(w, d, k + 1)
    PROVE  k \in DOMAIN w /\ Safe(w, d, k)
<1>1. Unharmed(w, d, k + 1) /\ w[k + 1].packet.sequence_number < NumberLimit
  BY Zenon DEF Unharmed, Safe
<1>2. Unharmed(w, d, k)
  BY <1>1, UnharmedBefore
<1>3. k \in DOMAIN w /\ Good(w, d, k)
  BY <1>2, Zenon DEF Unharmed
<1>4. PICK h : h = k - 1 /\ h \in Nat /\ h + 1 = k
  <2>1. k - 1 \in Nat /\ (k - 1) + 1 = k
    OBVIOUS
  <2> QED
    BY <2>1
<1>5. w[k].packet.sequence_number = e[5] + h /\ e[5] \in Nat
  <2>1. h + 1 \in DOMAIN w
    BY <1>3, <1>4
  <2>2. PICK x : x = w[h + 1].packet
    OBVIOUS
  <2>3. x.sequence_number = e[5] + h /\ e[5] \in Nat
    BY <1>4, <2>1, <2>2, PacketWritten
  <2> QED
    BY <1>4, <2>2, <2>3
<1>6. w[k + 1].packet.sequence_number = e[5] + k
  <2>1. PICK x : x = w[k + 1].packet
    OBVIOUS
  <2>2. x.sequence_number = e[5] + k
    BY <2>1, PacketWritten
  <2> QED
    BY <2>1, <2>2
<1>7. w[k].packet.sequence_number < NumberLimit
  <2>1. NumberLimit \in Nat
    BY PowersGrow
  <2> QED
    BY <1>1, <1>4, <1>5, <1>6, <2>1
<1> QED
  BY <1>3, <1>7, Zenon DEF Safe

\* The filter of a reader that has got everything before number f.
InWindow(f, p) ==
    /\ p.epoch \in {Epoch, Epoch + 1}
    /\ p.epoch = Epoch => p.sequence_number >= f
    /\ p.sequence_number <= width + IF p.epoch = Epoch /\ f > width
                                     THEN f - 1 ELSE width - 1

\* The reader has the keys of the writer and reads under them, or there are none.
Readers(e) == (e[2] # e[3] /\ e[4] = "this") \/ e[1].cipherType = "null"

\* Content that is enciphered by one end is deciphered by the other.
LEMMA ContentBack ==
    ASSUME NEW e, EndsOK(e), Readers(e),
           NEW x, NEW f, f = x.fragment, f \in Seq(Digits), NEW n,
           x = [type |-> x.type, version |-> DTLSVersion, epoch |-> Epoch,
                sequence_number |-> n, fragment |-> f],
           NEW p, p = Wire(x, Ciphertext(e, x)),
           NEW data, data = Deciphered(e[1], p, KeysOf(e[1], Association("this")), e[3])
    PROVE  data = f /\ data # Rejected
<1>1. PICK suite, connEnd, material :
          /\ suite = e[1] /\ connEnd = e[2] /\ material = KeysOf(e[1], Association(e[4]))
  OBVIOUS
<1>2. PICK name \in DOMAIN CipherSuites : suite = CipherSuites[name]
  BY <1>1, Zenon DEF EndsOK, Suite
<1>3. /\ suite.cipherType \in {"null", "block", "aead"}
      /\ suite.cipherType = "block" =>
             /\ suite.algorithm \in DOMAIN BlockCipherParameters
             /\ suite.macAlgorithm \in DOMAIN HMACLength
      /\ suite.cipherType = "aead" => suite.algorithm \in DOMAIN AEADCipherParameters
  BY <1>2, SuiteLengths
<1>4. p = Wire(x, Enciphered(suite, x, material, connEnd))
  BY <1>1, Zenon DEF Ciphertext
<1>5. PICK T, V, E, N : x \in [type : T, version : V, epoch : E, sequence_number : N,
                              fragment : Seq(Digits)]
  <2>1. x \in [type : {x.type}, version : {DTLSVersion}, epoch : {Epoch}, sequence_number : {n},
               fragment : Seq(Digits)]
    OBVIOUS
  <2> QED
    BY <2>1, Zenon
<1>6. connEnd \in Ends /\ e[3] \in Ends
  BY <1>1, Zenon DEF EndsOK
<1>7. data = f
  <2>1. CASE suite.cipherType = "null"
    <3>1. Enciphered(suite, x, material, connEnd) = x.fragment
      BY <2>1 DEF Enciphered
    <3>2. p.fragment = x.fragment
      BY <1>4, <1>5, <3>1 DEF Wire
    <3>3. data = p.fragment
      BY <1>1, <2>1 DEF Deciphered
    <3> QED
      BY <3>2, <3>3
  <2>2. CASE suite.cipherType # "null"
    <3>1. e[2] # e[3] /\ e[4] = "this"
      BY <1>1, <2>2, Zenon DEF Readers
    <3>2. e[3] = sourceConnEnd(connEnd)
      BY <1>1, <1>6, <3>1 DEF sourceConnEnd, Ends
    <3>3. data = Deciphered(suite, p, material, sourceConnEnd(connEnd))
      BY <1>1, <3>1, <3>2, Zenon
    <3>4. CASE suite.cipherType = "block"
      <4>1. Enciphered(suite, x, material, connEnd) = blockCipher(suite, x, material, connEnd)
        BY <3>4 DEF Enciphered
      <4>2. data = blockDecipher(suite, p, material, sourceConnEnd(connEnd))
        BY <3>3, <3>4 DEF Deciphered
      <4>3. blockDecipher(suite, Wire(x, blockCipher(suite, x, material, connEnd)),
                          material, sourceConnEnd(connEnd)) = x.fragment
        BY <1>3, <1>5, <1>6, <3>4, BlockUndone
      <4> QED
        BY <1>4, <4>1, <4>2, <4>3, Zenon
    <3>5. CASE suite.cipherType = "aead"
      <4>1. Enciphered(suite, x, material, connEnd) = aeadCipher(suite, x, material, connEnd)
        BY <3>5 DEF Enciphered
      <4>2. data = aeadDecipher(suite, p, material, sourceConnEnd(connEnd))
        BY <3>3, <3>5 DEF Deciphered
      <4>3. aeadDecipher(suite, Wire(x, aeadCipher(suite, x, material, connEnd)),
                          material, sourceConnEnd(connEnd)) = x.fragment
        BY <1>3, <1>5, <1>6, <3>5, AEADUndone
      <4> QED
        BY <1>4, <4>1, <4>2, <4>3, Zenon
    <3> QED
      BY <1>3, <2>2, <3>4, <3>5
  <2> QED
    BY <2>1, <2>2
<1>8. data # Rejected
  BY <1>7, NoContentRejected
<1> QED
  BY <1>7, <1>8

\* A packet is handed on, and is the one that was written.
GoesThrough(e, p, data, x) ==
    data # Rejected /\ [p EXCEPT !.fragment = data] = x /\ InWindow(e[5], p)

\* What is read for a record that is unharmed and has a number an integer holds.
LEMMA SafeRead ==
    ASSUME NEW e, EndsOK(e), Readers(e), NEW out, NEW n, NEW w, Writes(e, out, n, w),
           NEW h \in Nat, h + 1 \in DOMAIN w, NEW x, x = w[h + 1].packet,
           x.sequence_number < NumberLimit, NEW p, p = WireForm(e, x),
           NEW data, data = Deciphered(e[1], p, KeysOf(e[1], Association("this")), e[3])
    PROVE  GoesThrough(e, p, data, x)
<1>1. PICK f, k, c : f = x.fragment /\ k = e[5] + h /\ c = Ciphertext(e, x)
  OBVIOUS
<1>2. /\ h < width /\ x.sequence_number = k /\ e[5] \in Nat
      /\ x = [type |-> x.type, version |-> DTLSVersion, epoch |-> Epoch,
              sequence_number |-> k, fragment |-> f]
      /\ f \in Seq(Digits)
  <2>1. /\ h < width /\ x.sequence_number = e[5] + h /\ e[5] \in Nat
        /\ x = [type |-> x.type, version |-> DTLSVersion, epoch |-> Epoch,
                sequence_number |-> e[5] + h, fragment |-> x.fragment]
        /\ x.fragment \in Seq(Digits)
    BY PacketWritten
  <2> QED
    BY <1>1, <2>1, Zenon
<1>3. k % NumberLimit = k /\ k \in Nat
  <2>1. k < NumberLimit
    BY <1>2, Zenon
  <2>2. NumberLimit \in Nat /\ k \in Nat /\ NumberLimit \in Nat \ {0}
    <3>1. NumberLimit = Power[4] /\ Power[4] \in Nat /\ Power[4] > 128
      BY PowersGrow
    <3>2. k \in Nat
      BY <1>1, <1>2
    <3> QED
      BY <3>1, <3>2
  <2> QED
    BY <2>1, <2>2, BelowLimit
<1>4. p = [type |-> x.type, version |-> DTLSVersion, epoch |-> Epoch,
           sequence_number |-> k, fragment |-> c]
  BY <1>1, <1>2, <1>3, Zenon DEF WireForm
<1>5. p = Wire(x, c)
  BY <1>2, <1>4 DEF Wire
<1>6. data = f /\ data # Rejected
  <2>1. p = Wire(x, Ciphertext(e, x))
    BY <1>1, <1>5
  <2> QED
    BY <1>1, <1>2, <2>1, ContentBack
<1>7. [p EXCEPT !.fragment = data] = x
  BY <1>2, <1>4, <1>6
<1>8. p.epoch = Epoch /\ p.sequence_number = k
  BY <1>4
<1>9. InWindow(e[5], p)
  <2>1. PICK g : g = e[5] /\ g \in Nat /\ k = g + h
    BY <1>1, <1>2
  <2>2. k >= g /\ k <= width + IF g > width THEN g - 1 ELSE width - 1
    BY <1>2, <2>1 DEF width
  <2> QED
    BY <1>8, <2>1, <2>2 DEF InWindow
<1> QED
  BY <1>6, <1>7, <1>9, Zenon DEF GoesThrough

\* A number that starts again is refused as old.
LEMMA WrappedRefused ==
    ASSUME NEW e, EndsOK(e), NEW out, NEW n, NEW w, Writes(e, out, n, w),
           NEW h \in Nat, h + 1 \in DOMAIN w, NEW x, x = w[h + 1].packet,
           ~ (x.sequence_number < NumberLimit), NEW p, p = WireForm(e, x)
    PROVE  ~ InWindow(e[5], p)
<1>1. h < width /\ x.sequence_number = e[5] + h /\ e[5] \in Nat
  BY PacketWritten
<1>2. PICK k, f, l : k = e[5] + h /\ f = e[5] /\ l = NumberLimit
  OBVIOUS
<1>3. k \in Nat /\ f \in Nat /\ l \in Nat \ {0} /\ ~ (k < l) /\ k < f + l
  <2>1. NumberLimit \in Nat /\ NumberLimit > 128 /\ width = 64
    BY PowersGrow DEF width
  <2> QED
    BY <1>1, <1>2, <2>1
<1>4. k % l < f /\ k % l \in Nat
  <2>1. k % l \in 0 .. l - 1
    BY <1>3, Division
  <2> QED
    BY <1>3, <2>1, StartsAgain
<1>5. p.epoch = Epoch /\ p.sequence_number = k % l
  BY <1>1, <1>2 DEF WireForm
<1> QED
  BY <1>2, <1>3, <1>4, <1>5 DEF InWindow

\* What a listing is without its first element, and with another one.
Shorter(s, t, l) ==
    /\ l \in Nat \ {0} /\ Head(s) = s[1] /\ Listing(t) /\ Len(t) = l - 1
    /\ DOMAIN t = 1 .. l - 1 /\ \A i \in 1 .. l - 1 : t[i] = s[i + 1]
Longer(s, x, t, l) ==
    /\ l \in Nat /\ Listing(t) /\ Len(t) = l + 1 /\ t[l + 1] = x
    /\ DOMAIN t = 1 .. l + 1 /\ \A i \in 1 .. l : t[i] = s[i]

\* What a listing without its first element consists of.
LEMMA HeadTail ==
    ASSUME NEW s, Listing(s), s # <<>>, NEW t, t = Tail(s), NEW l, l = Len(s)
    PROVE  Shorter(s, t, l)
<1>1. s \in Seq(Range(s)) /\ l \in Nat
  BY ListingLength
<1>2. l # 0 /\ Head(s) = s[1] /\ t \in Seq(Range(s)) /\ Len(t) = l - 1
  BY <1>1
<1>3. \A i \in 1 .. l - 1 : t[i] = s[i + 1]
  BY <1>1, <1>2
<1>4. Listing(t) /\ DOMAIN t = 1 .. Len(t)
  BY <1>2, SeqListing
<1>5. l \in Nat \ {0} /\ DOMAIN t = 1 .. l - 1
  BY <1>1, <1>2, <1>4
<1> QED
  BY <1>2, <1>3, <1>4, <1>5, Zenon DEF Shorter

\* What a listing with one more element is, by its length.
LEMMA AppendOne ==
    ASSUME NEW s, Listing(s), NEW x, NEW t, t = Append(s, x), NEW l, l = Len(s)
    PROVE  Longer(s, x, t, l)
<1>1. s \in Seq(Range(s)) /\ l \in Nat
  BY ListingLength
<1>2. PICK S : S = Range(s) \cup {x}
  OBVIOUS
<1>3. s \in Seq(S) /\ x \in S
  BY <1>1, <1>2
<1>4. t \in Seq(S) /\ Len(t) = l + 1 /\ t[l + 1] = x /\ \A i \in 1 .. l : t[i] = s[i]
  BY <1>1, <1>3
<1>5. Listing(t) /\ DOMAIN t = 1 .. Len(t)
  BY <1>4, SeqListing
<1>6. DOMAIN t = 1 .. l + 1
  BY <1>4, <1>5
<1> QED
  BY <1>1, <1>4, <1>5, <1>6, Zenon DEF Longer

\* The next packet is taken.
ComesNext(e, w, d, p, h) ==
    /\ h + 1 \in DOMAIN w /\ Good(w, d, h + 1) => p = WireForm(e, w[h + 1].packet)
    /\ d = 0 => h + 1 \in DOMAIN w

\* The first packet is taken: those behind it follow on.
LEMMA FollowsOn ==
    ASSUME NEW e, NEW out, NEW n, NEW w, Writes(e, out, n, w), NEW d, NEW off, NEW ps,
           Listing(ps), ps # <<>>, NEW h \in Nat, NEW k \in Nat,
           Follows(e, w, d, off, ps, h, k), NEW p, p = Head(ps), NEW t, t = Tail(ps)
    PROVE  Follows(e, w, d, off, t, h + 1, k) /\ ComesNext(e, w, d, p, h)
<1>1. PICK m : m = Len(w) /\ m \in Nat /\ DOMAIN w = 1 .. m
  <2>1. Listing(w)
    BY Zenon DEF Writes
  <2> QED
    BY <2>1, ListingLength
<1>2. PICK l : l = Len(ps)
  OBVIOUS
<1>3. /\ l \in Nat \ {0} /\ Head(ps) = ps[1] /\ Listing(t) /\ Len(t) = l - 1
      /\ \A i \in 1 .. l - 1 : t[i] = ps[i + 1]
  <2>1. Shorter(ps, t, l)
    BY <1>2, HeadTail, Zenon
  <2> QED
    BY <2>1, Zenon DEF Shorter
<1>4. /\ k = h + l
      /\ \A i \in DOMAIN w : Good(w, d, i) /\ i > h /\ i <= k => ps[i - h] = WireForm(e, w[i].packet)
      /\ d = 0 => k <= m
      /\ d = 0 \/ Unharmed(w, d, k + 1) => off = Start(w, k + 1)
  BY <1>1, <1>2, Zenon DEF Follows
<1>5. k = (h + 1) + Len(t) /\ h + 1 <= k
  BY <1>3, <1>4
<1>6. \A i \in DOMAIN w : Good(w, d, i) /\ i > h + 1 /\ i <= k => t[i - (h + 1)] = WireForm(e, w[i].packet)
  <2> TAKE i \in DOMAIN w
  <2> HAVE Good(w, d, i) /\ i > h + 1 /\ i <= k
  <2>1. i > h /\ i - (h + 1) \in 1 .. l - 1 /\ (i - (h + 1)) + 1 = i - h
    BY <1>1, <1>3, <1>4
  <2>2. ps[i - h] = WireForm(e, w[i].packet)
    BY <1>4, <2>1
  <2>3. t[i - (h + 1)] = ps[(i - (h + 1)) + 1]
    BY <1>3, <2>1
  <2> QED
    BY <2>1, <2>2, <2>3
<1>7. Follows(e, w, d, off, t, h + 1, k)
  BY <1>1, <1>4, <1>5, <1>6, Zenon DEF Follows
<1>8. h + 1 \in DOMAIN w /\ Good(w, d, h + 1) => p = WireForm(e, w[h + 1].packet)
  <2> HAVE h + 1 \in DOMAIN w /\ Good(w, d, h + 1)
  <2>1. h + 1 > h /\ (h + 1) - h = 1
    OBVIOUS
  <2> QED
    BY <1>3, <1>4, <1>5, <2>1
<1>9. d = 0 => h + 1 \in DOMAIN w
  BY <1>1, <1>4, <1>5
<1> QED
  BY <1>7, <1>8, <1>9, Zenon DEF ComesNext

Received(e, w, d, rs, h) == Listing(rs) /\ Len(rs) <= h /\ Gets(e, w, d, rs, h)

\* What is received grows by the packet of a safe record, and in a datagram
\* without damage by nothing else.
LEMMA GetsMore ==
    ASSUME NEW e, EndsOK(e), NEW out, NEW n, NEW w, Writes(e, out, n, w), NEW d \in Nat,
           NEW h \in Nat, NEW rs, Listing(rs), Len(rs) <= h, Gets(e, w, d, rs, h),
           NEW p, ComesNext(e, w, d, p, h),
           NEW suite, p.epoch = Epoch => suite = e[1],
           NEW data, data = Deciphered(suite, p, KeysOf(e[1], Association("this")), e[3]),
           NEW rs2, rs2 = IF InWindow(e[5], p) /\ data # Rejected
                          THEN Append(rs, [p EXCEPT !.fragment = data]) ELSE rs
    PROVE  Received(e, w, d, rs2, h + 1)
<1>1. PICK l : l = Len(rs) /\ l \in Nat
  BY ListingLength
<1>2. PICK x : x = [p EXCEPT !.fragment = data]
  OBVIOUS
<1>3. PICK more : more = Append(rs, x)
  OBVIOUS
<1>4. /\ Listing(more) /\ Len(more) = l + 1 /\ more[l + 1] = x
      /\ \A i \in 1 .. l : more[i] = rs[i]
  <2>1. Longer(rs, x, more, l)
    BY <1>1, <1>3, AppendOne, Zenon
  <2> QED
    BY <2>1, Zenon DEF Longer
<1>5. rs2 = IF InWindow(e[5], p) /\ data # Rejected THEN more ELSE rs
  BY <1>2, <1>3
<1>6. rs2 = more \/ rs2 = rs
  BY <1>5
<1>7. Listing(rs2) /\ Len(rs2) <= h + 1
  <2>1. Len(more) <= h + 1 /\ Len(rs) <= h + 1
    BY <1>1, <1>4
  <2> QED
    BY <1>4, <1>6, <2>1, Zenon
<1>8. ASSUME Readers(e)
      PROVE  /\ \A i \in DOMAIN w : Safe(w, d, i) /\ i <= h + 1 =>
                    i <= Len(rs2) /\ rs2[i] = w[i].packet
             /\ d = 0 => \A i \in 1 .. Len(rs2) : i \in DOMAIN w /\ Safe(w, d, i)
  <2>0. /\ \A i \in DOMAIN w : Safe(w, d, i) /\ i <= h => i <= l /\ rs[i] = w[i].packet
        /\ d = 0 => \A i \in 1 .. l : i \in DOMAIN w /\ Safe(w, d, i)
    BY <1>1, <1>8, Zenon DEF Gets, Readers
  <2>1. PICK m : m = Len(w) /\ m \in Nat /\ DOMAIN w = 1 .. m
    <3>1. Listing(w)
      BY Zenon DEF Writes
    <3> QED
      BY <3>1, ListingLength
  <2>2. CASE h + 1 \in DOMAIN w /\ Safe(w, d, h + 1)
    <3>1. PICK y : y = w[h + 1].packet
      OBVIOUS
    <3>2. Good(w, d, h + 1) /\ y.sequence_number < NumberLimit
      BY <2>2, <3>1, Zenon DEF Safe
    <3>3. p = WireForm(e, y)
      BY <2>2, <3>1, <3>2, Zenon DEF ComesNext
    <3>4. suite = e[1]
      BY <3>3 DEF WireForm
    <3>5. data = Deciphered(e[1], p, KeysOf(e[1], Association("this")), e[3])
      BY <3>4
    <3>6. data # Rejected /\ [p EXCEPT !.fragment = data] = y /\ InWindow(e[5], p)
      <4>1. h + 1 \in DOMAIN w /\ Readers(e)
        BY <1>8, <2>2
      <4>2. GoesThrough(e, p, data, y)
        BY <3>1, <3>2, <3>3, <3>5, <4>1, SafeRead, Zenon
      <4> QED
        BY <4>2, Zenon DEF GoesThrough
    <3>7. rs2 = more /\ x = y
      BY <1>2, <1>5, <3>6
    <3>8. l = h
      <4>1. CASE h = 0
        BY <1>1, <4>1
      <4>2. CASE h # 0
        <5>1. h \in DOMAIN w /\ Safe(w, d, h)
          BY <2>2, <4>2, SafeBefore
        <5> QED
          BY <1>1, <2>0, <5>1
      <4> QED
        BY <4>1, <4>2
    <3>9. \A i \in DOMAIN w : Safe(w, d, i) /\ i <= h + 1 =>
                i <= Len(rs2) /\ rs2[i] = w[i].packet
      <4> TAKE i \in DOMAIN w
      <4> HAVE Safe(w, d, i) /\ i <= h + 1
      <4>1. CASE i <= h
        <5>1. i \in 1 .. l /\ rs[i] = w[i].packet
          BY <2>0, <2>1, <3>8, <4>1
        <5> QED
          BY <1>1, <1>4, <3>7, <5>1
      <4>2. CASE ~ (i <= h)
        <5>1. i = l + 1 /\ i = h + 1
          BY <2>1, <3>8, <4>2
        <5> QED
          BY <1>1, <1>4, <3>1, <3>7, <5>1
      <4> QED
        BY <4>1, <4>2
    <3>10. d = 0 => \A i \in 1 .. Len(rs2) : i \in DOMAIN w /\ Safe(w, d, i)
      <4> HAVE d = 0
      <4> TAKE i \in 1 .. Len(rs2)
      <4>1. i \in 1 .. l \/ i = h + 1
        BY <1>1, <1>4, <3>7, <3>8
      <4> QED
        BY <2>0, <2>2, <4>1
    <3> QED
      BY <3>9, <3>10
  <2>3. CASE ~ (h + 1 \in DOMAIN w /\ Safe(w, d, h + 1))
    <3>1. \A i \in 1 .. l : rs2[i] = rs[i]
      BY <1>4, <1>6
    <3>2. Len(rs2) \in Nat /\ l <= Len(rs2)
      BY <1>1, <1>4, <1>6
    <3>3. \A i \in DOMAIN w : Safe(w, d, i) /\ i <= h + 1 =>
                i <= Len(rs2) /\ rs2[i] = w[i].packet
      <4> TAKE i \in DOMAIN w
      <4> HAVE Safe(w, d, i) /\ i <= h + 1
      <4>1. i <= h
        BY <2>1, <2>3
      <4>2. i \in 1 .. l /\ rs[i] = w[i].packet
        BY <2>0, <2>1, <4>1
      <4> QED
        BY <1>1, <3>1, <3>2, <4>2
    <3>4. d = 0 => \A i \in 1 .. Len(rs2) : i \in DOMAIN w /\ Safe(w, d, i)
      <4> HAVE d = 0
      <4>1. PICK y : y = w[h + 1].packet
        OBVIOUS
      <4>2. h + 1 \in DOMAIN w /\ Good(w, d, h + 1)
        BY Zenon DEF ComesNext, Good
      <4>3. ~ (y.sequence_number < NumberLimit) /\ p = WireForm(e, y)
        BY <2>3, <4>1, <4>2, Zenon DEF ComesNext, Safe
      <4>4. ~ InWindow(e[5], p)
        BY <4>1, <4>2, <4>3, WrappedRefused
      <4>5. rs2 = rs
        BY <1>5, <4>4
      <4> QED
        BY <1>1, <2>0, <4>5
    <3> QED
      BY <3>3, <3>4
  <2> QED
    BY <2>2, <2>3
<1>9. Gets(e, w, d, rs2, h + 1)
  BY <1>8, Zenon DEF Gets, Readers
<1> QED
  BY <1>7, <1>9, Zenon DEF Received

\* Two numbers with one remainder are a limit apart or the same.
LEMMA SameRest ==
    ASSUME NEW l \in Nat \ {0}, NEW x \in Nat, NEW y \in Nat, x % l = y % l,
           x < y + l, y < x + l
    PROVE  x = y
<1>1. PICK q, r, s : q = x \div l /\ r = x % l /\ s = y \div l
  OBVIOUS
<1>2. q \in Nat /\ s \in Nat /\ r \in 0 .. l - 1 /\ x = l * q + r /\ y = l * s + r
  <2>1. x \div l \in Nat /\ x % l \in 0 .. l - 1 /\ x = l * (x \div l) + (x % l)
    BY Division
  <2>2. y \div l \in Nat /\ y = l * (y \div l) + (y % l)
    BY Division
  <2> QED
    BY <1>1, <2>1, <2>2, Zenon
<1>3. PICK d : d = q - s
  OBVIOUS
<1>4. d \in Int /\ x - y = l * d
  BY <1>2, <1>3, SMTT(30)
<1>5. ~ (d >= 1) /\ ~ (d <= -1)
  <2>1. ASSUME d >= 1 PROVE FALSE
    <3>1. l * d >= l
      BY <1>4, <2>1, SMTT(30)
    <3> QED
      BY <1>4, <3>1
  <2>2. ASSUME d <= -1 PROVE FALSE
    <3>1. l * d <= -l
      BY <1>4, <2>2, SMTT(30)
    <3> QED
      BY <1>4, <3>1
  <2> QED
    BY <2>1, <2>2
<1>6. d = 0
  BY <1>4, <1>5
<1>7. l * d = 0
  BY <1>6
<1> QED
  BY <1>4, <1>7

\* What was handed on under the keys is a packet that the other end wrote.
LEMMA HandedOnIsWritten ==
    ASSUME NEW e, EndsOK(e), e[1].cipherType # "null",
           NEW out, NEW n, NEW w, Writes(e, out, n, w),
           NEW p, PacketOK(e, w, p), p.epoch = Epoch, InWindow(e[5], p),
           NEW data, data # Rejected,
           data = Deciphered(e[1], p, KeysOf(e[1], Association("this")), e[3])
    PROVE  FromTheOther(e, w, [p EXCEPT !.fragment = data])
<1>1. PICK suite, writing, reading, a :
          /\ suite = e[1] /\ writing = e[2] /\ reading = e[3] /\ a = Association("this")
  OBVIOUS
<1>2. PICK name \in DOMAIN CipherSuites : suite = CipherSuites[name]
  BY <1>1, Zenon DEF EndsOK, Suite
<1>3. writing \in Ends /\ reading \in Ends /\ e[4] \in {"this", "earlier"} /\ e[5] \in Nat
  BY <1>1, Zenon DEF EndsOK
<1>4. PICK m : m = Len(w) /\ m \in Nat /\ DOMAIN w = 1 .. m
  <2>1. Listing(w)
    BY Zenon DEF Writes
  <2> QED
    BY <2>1, ListingLength
<1>5. PICK records :
          records = {[packet |-> w[j].packet, association |-> Association(e[4]),
                      connEnd |-> writing] : j \in DOMAIN w}
  OBVIOUS
<1>6. ASSUME NEW j \in DOMAIN w
      PROVE  \E h \in Nat :
                 /\ h < width /\ w[j].packet.sequence_number = e[5] + h
                 /\ w[j].packet.fragment \in Seq(Digits)
                 /\ w[j].packet = [type |-> w[j].packet.type, version |-> DTLSVersion,
                                   epoch |-> Epoch, sequence_number |-> e[5] + h,
                                   fragment |-> w[j].packet.fragment]
  <2>1. PICK h : h = j - 1 /\ h \in Nat /\ h + 1 = j
    <3>1. j - 1 \in Nat /\ (j - 1) + 1 = j
      BY <1>4
    <3> QED
      BY <3>1
  <2>2. PICK x : x = w[h + 1].packet
    OBVIOUS
  <2>3. /\ h < width /\ x.sequence_number = e[5] + h
        /\ x = [type |-> x.type, version |-> DTLSVersion, epoch |-> Epoch,
                sequence_number |-> e[5] + h, fragment |-> x.fragment]
        /\ x.fragment \in Seq(Digits)
    BY <2>1, <2>2, PacketWritten
  <2> QED
    BY <2>1, <2>2, <2>3, Zenon
<1>7. Contents(records)
  <2> SUFFICES ASSUME NEW r \in records
               PROVE  r.packet.fragment \in Seq(Octets) /\ r.connEnd \in Ends
    BY Zenon DEF Contents
  <2>1. PICK j \in DOMAIN w : r = [packet |-> w[j].packet, association |-> Association(e[4]),
                                   connEnd |-> writing]
    BY <1>5
  <2>2. r.packet = w[j].packet /\ r.connEnd = writing
    BY <2>1
  <2>3. w[j].packet.fragment \in Seq(Digits)
    BY <1>6
  <2>4. w[j].packet.fragment \in Seq(Octets)
    BY <2>3, DigitsOctets
  <2> QED
    BY <1>3, <2>2, <2>4
<1>8. PICK f : f = p.fragment
  OBVIOUS
<1>9. Listing(f) /\ \A i \in DOMAIN f : f[i] = Unwritten \/ Known(e, w, f[i])
  BY <1>8, Zenon DEF PacketOK
<1>10. Arrives(suite, f, records)
  <2>1. \E S : f \in Seq(S)
    <3>1. f \in Seq(Range(f))
      BY <1>9, ListingLength
    <3> QED
      BY <3>1
  <2>2. ASSUME NEW i \in DOMAIN f, f[i][1] \in {"tag", "cbc"}
        PROVE  \E r \in records : f[i] \in Parts(Written(suite, r))
    <3>1. f[i] # Unwritten
      BY <2>2 DEF Unwritten
    <3>2. PICK j \in DOMAIN w : f[i] \in Parts(Ciphertext(e, w[j].packet))
      BY <1>9, <2>2, <3>1, Zenon DEF Known
    <3>3. PICK r : r = [packet |-> w[j].packet, association |-> Association(e[4]),
                        connEnd |-> writing]
      OBVIOUS
    <3>4. r \in records
      BY <1>5, <3>3
    <3>5. r.packet = w[j].packet /\ r.association = Association(e[4]) /\ r.connEnd = writing
      BY <3>3
    <3>6. Written(suite, r) = Ciphertext(e, w[j].packet)
      BY <1>1, <3>5, Zenon DEF Written, Ciphertext
    <3> QED
      BY <3>2, <3>4, <3>6
  <2> QED
    BY <2>1, <2>2, Zenon DEF Arrives
<1>11. PICK r \in records :
           /\ r.connEnd = sourceConnEnd(reading) /\ SameAssociation(r.association, a)
           /\ data = r.packet.fragment
           /\ \A length : Header(p, length) = Header(r.packet, length)
  <2>1. data = Deciphered(suite, p, KeysOf(suite, a), reading) /\ suite.cipherType # "null"
    BY <1>1
  <2>2. Arrives(suite, p.fragment, records)
    BY <1>8, <1>10
  <2> QED
    BY <1>2, <1>3, <1>7, <2>1, <2>2, OnlyAuthenticPasses
<1>12. PICK j \in DOMAIN w : r = [packet |-> w[j].packet, association |-> Association(e[4]),
                                  connEnd |-> writing]
  BY <1>5
<1>13. r.packet = w[j].packet /\ r.association = Association(e[4]) /\ r.connEnd = writing
  BY <1>12
<1>14. e[3] # e[2]
  BY <1>1, <1>3, <1>11, <1>13 DEF sourceConnEnd, Ends
<1>15. e[4] = "this"
  <2>1. Association(e[4]).server_random = e[4] /\ a.server_random = "this"
    BY <1>1 DEF Association
  <2> QED
    BY <1>11, <1>13, <2>1 DEF SameAssociation
<1>16. PICK x, h : /\ x = w[j].packet /\ h \in Nat
                   /\ h < width /\ x.sequence_number = e[5] + h
                   /\ x = [type |-> x.type, version |-> DTLSVersion, epoch |-> Epoch,
                           sequence_number |-> e[5] + h, fragment |-> x.fragment]
  <2>1. PICK x : x = w[j].packet
    OBVIOUS
  <2> QED
    BY <1>6, <2>1
<1>17. data = x.fragment
  BY <1>11, <1>13, <1>16
<1>18. /\ p.type = x.type /\ p.version = DTLSVersion
       /\ p.sequence_number % NumberLimit = (e[5] + h) % NumberLimit
  <2>1. Header(p, 0) = Header(x, 0)
    BY <1>11, <1>13, <1>16
  <2>2. x.version = DTLSVersion
    BY <1>16
  <2> QED
    BY <1>16, <2>1, <2>2 DEF Header
<1>19. p.sequence_number = e[5] + h
  <2>1. PICK s, g, l : s = p.sequence_number /\ g = e[5] /\ l = NumberLimit
    OBVIOUS
  <2>2. s \in Nat /\ g \in Nat /\ l \in Nat \ {0} /\ l > 128
    <3>1. NumberLimit \in Nat /\ NumberLimit > 128
      BY PowersGrow
    <3>2. p.sequence_number \in Nat
      BY Zenon DEF PacketOK
    <3> QED
      BY <1>3, <2>1, <3>1, <3>2
  <2>3. s >= g /\ s <= 64 + IF g > 64 THEN g - 1 ELSE 63
    BY <2>1, <2>2 DEF InWindow, width
  <2>4. h < 64
    BY <1>16 DEF width
  <2>5. g + h \in Nat /\ s < (g + h) + l /\ g + h < s + l
    BY <1>16, <2>2, <2>3, <2>4
  <2>6. s % l = (g + h) % l
    BY <1>18, <2>1
  <2>7. s = g + h
    BY <2>2, <2>5, <2>6, SameRest
  <2> QED
    BY <2>1, <2>7
<1>20. p = [type |-> p.type, version |-> p.version, epoch |-> p.epoch,
            sequence_number |-> p.sequence_number, fragment |-> p.fragment]
  BY Zenon DEF PacketOK
<1>21. [p EXCEPT !.fragment = data] = x
  <2>1. [p EXCEPT !.fragment = data]
          = [type |-> p.type, version |-> p.version, epoch |-> p.epoch,
             sequence_number |-> p.sequence_number, fragment |-> data]
    BY <1>20
  <2> QED
    BY <1>16, <1>17, <1>18, <1>19, <2>1
<1>22. \E k \in DOMAIN w : [p EXCEPT !.fragment = data] = w[k].packet
  BY <1>16, <1>21, Zenon
<1> QED
  BY <1>14, <1>15, <1>22, Zenon DEF FromTheOther

-----------------------------------------------------------------------------
(* Steps.                                                                   *)

\* The empty listing.
LEMMA NothingListed == Listing(<<>>) /\ Len(<<>>) = 0 /\ DOMAIN <<>> = {}
<1>1. <<>> \in Seq({}) /\ Len(<<>>) = 0
  OBVIOUS
<1>2. Listing(<<>>) /\ DOMAIN <<>> = 1 .. Len(<<>>)
  BY <1>1, SeqListing
<1> QED
  BY <1>1, <1>2

\* Before anything is parsed.
LEMMA NothingRead ==
    ASSUME NEW e, NEW out, NEW n, NEW w, Writes(e, out, n, w), NEW b, NEW d
    PROVE  Reads(e, w, b, d, 0, <<>>, <<>>)
<1>1. PICK m : m = Len(w) /\ m \in Nat /\ DOMAIN w = 1 .. m
  <2>1. Listing(w)
    BY Zenon DEF Writes
  <2> QED
    BY <2>1, ListingLength
<1>2. PICK s : s = <<>> /\ Len(s) = 0
  BY NothingListed
<1>3. \A i \in DOMAIN w : ~ (i <= 0) /\ 0 <= m
  BY <1>1
<1>4. Follows(e, w, d, 0, s, 0, 0)
  <2>1. 0 = 0 + Len(s) /\ 0 + 1 = 1
    BY <1>2
  <2>2. 0 = Start(w, 0 + 1)
    BY <2>1, Zenon DEF Start
  <2>3. d = 0 => 0 <= Len(w)
    BY <1>1
  <2> QED
    BY <1>3, <2>1, <2>2, <2>3, Zenon DEF Follows
<1>5. Gets(e, w, d, s, 0)
  <2>1. \A i : ~ (i \in 1 .. Len(s))
    BY <1>2
  <2> QED
    BY <1>3, <2>1, Zenon DEF Gets
<1>6. Len(s) <= 0 /\ 0 \in Nat
  BY <1>2
<1> QED
  BY <1>2, <1>4, <1>5, <1>6, Zenon DEF Reads

\* The invariant holds after one more record is written.
LEMMA WriteHolds ==
    ASSUME NEW e, NEW out, NEW n, NEW w, NEW b, NEW d, NEW off, NEW ps, NEW rs,
           State(e, out, n, w, b, d, off, ps, rs), out # <<>>,
           NEW p, p = PacketOf(Head(out), n), NEW b2, b2 = b \o RecordOf(e, p),
           NEW w2, w2 = Append(w, [message |-> Head(out), packet |-> p, end |-> Len(b2)])
    PROVE  State(e, Tail(out), n + 1, w2, b2, d, off, ps, rs)
<1>1. /\ EndsOK(e) /\ Writes(e, out, n, w) /\ Carries(e, w, b, 0)
      /\ off = 0 /\ d = 0 /\ ps = <<>> /\ rs = <<>>
  BY Zenon DEF State
<1>2. PICK msg, r : msg = Head(out) /\ r = RecordOf(e, p)
  OBVIOUS
<1>3. /\ p = PacketOf(msg, n) /\ b2 = b \o r
      /\ w2 = Append(w, [message |-> msg, packet |-> p, end |-> Len(b2)])
  BY <1>2
<1>4. Writes(e, Tail(out), n + 1, w2) /\ Carries(e, w2, b2, 0)
  BY <1>1, <1>2, <1>3, WritesMore, Zenon
<1>5. Reads(e, w2, b2, 0, 0, <<>>, <<>>)
  BY <1>4, NothingRead
<1>6. Listing(<<>>) /\ DOMAIN <<>> = {} /\ 0 \in Nat
  BY NothingListed
<1>7. Authentics(e, w2, <<>>)
  BY <1>6, Zenon DEF Authentics
<1> QED
  BY <1>1, <1>4, <1>5, <1>6, <1>7, Zenon DEF State

\* It holds after a byte is changed, or the datagram is cut off.
LEMMA ChangeHolds ==
    ASSUME NEW e, NEW n, NEW w, NEW b, NEW ps, NEW rs,
           State(e, <<>>, n, w, b, 0, 0, ps, rs), NEW i \in DOMAIN b, NEW b2,
           (\E c \in Changes : b2 = Changed(b, i, c)) \/ b2 = SubSeq(b, 1, i - 1)
    PROVE  State(e, <<>>, n, w, b2, i, 0, ps, rs)
<1>1. /\ EndsOK(e) /\ Writes(e, <<>>, n, w) /\ Carries(e, w, b, 0)
      /\ ps = <<>> /\ rs = <<>>
  BY Zenon DEF State
<1>2. Listing(b) /\ \A j \in DOMAIN b : Known(e, w, b[j])
  BY <1>1, Zenon DEF Carries
<1>3. Kept(b, b2, i) /\ \A j \in DOMAIN b2 : Known(e, w, b2[j])
  <2>1. CASE b2 = SubSeq(b, 1, i - 1)
    BY <1>2, <2>1, EndCut, Zenon
  <2>2. CASE \E c \in Changes : b2 = Changed(b, i, c)
    BY <1>2, <2>2, ByteChanged, Zenon
  <2> QED
    BY <2>1, <2>2, Zenon
<1>4. Carries(e, w, b2, i)
  BY <1>1, <1>3, CarriesKept
<1>5. Reads(e, w, b2, i, 0, <<>>, <<>>)
  BY <1>1, NothingRead
<1>6. Listing(<<>>) /\ DOMAIN <<>> = {} /\ 0 \in Nat
  BY NothingListed
<1>7. Authentics(e, w, <<>>)
  BY <1>6, Zenon DEF Authentics
<1> QED
  BY <1>1, <1>4, <1>5, <1>6, <1>7, Zenon DEF State

\* It holds after a record is parsed, and after an exception ends the loop.
LEMMA ParseHolds ==
    ASSUME NEW e, NEW n, NEW w, NEW b, NEW d, NEW off, NEW ps, NEW rs,
           State(e, <<>>, n, w, b, d, off, ps, rs), off < Len(b),
           NEW p, p = from(DTLSCiphertext, b, off)
    PROVE  IF p.end = Thrown \/ p.end <= off
           THEN State(e, <<>>, n, w, b, d, Len(b), ps, rs)
           ELSE State(e, <<>>, n, w, b, d, p.end, Append(ps, PacketParsed(p)), rs)
<1>1. /\ EndsOK(e) /\ Writes(e, <<>>, n, w) /\ Carries(e, w, b, d) /\ off \in Nat
      /\ Listing(ps) /\ (\A i \in DOMAIN ps : PacketOK(e, w, ps[i])) /\ Listing(rs)
      /\ Reads(e, w, b, d, off, ps, rs) /\ Authentics(e, w, rs)
  BY Zenon DEF State
<1>2. PICK h \in Nat, k \in Nat :
          /\ off < Len(b) => h = 0
          /\ Len(rs) <= h
          /\ Follows(e, w, d, off, ps, h, k)
          /\ Gets(e, w, d, rs, h)
  BY <1>1, Zenon DEF Reads
<1>3. Len(rs) <= 0 /\ Follows(e, w, d, off, ps, 0, k) /\ Gets(e, w, d, rs, 0)
  BY <1>2
<1>4. PICK l : l = Len(b) /\ l \in Nat /\ off < l
  <2>1. Listing(b)
    BY <1>1, Zenon DEF Carries
  <2> QED
    BY <2>1, ListingLength
<1>5. d \in Nat
  <2>1. d \in 0 .. l + 1
    BY <1>1, <1>4, Zenon DEF Carries
  <2> QED
    BY <1>4, <2>1
<1>6. OneTurn(e, w, d, b, ps, k, p, off)
  BY <1>1, <1>3, <1>5, ParseFollows
<1>7. CASE p.end = Thrown \/ p.end <= off
  <2>1. Follows(e, w, d, l, ps, 0, k)
    BY <1>4, <1>6, <1>7, Zenon DEF OneTurn
  <2>2. Reads(e, w, b, d, l, ps, rs)
    <3>1. 0 \in Nat
      OBVIOUS
    <3> QED
      BY <1>3, <2>1, <3>1, Zenon DEF Reads
  <2>3. l # 0
    BY <1>1, <1>4
  <2>4. State(e, <<>>, n, w, b, d, l, ps, rs)
    BY <1>1, <1>4, <2>2, <2>3, Zenon DEF State
  <2> QED
    BY <1>4, <1>7, <2>4, Zenon
<1>8. CASE ~ (p.end = Thrown \/ p.end <= off)
  <2>1. PICK x, ps2, f : x = PacketParsed(p) /\ ps2 = Append(ps, x) /\ f = p.end
    OBVIOUS
  <2>2. Follows(e, w, d, f, ps2, 0, k + 1)
    BY <1>6, <1>8, <2>1, Zenon DEF OneTurn
  <2>3. PacketOK(e, w, x) /\ f \in Nat
    BY <1>1, <1>8, <2>1, ParsedPacket, Zenon
  <2>4. f # 0
    BY <1>1, <1>8, <2>1, <2>3
  <2>5. PICK m : m = Len(ps) /\ Longer(ps, x, ps2, m)
    BY <1>1, <2>1, AppendOne, Zenon
  <2>6. m \in Nat /\ DOMAIN ps = 1 .. m
    BY <1>1, <2>5, ListingLength
  <2>7. /\ Listing(ps2) /\ DOMAIN ps2 = 1 .. m + 1 /\ ps2[m + 1] = x
        /\ \A i \in 1 .. m : ps2[i] = ps[i]
    BY <2>5, Zenon DEF Longer
  <2>8. \A i \in DOMAIN ps2 : PacketOK(e, w, ps2[i])
    <3> TAKE i \in DOMAIN ps2
    <3>1. i \in 1 .. m \/ i = m + 1
      BY <2>6, <2>7
    <3> QED
      BY <1>1, <2>3, <2>6, <2>7, <3>1, Zenon
  <2>9. Reads(e, w, b, d, f, ps2, rs)
    <3>1. 0 \in Nat /\ k + 1 \in Nat
      OBVIOUS
    <3> QED
      BY <1>3, <2>2, <3>1, Zenon DEF Reads
  <2>10. State(e, <<>>, n, w, b, d, f, ps2, rs)
    BY <1>1, <2>3, <2>4, <2>7, <2>8, <2>9, Zenon DEF State
  <2> QED
    BY <1>8, <2>1, <2>10, Zenon
<1> QED
  BY <1>7, <1>8

\* What is handed on next is authentic, too.
LEMMA AuthenticMore ==
    ASSUME NEW e, EndsOK(e), NEW out, NEW n, NEW w, Writes(e, out, n, w),
           NEW rs, Listing(rs), Authentics(e, w, rs), NEW p, PacketOK(e, w, p),
           NEW suite, p.epoch = Epoch => suite = e[1],
           NEW data, data = Deciphered(suite, p, KeysOf(e[1], Association("this")), e[3]),
           NEW rs2, rs2 = IF InWindow(e[5], p) /\ data # Rejected
                          THEN Append(rs, [p EXCEPT !.fragment = data]) ELSE rs
    PROVE  Authentics(e, w, rs2)
<1>1. CASE ~ (InWindow(e[5], p) /\ data # Rejected)
  <2>1. rs2 = rs
    BY <1>1, Zenon
  <2> QED
    BY <2>1, Zenon
<1>2. CASE InWindow(e[5], p) /\ data # Rejected
  <2>1. PICK x : x = [p EXCEPT !.fragment = data]
    OBVIOUS
  <2>2. rs2 = Append(rs, x)
    BY <1>2, <2>1, Zenon
  <2>3. PICK l : l = Len(rs) /\ Longer(rs, x, rs2, l)
    BY <2>2, AppendOne, Zenon
  <2>4. DOMAIN rs = 1 .. l
    BY <2>3, ListingLength
  <2>5. l \in Nat /\ DOMAIN rs2 = 1 .. l + 1 /\ rs2[l + 1] = x /\ \A i \in 1 .. l : rs2[i] = rs[i]
    BY <2>3, Zenon DEF Longer
  <2>6. x.epoch = p.epoch
    <3>1. p = [type |-> p.type, version |-> p.version, epoch |-> p.epoch,
               sequence_number |-> p.sequence_number, fragment |-> p.fragment]
      BY Zenon DEF PacketOK
    <3> QED
      BY <2>1, <3>1
  <2>7. ASSUME e[1].cipherType # "null", NEW i \in DOMAIN rs2, rs2[i].epoch = Epoch
        PROVE  FromTheOther(e, w, rs2[i])
    <3>1. CASE i \in 1 .. l
      BY <2>4, <2>5, <2>7, <3>1, Zenon DEF Authentics
    <3>2. CASE i \notin 1 .. l
      <4>1. i = l + 1
        BY <2>5, <3>2
      <4>2. rs2[i] = x /\ p.epoch = Epoch
        BY <2>5, <2>6, <2>7, <4>1
      <4>3. data = Deciphered(e[1], p, KeysOf(e[1], Association("this")), e[3])
        BY <4>2
      <4>4. FromTheOther(e, w, [p EXCEPT !.fragment = data])
        BY <1>2, <2>7, <4>2, <4>3, HandedOnIsWritten, Zenon
      <4> QED
        BY <2>1, <4>2, <4>4, Zenon
    <3> QED
      BY <3>1, <3>2
  <2> QED
    BY <2>7, Zenon DEF Authentics
<1> QED
  BY <1>1, <1>2

\* It holds after a packet is deciphered and handed on, or dropped.
LEMMA DecipherHolds ==
    ASSUME NEW e, NEW n, NEW w, NEW b, NEW d, NEW off, NEW ps, NEW rs,
           State(e, <<>>, n, w, b, d, off, ps, rs), ~ (off < Len(b)), ps # <<>>,
           NEW p, p = Head(ps), NEW suite, p.epoch = Epoch => suite = e[1],
           NEW data, data = Deciphered(suite, p, KeysOf(e[1], Association("this")), e[3]),
           NEW rs2, rs2 = IF InWindow(e[5], p) /\ data # Rejected
                          THEN Append(rs, [p EXCEPT !.fragment = data]) ELSE rs
    PROVE  State(e, <<>>, n, w, b, d, off, Tail(ps), rs2)
<1>1. /\ EndsOK(e) /\ Writes(e, <<>>, n, w) /\ Carries(e, w, b, d) /\ off \in Nat
      /\ Listing(ps) /\ (\A i \in DOMAIN ps : PacketOK(e, w, ps[i])) /\ Listing(rs)
      /\ Reads(e, w, b, d, off, ps, rs) /\ Authentics(e, w, rs) /\ off # 0
  BY Zenon DEF State
<1>2. PICK h \in Nat, k \in Nat :
          /\ Len(rs) <= h
          /\ Follows(e, w, d, off, ps, h, k)
          /\ Gets(e, w, d, rs, h)
  BY <1>1, Zenon DEF Reads
<1>3. d \in Nat
  <2>1. PICK l : l = Len(b) /\ l \in Nat
    <3>1. Listing(b)
      BY <1>1, Zenon DEF Carries
    <3> QED
      BY <3>1, ListingLength
  <2>2. d \in 0 .. l + 1
    BY <1>1, <2>1, Zenon DEF Carries
  <2> QED
    BY <2>1, <2>2
<1>4. PICK t : t = Tail(ps)
  OBVIOUS
<1>5. Follows(e, w, d, off, t, h + 1, k) /\ ComesNext(e, w, d, p, h)
  BY <1>1, <1>2, <1>4, FollowsOn, Zenon
<1>6. Listing(rs2) /\ Len(rs2) <= h + 1 /\ Gets(e, w, d, rs2, h + 1)
  <2>1. Received(e, w, d, rs2, h + 1)
    BY <1>1, <1>2, <1>3, <1>5, GetsMore, Zenon
  <2> QED
    BY <2>1, Zenon DEF Received
<1>7. PICK l : l = Len(ps) /\ Shorter(ps, t, l)
  BY <1>1, <1>4, HeadTail, Zenon
<1>8. /\ l \in Nat \ {0} /\ Head(ps) = ps[1] /\ Listing(t)
      /\ DOMAIN t = 1 .. l - 1 /\ \A i \in 1 .. l - 1 : t[i] = ps[i + 1]
  BY <1>7, Zenon DEF Shorter
<1>9. DOMAIN ps = 1 .. l
  BY <1>1, <1>7, ListingLength
<1>10. PacketOK(e, w, p)
  <2>1. 1 \in DOMAIN ps /\ p = ps[1]
    BY <1>8, <1>9
  <2> QED
    BY <1>1, <2>1
<1>11. \A i \in DOMAIN t : PacketOK(e, w, t[i])
  <2> TAKE i \in DOMAIN t
  <2>1. i \in 1 .. l - 1 /\ i + 1 \in 1 .. l
    BY <1>8
  <2> QED
    BY <1>1, <1>8, <1>9, <2>1
<1>12. Reads(e, w, b, d, off, t, rs2)
  <2>1. h + 1 \in Nat
    OBVIOUS
  <2> QED
    BY <1>5, <1>6, <2>1, Zenon DEF Reads
<1>13. Authentics(e, w, rs2)
  BY <1>1, <1>10, AuthenticMore, Zenon
<1> QED
  BY <1>1, <1>4, <1>6, <1>8, <1>11, <1>12, <1>13, Zenon DEF State

-----------------------------------------------------------------------------
(* The specification.                                                       *)

\* The ends of a datagram, by name.
LEMMA EndsAre ==
    /\ ends[1] = cipherSuite /\ ends[2] = writer /\ ends[3] = reader
    /\ ends[4] = session /\ ends[5] = first
  BY DEF ends

\* The key material of an association, for the suite in use.
LEMMA MaterialIs ==
    ASSUME NEW a
    PROVE  Material(a) = KeysOf(cipherSuite, Association(a))
<1>1. PICK x, m : x = Association(a) /\ m = MasterSecret(PreMasterSecret(<<"psk">>), "client", a)
  OBVIOUS
<1>2. x.master = m /\ x.client_random = "client" /\ x.server_random = a
  BY <1>1 DEF Association
<1>3. Material(a) = computeKeyMaterial(cipherSuite, m, "client", a)
  BY <1>1, Zenon DEF Material
<1> QED
  BY <1>1, <1>2, <1>3, Zenon DEF KeysOf

\* The invariant holds at first.
LEMMA InitHolds == Init => Inv
<1> SUFFICES ASSUME Init PROVE Inv
  OBVIOUS
<1>1. /\ outgoing \in Datagrams /\ number = first /\ written = <<>> /\ wire = <<>>
      /\ damage = 0 /\ offset = 0 /\ packets = <<>> /\ received = <<>>
  BY Zenon DEF Init
<1>2. first \in Nat
  BY FirstAssumption, Zenon DEF Init
<1>3. EndsOK(ends)
  <2>1. PICK name \in Suites : cipherSuite = CipherSuites[name]
    BY DEF Init
  <2>2. Suite(cipherSuite)
    BY <2>1, SuitesAssumption DEF Suite
  <2>3. writer \in Ends /\ reader \in Ends /\ session \in {"this", "earlier"}
    BY Zenon DEF Init
  <2> QED
    BY <1>2, <2>2, <2>3, EndsAre, Zenon DEF EndsOK
<1>4. Listing(<<>>) /\ Len(<<>>) = 0 /\ DOMAIN <<>> = {}
  BY NothingListed
<1>5. Writes(ends, outgoing, number, <<>>)
  <2>1. /\ Listing(outgoing) /\ Len(outgoing) <= width
        /\ \A i \in DOMAIN outgoing : Encodable(outgoing[i])
    BY <1>1, DatagramAssumption
  <2>2. PICK l : l = Len(outgoing) /\ l \in Nat
    BY <2>1, ListingLength
  <2>3. Len(<<>>) + l <= width
    BY <1>4, <2>1, <2>2
  <2>4. number = ends[5] + Len(<<>>)
    BY <1>1, <1>2, <1>4, EndsAre
  <2> QED
    BY <1>4, <2>1, <2>2, <2>3, <2>4, Zenon DEF Writes
<1>6. Carries(ends, <<>>, <<>>, 0)
  <2>1. Len(<<>>) + 1 = 1 /\ 0 \in 0 .. Len(<<>>) + 1
    BY <1>4
  <2>2. Len(<<>>) = Start(<<>>, Len(<<>>) + 1)
    <3>1. PICK k : k = Len(<<>>) + 1 /\ k = 1
      BY <2>1
    <3>2. Start(<<>>, k) = 0
      BY <3>1 DEF Start
    <3> QED
      BY <1>4, <3>1, <3>2
  <2> QED
    BY <1>4, <2>1, <2>2, Zenon DEF Carries
<1>7. Reads(ends, <<>>, <<>>, 0, 0, <<>>, <<>>)
  BY <1>5, NothingRead
<1>8. Authentics(ends, <<>>, <<>>)
  BY <1>4, Zenon DEF Authentics
<1>9. 0 \in Nat
  OBVIOUS
<1>10. State(ends, outgoing, number, <<>>, <<>>, 0, 0, <<>>, <<>>)
  BY <1>3, <1>4, <1>5, <1>6, <1>7, <1>8, <1>9, Zenon DEF State
<1> QED
  BY <1>1, <1>10, Zenon DEF Inv

\* processOutgoingMessage keeps it.
LEMMA WriteStep == Inv /\ processOutgoingMessage => Inv'
<1> SUFFICES ASSUME Inv, processOutgoingMessage PROVE Inv'
  OBVIOUS
<1>1. State(ends, outgoing, number, written, wire, damage, offset, packets, received)
  BY Zenon DEF Inv
<1>2. PICK p, b2 :
          /\ p = Packet(Head(outgoing)) /\ b2 = wire'
          /\ wire' = wire \o Record(p, Enciphered(cipherSuite, p, Material(session), writer))
          /\ written' = Append(written, [message |-> Head(outgoing), packet |-> p,
                                         end |-> Len(wire')])
  BY DEF processOutgoingMessage
<1>3. /\ outgoing # <<>> /\ outgoing' = Tail(outgoing) /\ number' = number + 1
      /\ ends' = ends /\ damage' = damage /\ offset' = offset /\ packets' = packets
      /\ received' = received
  BY DEF processOutgoingMessage
<1>4. p = PacketOf(Head(outgoing), number)
  BY <1>2 DEF Packet, PacketOf
<1>5. b2 = wire \o RecordOf(ends, p)
  <2>1. Ciphertext(ends, p) = Enciphered(cipherSuite, p, Material(session), writer)
    BY EndsAre, MaterialIs, Zenon DEF Ciphertext
  <2> QED
    BY <1>2, <2>1, Zenon DEF RecordOf
<1>6. written' = Append(written, [message |-> Head(outgoing), packet |-> p, end |-> Len(b2)])
  BY <1>2
<1>7. PICK w2 : w2 = written'
  OBVIOUS
<1>8. w2 = Append(written, [message |-> Head(outgoing), packet |-> p, end |-> Len(b2)])
  BY <1>6, <1>7
<1>9. State(ends, Tail(outgoing), number + 1, w2, b2, damage, offset, packets, received)
  BY <1>1, <1>3, <1>4, <1>5, <1>8, WriteHolds, Zenon
<1> QED
  BY <1>2, <1>3, <1>7, <1>9, Zenon DEF Inv

\* A change on the way keeps it.
LEMMA ChangeStep == Inv /\ Change => Inv'
<1> SUFFICES ASSUME Inv, Change PROVE Inv'
  OBVIOUS
<1>1. State(ends, outgoing, number, written, wire, damage, offset, packets, received)
  BY Zenon DEF Inv
<1>2. /\ outgoing = <<>> /\ offset = 0 /\ damage = 0
      /\ ends' = ends /\ outgoing' = outgoing /\ number' = number /\ written' = written
      /\ offset' = offset /\ packets' = packets /\ received' = received
  BY DEF Change
<1>3. PICK i \in DOMAIN wire :
          /\ \/ \E c \in Changes :
                   wire' = [wire EXCEPT ![i] = IF @[1] = "byte" THEN Byte((@[2] + c) % Base)
                                                                ELSE <<"other", i>>]
             \/ wire' = SubSeq(wire, 1, i - 1)
          /\ damage' = i
  BY DEF Change
<1>4. PICK b2 : b2 = wire'
  OBVIOUS
<1>5. (\E c \in Changes : b2 = Changed(wire, i, c)) \/ b2 = SubSeq(wire, 1, i - 1)
  BY <1>3, <1>4 DEF Changed
<1>6. State(ends, <<>>, number, written, wire, 0, 0, packets, received)
  BY <1>1, <1>2
<1>7. State(ends, <<>>, number, written, b2, i, 0, packets, received)
  BY <1>5, <1>6, ChangeHolds, Zenon
<1> QED
  BY <1>2, <1>3, <1>4, <1>7, Zenon DEF Inv

\* Parsing a record keeps it.
LEMMA ParseStep == Inv /\ Parse => Inv'
<1> SUFFICES ASSUME Inv, Parse PROVE Inv'
  OBVIOUS
<1>1. State(ends, outgoing, number, written, wire, damage, offset, packets, received)
  BY Zenon DEF Inv
<1>2. /\ outgoing = <<>> /\ offset < Len(wire)
      /\ ends' = ends /\ outgoing' = outgoing /\ number' = number /\ written' = written
      /\ wire' = wire /\ damage' = damage /\ received' = received
  BY DEF Parse
<1>3. PICK p : /\ p = from(DTLSCiphertext, wire, offset)
               /\ IF p.end = Thrown \/ p.end <= offset
                  THEN offset' = Len(wire) /\ packets' = packets
                  ELSE offset' = p.end /\ packets' = Append(packets, PacketParsed(p))
  <2>1. PICK p \in {from(DTLSCiphertext, wire, offset)} :
            IF p.end = Thrown \/ p.end <= offset
            THEN offset' = Len(wire) /\ UNCHANGED packets
            ELSE /\ offset' = p.end
                 /\ packets' = Append(packets,
                       [type |-> p.value[1], version |-> p.value[2],
                        epoch |-> p.value[3], sequence_number |-> p.value[4],
                        fragment |-> p.value[5]])
    BY Zenon DEF Parse
  <2> QED
    BY <2>1, Zenon DEF PacketParsed
<1>4. State(ends, <<>>, number, written, wire, damage, offset, packets, received)
  BY <1>1, <1>2
<1>5. IF p.end = Thrown \/ p.end <= offset
      THEN State(ends, <<>>, number, written, wire, damage, Len(wire), packets, received)
      ELSE State(ends, <<>>, number, written, wire, damage, p.end,
                 Append(packets, PacketParsed(p)), received)
  BY <1>2, <1>3, <1>4, ParseHolds, Zenon
<1>6. State(ends, <<>>, number, written, wire, damage, offset', packets', received)
  BY <1>3, <1>5, Zenon
<1> QED
  BY <1>2, <1>6, Zenon DEF Inv

\* Deciphering a packet keeps it.
LEMMA DecipherStep == Inv /\ Decipher => Inv'
<1> SUFFICES ASSUME Inv, Decipher PROVE Inv'
  OBVIOUS
<1>1. State(ends, outgoing, number, written, wire, damage, offset, packets, received)
  BY Zenon DEF Inv
<1>2. /\ outgoing = <<>> /\ offset >= Len(wire) /\ packets # <<>> /\ packets' = Tail(packets)
      /\ ends' = ends /\ outgoing' = outgoing /\ number' = number /\ written' = written
      /\ wire' = wire /\ damage' = damage /\ offset' = offset
  BY DEF Decipher
<1>3. ~ (offset < Len(wire))
  <2>1. offset \in Nat /\ Listing(wire)
    BY <1>1, Zenon DEF State, Carries
  <2>2. Len(wire) \in Nat
    BY <2>1, ListingLength
  <2> QED
    BY <1>2, <2>1, <2>2
<1>4. PICK p, suite, data :
          /\ p = Head(packets) /\ suite = SuiteOf(p.epoch)
          /\ data = Deciphered(suite, p, Material("this"), reader)
          /\ received' = IF Passes(p) /\ data # Rejected
                         THEN Append(received, [p EXCEPT !.fragment = data]) ELSE received
  BY Zenon DEF Decipher
<1>5. PICK rs2 : rs2 = received'
  OBVIOUS
<1>6. p.epoch = Epoch => suite = ends[1]
  BY <1>4, EndsAre DEF SuiteOf
<1>7. data = Deciphered(suite, p, KeysOf(ends[1], Association("this")), ends[3])
  BY <1>4, EndsAre, MaterialIs, Zenon
<1>8. Passes(p) <=> InWindow(ends[5], p)
  BY EndsAre DEF Passes, InWindow
<1>9. rs2 = IF InWindow(ends[5], p) /\ data # Rejected
            THEN Append(received, [p EXCEPT !.fragment = data]) ELSE received
  BY <1>4, <1>5, <1>8
<1>10. State(ends, <<>>, number, written, wire, damage, offset, packets, received)
  BY <1>1, <1>2
<1>11. State(ends, <<>>, number, written, wire, damage, offset, Tail(packets), rs2)
  BY <1>2, <1>3, <1>4, <1>6, <1>7, <1>9, <1>10, DecipherHolds, Zenon
<1> QED
  BY <1>2, <1>5, <1>11, Zenon DEF Inv

\* Doing nothing keeps it.
LEMMA StutterStep == Inv /\ UNCHANGED vars => Inv'
<1> SUFFICES ASSUME Inv, UNCHANGED vars PROVE Inv'
  OBVIOUS
<1>1. /\ ends' = ends /\ outgoing' = outgoing /\ number' = number /\ written' = written
      /\ wire' = wire /\ damage' = damage /\ offset' = offset /\ packets' = packets
      /\ received' = received
  BY DEF vars
<1> QED
  BY <1>1, Zenon DEF Inv

\* In every state the inductive invariant holds.
THEOREM InvariantHolds == Spec => []Inv
<1>1. Inv /\ [Next]_vars => Inv'
  BY WriteStep, ChangeStep, ParseStep, DecipherStep, StutterStep, Zenon DEF Next
<1> QED
  BY <1>1, InitHolds, PTL DEF Spec

-----------------------------------------------------------------------------
(* What the invariant says.                                                 *)

\* The invariant implies the types.
LEMMA TypesFollow == Inv => TypeOK
<1> SUFFICES ASSUME Inv PROVE TypeOK
  OBVIOUS
<1>1. State(ends, outgoing, number, written, wire, damage, offset, packets, received)
  BY Zenon DEF Inv
<1>2. /\ EndsOK(ends) /\ Writes(ends, outgoing, number, written)
      /\ Carries(ends, written, wire, damage) /\ offset \in Nat
      /\ \A i \in DOMAIN packets : PacketOK(ends, written, packets[i])
  BY <1>1, Zenon DEF State
<1>3. number \in Nat
  <2>1. Listing(written) /\ number = ends[5] + Len(written) /\ ends[5] \in Nat
    BY <1>2, Zenon DEF Writes, EndsOK
  <2>2. Len(written) \in Nat
    BY <2>1, ListingLength
  <2> QED
    BY <2>1, <2>2
<1>4. damage \in 0 .. Len(wire) + 1
  BY <1>2, Zenon DEF Carries
<1>5. \A i \in DOMAIN packets :
          /\ packets[i].type \in 0 .. Base - 1
          /\ packets[i].epoch \in 0 .. Largest(2)
          /\ packets[i].sequence_number \in Nat
  BY <1>2, Zenon DEF PacketOK
<1> QED
  BY <1>2, <1>3, <1>4, <1>5, Zenon DEF TypeOK

\* It implies that only what was written under the keys is received.
LEMMA AuthenticFollows == Inv => OnlyAuthentic
<1> SUFFICES ASSUME Inv PROVE OnlyAuthentic
  OBVIOUS
<1>1. Authentics(ends, written, received)
  BY Zenon DEF Inv, State
<1>2. ASSUME cipherSuite.cipherType # "null", NEW i \in DOMAIN received,
             received[i].epoch = Epoch
      PROVE  Authentic /\ \E j \in DOMAIN written : received[i] = written[j].packet
  <2>1. FromTheOther(ends, written, received[i])
    BY <1>1, <1>2, EndsAre, Zenon DEF Authentics
  <2> QED
    BY <2>1, EndsAre, Zenon DEF FromTheOther, Authentic
<1> QED
  BY <1>2, Zenon DEF OnlyAuthentic

\* Every record before an unharmed one is unharmed.
LEMMA UnharmedAll ==
    ASSUME NEW e, EndsOK(e), NEW out, NEW n, NEW w, Writes(e, out, n, w),
           NEW d \in Nat, NEW i \in Nat, Unharmed(w, d, i), NEW j \in 1 .. i
    PROVE  Unharmed(w, d, j)
<1> DEFINE U == {m \in Nat : m < i => Unharmed(w, d, i - m)}
<1>1. U = Nat
  <2>1. 0 \in U
    <3>1. i - 0 = i
      OBVIOUS
    <3> QED
      BY <3>1
  <2>2. ASSUME NEW m \in U PROVE m + 1 \in U
    <3> SUFFICES ASSUME m + 1 < i PROVE Unharmed(w, d, i - (m + 1))
      OBVIOUS
    <3>1. PICK k : k = i - (m + 1) /\ k \in Nat \ {0} /\ k + 1 = i - m
      <4>1. /\ i - (m + 1) \in Nat \ {0} /\ (i - (m + 1)) + 1 = i - m
        OBVIOUS
      <4> QED
        BY <4>1
    <3>2. Unharmed(w, d, k + 1)
      <4>1. m < i
        OBVIOUS
      <4> QED
        BY <3>1, <4>1
    <3>3. Unharmed(w, d, k)
      BY <3>1, <3>2, UnharmedBefore
    <3> QED
      BY <3>1, <3>3
  <2>3. U \in SUBSET Nat
    OBVIOUS
  <2> HIDE DEF U
  <2> QED
    BY <2>1, <2>2, <2>3, Inductive
<1>2. PICK m : m = i - j /\ m \in Nat /\ m < i /\ i - m = j
  <2>1. i - j \in Nat /\ i - j < i /\ i - (i - j) = j
    OBVIOUS
  <2> QED
    BY <2>1
<1>3. m \in U
  BY <1>1, <1>2
<1> QED
  BY <1>2, <1>3

\* Every unharmed record that fits an integer is read once all is done.
LEMMA UnharmedRead ==
    ASSUME NEW e, NEW n, NEW w, NEW b, NEW d, NEW off, NEW rs,
           State(e, <<>>, n, w, b, d, off, <<>>, rs), ~ (off < Len(b)), Readers(e),
           NEW i \in DOMAIN w, Safe(w, d, i)
    PROVE  i <= Len(rs) /\ rs[i] = w[i].packet
<1>1. /\ EndsOK(e) /\ Writes(e, <<>>, n, w) /\ Carries(e, w, b, d)
      /\ Reads(e, w, b, d, off, <<>>, rs)
  BY Zenon DEF State
<1>2. PICK h \in Nat, k \in Nat : Follows(e, w, d, off, <<>>, h, k) /\ Gets(e, w, d, rs, h)
  BY <1>1, Zenon DEF Reads
<1>3. PICK m : m = Len(w) /\ m \in Nat /\ DOMAIN w = 1 .. m
  <2>1. Listing(w)
    BY <1>1, Zenon DEF Writes
  <2> QED
    BY <2>1, ListingLength
<1>4. PICK l : l = Len(b) /\ l \in Nat /\ d \in Nat
  <2>1. Listing(b) /\ d \in 0 .. Len(b) + 1
    BY <1>1, Zenon DEF Carries
  <2>2. Len(b) \in Nat
    BY <2>1, ListingLength
  <2> QED
    BY <2>1, <2>2
<1>5. k = h
  <2>1. k = h + Len(<<>>)
    BY <1>2, Zenon DEF Follows
  <2> QED
    BY <2>1, NothingListed
<1>6. i <= h
  <2> SUFFICES ASSUME ~ (i <= h) PROVE FALSE
    OBVIOUS
  <2>1. PICK j : j = h + 1 /\ j \in 1 .. i /\ i \in Nat
    BY <1>3
  <2>2. Unharmed(w, d, i)
    BY Zenon DEF Safe, Unharmed
  <2>3. Unharmed(w, d, j)
    BY <1>1, <1>4, <2>1, <2>2, UnharmedAll
  <2>4. off = Start(w, j) /\ j \in DOMAIN w /\ Good(w, d, j)
    BY <1>2, <1>5, <2>1, <2>3, Zenon DEF Follows, Unharmed
  <2>5. PICK r, o : r = RecordOf(e, w[j].packet) /\ o = Start(w, j)
    OBVIOUS
  <2>6. o + Len(r) <= l
    <3>1. At(b, o, r)
      BY <1>1, <2>4, <2>5, Zenon DEF Carries
    <3> QED
      BY <1>4, <3>1, Zenon DEF At
  <2>7. Len(r) \in Nat \ {0}
    <3>1. PICK x, q, msg : x = w[h + 1].packet /\ q = e[5] + h /\ msg = w[h + 1].message
      OBVIOUS
    <3>2. h + 1 \in DOMAIN w
      BY <2>1, <2>4
    <3>3. e[5] \in Nat /\ w[h + 1].packet = PacketOf(w[h + 1].message, e[5] + h)
          /\ Encodable(w[h + 1].message)
      BY <1>1, <3>1, <3>2, PacketWritten
    <3>4. x = PacketOf(msg, q) /\ Encodable(msg) /\ q \in Nat /\ r = RecordOf(e, x)
      BY <2>1, <2>5, <3>1, <3>3
    <3> QED
      BY <1>1, <3>4, RecordKnown
  <2>8. o \in Nat
    <3>1. j \in 1 .. m + 1
      BY <1>3, <2>4
    <3> QED
      BY <1>1, <1>3, <2>5, <3>1, StartIn
  <2>9. off < Len(b)
    BY <1>4, <2>4, <2>5, <2>6, <2>7, <2>8
  <2> QED
    BY <2>9
<1> QED
  BY <1>2, <1>6, Zenon DEF Gets, Readers

\* A reader that can read, as a variable and as a parameter.
LEMMA ReadableIs == Readable <=> Readers(ends)
  BY EndsAre DEF Readable, Authentic, Readers

\* It implies that what was written is read.
LEMMA ReadingFollows == Inv => ReadsWhatWasWritten
<1> SUFFICES ASSUME Inv, Done, Readable, NEW i \in DOMAIN written,
                    damage = 0 \/ written[i].end < damage,
                    written[i].packet.sequence_number < NumberLimit
             PROVE  i <= Len(received) /\ received[i] = written[i].packet
  BY Zenon DEF ReadsWhatWasWritten
<1>1. outgoing = <<>> /\ packets = <<>> /\ offset >= Len(wire)
  BY Zenon DEF Done
<1>2. State(ends, <<>>, number, written, wire, damage, offset, <<>>, received)
  BY <1>1, Zenon DEF Inv
<1>3. ~ (offset < Len(wire))
  <2>1. offset \in Nat /\ Listing(wire)
    BY <1>2, Zenon DEF State, Carries
  <2>2. Len(wire) \in Nat
    BY <2>1, ListingLength
  <2> QED
    BY <1>1, <2>1, <2>2
<1>4. Safe(written, damage, i) /\ Readers(ends)
  BY ReadableIs, Zenon DEF Safe, Good
<1> QED
  BY <1>2, <1>3, <1>4, UnharmedRead

\* From a datagram without damage nothing is received but what was written.
LEMMA ReceivedIsWritten ==
    ASSUME Inv, Readable, damage = 0, NEW i \in DOMAIN received, NEW msg, msg = written[i].message
    PROVE  Encodable(msg) /\ received[i].type = msg.type /\ received[i].fragment = Data(msg)
<1>1. /\ EndsOK(ends) /\ Writes(ends, outgoing, number, written) /\ Listing(received)
      /\ Reads(ends, written, wire, damage, offset, packets, received)
  BY Zenon DEF Inv, State
<1>2. PICK h \in Nat : Len(received) <= h /\ Gets(ends, written, damage, received, h)
  BY <1>1, Zenon DEF Reads
<1>3. PICK l : l = Len(received) /\ l \in Nat /\ DOMAIN received = 1 .. l
  BY <1>1, ListingLength
<1>4. /\ \A j \in DOMAIN written : Safe(written, damage, j) /\ j <= h =>
                received[j] = written[j].packet
      /\ \A j \in 1 .. l : j \in DOMAIN written /\ Safe(written, damage, j)
  BY <1>2, <1>3, ReadableIs, Zenon DEF Gets, Readers
<1>5. i \in DOMAIN written /\ received[i] = written[i].packet
  <2>1. i \in 1 .. l /\ i <= h
    BY <1>2, <1>3
  <2> QED
    BY <1>4, <2>1
<1>6. PICK j : j = i - 1 /\ j \in Nat /\ j + 1 = i
  <2>1. i - 1 \in Nat /\ (i - 1) + 1 = i
    BY <1>3
  <2> QED
    BY <2>1
<1>7. PICK x : x = written[j + 1].packet
  OBVIOUS
<1>8. /\ written[j + 1].packet = PacketOf(written[j + 1].message, ends[5] + j)
      /\ Encodable(written[j + 1].message)
  BY <1>1, <1>5, <1>6, <1>7, PacketWritten
<1>9. received[i] = PacketOf(msg, ends[5] + j) /\ Encodable(msg)
  BY <1>5, <1>6, <1>8
<1> QED
  BY <1>9 DEF PacketOf

\* It implies that messages are understood.
LEMMA UnderstandingFollows == Inv => UnderstandsMessages
<1> SUFFICES ASSUME Inv, Readable, damage = 0, NEW i \in DOMAIN received,
                    received[i].type = handshake,
                    written[i].message.msg_type \in DOMAIN HandshakeMessages
             PROVE  Once(Fragment(received[i].fragment), fromFragment).value
                      = written[i].message.body
  BY DEF UnderstandsMessages, ForHandshake
<1>1. PICK msg, r : msg = written[i].message /\ r = Data(msg)
  OBVIOUS
<1>2. Encodable(msg) /\ received[i].type = msg.type /\ received[i].fragment = r
  BY <1>1, ReceivedIsWritten
<1>3. Once(Fragment(r), fromFragment).value = msg.body
  BY <1>1, <1>2, MessageUnderstood
<1> QED
  BY <1>1, <1>2, <1>3

\* It implies that both ends hash the same bytes.
LEMMA HashingFollows == Inv => HashedAsReceived
<1> SUFFICES ASSUME Inv, Readable, damage = 0, NEW i \in DOMAIN received,
                    received[i].type = handshake,
                    written[i].message.msg_type \in DOMAIN HandshakeMessages,
                    written[i].message.extra = <<>>
             PROVE  Rehashed(received[i].fragment) = received[i].fragment
  BY DEF HashedAsReceived, ForHandshake
<1>1. PICK msg, r : msg = written[i].message /\ r = Data(msg)
  OBVIOUS
<1>2. Encodable(msg) /\ received[i].type = msg.type /\ received[i].fragment = r
  BY <1>1, ReceivedIsWritten
<1>3. Rehashed(r) = r
  BY <1>1, <1>2, MessageUnderstood
<1> QED
  BY <1>2, <1>3

-----------------------------------------------------------------------------
(* The theorems.                                                            *)

\* The variables of a datagram's way have their types, for all suites, numbers
\* and datagrams.
THEOREM TypesAreRight == Spec => []TypeOK
  BY InvariantHolds, TypesFollow, PTL

\* What a datagram carries unharmed is received: a reader with the writer's keys
\* gets the packets as they were written, in their order, those from the number
\* on that no integer holds excepted.
THEOREM ReadAsWritten == Spec => []ReadsWhatWasWritten
  BY InvariantHolds, ReadingFollows, PTL

\* A handshake message of an unharmed datagram is understood: its fragment is
\* read as it was written, and its body as the structure it was made of.
THEOREM MessagesUnderstood == Spec => []UnderstandsMessages
  BY InvariantHolds, UnderstandingFollows, PTL

\* Both ends hash the same bytes of such a message: the one that has read it
\* serialises it as it came, if it came as the code would write it.
THEOREM HashesMatch == Spec => []HashedAsReceived
  BY InvariantHolds, HashingFollows, PTL

\* Under a cipher that authenticates nothing is received that was not written
\* under the reader's keys, whatever byte was changed on the way.
THEOREM OnlyAuthenticReceived == Spec => []OnlyAuthentic
  BY InvariantHolds, AuthenticFollows, PTL
=============================================================================
