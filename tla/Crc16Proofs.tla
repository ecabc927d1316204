----------------------------- MODULE Crc16Proofs -----------------------------
(***************************************************************************)
(* The checksum of commons/CRC_16.cpp verifies, for every buffer of any    *)
(* length.  The argument: up to the checksum the second call repeats the   *)
(* first one, so the loop variable is the one the checksum was made of;    *)
(* its upper byte and then its lower byte are met by themselves, and the   *)
(* table is entered at 0.                                                  *)
(***************************************************************************)
EXTENDS Crc16, SequenceTheorems, TLAPS

Byte == {x \in Nat : x < 256}
Word == {x \in Nat : x < 65536}

\* The values of the loop variable after each of the n bytes of data.
Run(n, s) ==
  /\ s[0] = 0
  /\ \A i \in 0 .. n - 1 : s[i + 1] = crc16_byte(s[i], buffer[i + 1])

Making(n, s) ==
  /\ call = "make"
  /\ Len(buffer) = n
  /\ crc = s[n]

\* The second call is in the data, or behind one or both bytes of the checksum.
Verifying(n, s) ==
  /\ call = "verify"
  /\ Len(buffer) = n + 2
  /\ buffer[n + 1] = s[n] \div 256 /\ buffer[n + 2] = s[n] % 256
  /\ \/ taken <= n /\ crc = s[taken]
     \/ taken = n + 1 /\ crc = (s[n] % 256) * 256
     \/ taken = n + 2 /\ crc = 0

\* The inductive invariant.
LoopInv ==
  /\ buffer \in Seq(Byte)
  /\ taken \in Nat
  /\ \E n \in Nat : \E s \in [0 .. n -> Word] :
       Run(n, s) /\ (Making(n, s) \/ Verifying(n, s))

-----------------------------------------------------------------------------
(* Exclusive or.                                                           *)

\* A number and itself differ in no bit.
LEMMA XorSelf ==
  ASSUME NEW a \in Nat
  PROVE  Xor(a, a) = 0
BY DEF Xor, XorBit

\* The result has 16 bits.
LEMMA XorType ==
  ASSUME NEW a \in Nat, NEW b \in Nat
  PROVE  Xor(a, b) \in Word
<1> DEFINE sum1 == XorBit(a, b, 1) + XorBit(a, b, 2) + XorBit(a, b, 4) + XorBit(a, b, 8)
           sum2 == XorBit(a, b, 16) + XorBit(a, b, 32) + XorBit(a, b, 64) + XorBit(a, b, 128)
           sum3 == XorBit(a, b, 256) + XorBit(a, b, 512) + XorBit(a, b, 1024) + XorBit(a, b, 2048)
           sum4 == XorBit(a, b, 4096) + XorBit(a, b, 8192) + XorBit(a, b, 16384) + XorBit(a, b, 32768)
<1>1. sum1 \in Nat /\ sum1 <= 15
  <2>1. /\ XorBit(a, b, 1) \in Nat /\ XorBit(a, b, 1) <= 1
        /\ XorBit(a, b, 2) \in Nat /\ XorBit(a, b, 2) <= 2
        /\ XorBit(a, b, 4) \in Nat /\ XorBit(a, b, 4) <= 4
        /\ XorBit(a, b, 8) \in Nat /\ XorBit(a, b, 8) <= 8
    BY SMT DEF XorBit
  <2> QED BY <2>1, SMT
<1>2. sum2 \in Nat /\ sum2 <= 240
  <2>1. /\ XorBit(a, b, 16) \in Nat /\ XorBit(a, b, 16) <= 16
        /\ XorBit(a, b, 32) \in Nat /\ XorBit(a, b, 32) <= 32
        /\ XorBit(a, b, 64) \in Nat /\ XorBit(a, b, 64) <= 64
        /\ XorBit(a, b, 128) \in Nat /\ XorBit(a, b, 128) <= 128
    BY SMT DEF XorBit
  <2> QED BY <2>1, SMT
<1>3. sum3 \in Nat /\ sum3 <= 3840
  <2>1. /\ XorBit(a, b, 256) \in Nat /\ XorBit(a, b, 256) <= 256
        /\ XorBit(a, b, 512) \in Nat /\ XorBit(a, b, 512) <= 512
        /\ XorBit(a, b, 1024) \in Nat /\ XorBit(a, b, 1024) <= 1024
        /\ XorBit(a, b, 2048) \in Nat /\ XorBit(a, b, 2048) <= 2048
    BY SMT DEF XorBit
  <2> QED BY <2>1, SMT
<1>4. sum4 \in Nat /\ sum4 <= 61440
  <2>1. /\ XorBit(a, b, 4096) \in Nat /\ XorBit(a, b, 4096) <= 4096
        /\ XorBit(a, b, 8192) \in Nat /\ XorBit(a, b, 8192) <= 8192
        /\ XorBit(a, b, 16384) \in Nat /\ XorBit(a, b, 16384) <= 16384
        /\ XorBit(a, b, 32768) \in Nat /\ XorBit(a, b, 32768) <= 32768
    BY SMT DEF XorBit
  <2> QED BY <2>1, SMT
<1>5. /\ XorBit(a, b, 1) \in Int /\ XorBit(a, b, 2) \in Int /\ XorBit(a, b, 4) \in Int /\ XorBit(a, b, 8) \in Int
      /\ XorBit(a, b, 16) \in Int /\ XorBit(a, b, 32) \in Int /\ XorBit(a, b, 64) \in Int /\ XorBit(a, b, 128) \in Int
      /\ XorBit(a, b, 256) \in Int /\ XorBit(a, b, 512) \in Int /\ XorBit(a, b, 1024) \in Int /\ XorBit(a, b, 2048) \in Int
      /\ XorBit(a, b, 4096) \in Int /\ XorBit(a, b, 8192) \in Int /\ XorBit(a, b, 16384) \in Int /\ XorBit(a, b, 32768) \in Int
  BY SMT DEF XorBit
<1>6. Xor(a, b) = sum1 + sum2 + sum3 + sum4
  BY <1>5, SMT DEF Xor
<1> HIDE DEF sum1, sum2, sum3, sum4
<1> QED BY <1>1, <1>2, <1>3, <1>4, <1>6, SMT DEF Word

\* A number and 0 differ where the number has a bit.
LEMMA XorZero ==
  ASSUME NEW a \in Word
  PROVE  Xor(a, 0) = a
<1>0. a \in Nat /\ a < 65536
  BY SMT DEF Word
<1>1. /\ XorBit(a, 0, 1) = a - 2 * (a \div 2)
      /\ XorBit(a, 0, 2) = 2 * (a \div 2) - 4 * (a \div 4)
      /\ XorBit(a, 0, 4) = 4 * (a \div 4) - 8 * (a \div 8)
      /\ XorBit(a, 0, 8) = 8 * (a \div 8) - 16 * (a \div 16)
  BY <1>0, SMT DEF XorBit
<1>2. /\ XorBit(a, 0, 16) = 16 * (a \div 16) - 32 * (a \div 32)
      /\ XorBit(a, 0, 32) = 32 * (a \div 32) - 64 * (a \div 64)
      /\ XorBit(a, 0, 64) = 64 * (a \div 64) - 128 * (a \div 128)
      /\ XorBit(a, 0, 128) = 128 * (a \div 128) - 256 * (a \div 256)
  BY <1>0, SMT DEF XorBit
<1>3. /\ XorBit(a, 0, 256) = 256 * (a \div 256) - 512 * (a \div 512)
      /\ XorBit(a, 0, 512) = 512 * (a \div 512) - 1024 * (a \div 1024)
      /\ XorBit(a, 0, 1024) = 1024 * (a \div 1024) - 2048 * (a \div 2048)
      /\ XorBit(a, 0, 2048) = 2048 * (a \div 2048) - 4096 * (a \div 4096)
  BY <1>0, SMT DEF XorBit
<1>4. /\ XorBit(a, 0, 4096) = 4096 * (a \div 4096) - 8192 * (a \div 8192)
      /\ XorBit(a, 0, 8192) = 8192 * (a \div 8192) - 16384 * (a \div 16384)
      /\ XorBit(a, 0, 16384) = 16384 * (a \div 16384) - 32768 * (a \div 32768)
      /\ XorBit(a, 0, 32768) = 32768 * (a \div 32768)
  BY <1>0, SMT DEF XorBit
<1> DEFINE sum1 == XorBit(a, 0, 1) + XorBit(a, 0, 2) + XorBit(a, 0, 4) + XorBit(a, 0, 8)
           sum2 == XorBit(a, 0, 16) + XorBit(a, 0, 32) + XorBit(a, 0, 64) + XorBit(a, 0, 128)
           sum3 == XorBit(a, 0, 256) + XorBit(a, 0, 512) + XorBit(a, 0, 1024) + XorBit(a, 0, 2048)
           sum4 == XorBit(a, 0, 4096) + XorBit(a, 0, 8192) + XorBit(a, 0, 16384) + XorBit(a, 0, 32768)
<1>5. sum1 = a - 16 * (a \div 16)
  BY <1>0, <1>1, SMT
<1>6. sum2 = 16 * (a \div 16) - 256 * (a \div 256)
  BY <1>0, <1>2, SMT
<1>7. sum3 = 256 * (a \div 256) - 4096 * (a \div 4096)
  BY <1>0, <1>3, SMT
<1>8. sum4 = 4096 * (a \div 4096)
  BY <1>0, <1>4, SMT
<1>9. sum1 + sum2 + sum3 + sum4 = a
  <2> HIDE DEF sum1, sum2, sum3, sum4
  <2> QED BY <1>0, <1>5, <1>6, <1>7, <1>8, SMT
<1>10. /\ XorBit(a, 0, 1) \in Int /\ XorBit(a, 0, 2) \in Int /\ XorBit(a, 0, 4) \in Int
       /\ XorBit(a, 0, 8) \in Int /\ XorBit(a, 0, 16) \in Int /\ XorBit(a, 0, 32) \in Int
       /\ XorBit(a, 0, 64) \in Int /\ XorBit(a, 0, 128) \in Int /\ XorBit(a, 0, 256) \in Int
       /\ XorBit(a, 0, 512) \in Int /\ XorBit(a, 0, 1024) \in Int /\ XorBit(a, 0, 2048) \in Int
       /\ XorBit(a, 0, 4096) \in Int /\ XorBit(a, 0, 8192) \in Int /\ XorBit(a, 0, 16384) \in Int
       /\ XorBit(a, 0, 32768) \in Int
  BY <1>0, SMT DEF XorBit
<1>11. Xor(a, 0) = sum1 + sum2 + sum3 + sum4
  BY <1>10, SMT DEF Xor
<1> QED BY <1>9, <1>11, SMT

-----------------------------------------------------------------------------
(* Turns of the loop.                                                      *)

\* What is taken from the table.
LEMMA TableType ==
  /\ crc16_table[1] = 0
  /\ \A i \in 1 .. 256 : crc16_table[i] \in Nat
BY DEF crc16_table

\* A turn keeps crc a number of 16 bits.
LEMMA TurnType ==
  ASSUME NEW c \in Word, NEW data \in Byte
  PROVE  crc16_byte(c, data) \in Word
<1>1. c \in Nat /\ c \div 256 \in Nat /\ (c * 256) % 65536 \in Nat /\ data \in Nat
  BY SMT DEF Word, Byte
<1> DEFINE x == Xor(c \div 256, data)
<1>2. x \in Word
  BY <1>1, XorType
<1> HIDE DEF x
<1>3. (x % 256) + 1 \in 1 .. 256
  BY <1>2 DEF Word
<1>4. crc16_table[(x % 256) + 1] \in Nat
  BY <1>3, TableType
<1>5. Xor((c * 256) % 65536, crc16_table[(x % 256) + 1]) \in Word
  BY <1>1, <1>4, XorType
<1> QED BY <1>5 DEF crc16_byte, x

\* A byte that equals the upper byte of crc only shifts it.
LEMMA TurnOnUpper ==
  ASSUME NEW c \in Word, NEW data \in Byte, data = c \div 256
  PROVE  crc16_byte(c, data) = (c % 256) * 256
<1>1. c \div 256 \in Nat /\ (c * 256) % 65536 = (c % 256) * 256
  BY SMT DEF Word
<1>2. Xor(c \div 256, data) = 0
  BY <1>1, XorSelf
<1>3. crc16_table[(0 % 256) + 1] = 0
  BY TableType
<1>4. (c * 256) % 65536 \in Word
  BY SMT DEF Word
<1>5. Xor((c * 256) % 65536, 0) = (c * 256) % 65536
  BY <1>4, XorZero
<1> QED BY <1>1, <1>2, <1>3, <1>5 DEF crc16_byte

\* The checksum as it lies in memory: the upper byte of crc comes first.
LEMMA UpperFirst ==
  ASSUME NEW c \in Word
  PROVE  InMemory(htons(c)) = <<c \div 256, c % 256>> /\ c \div 256 \in Byte /\ c % 256 \in Byte
<1>1. c \div 256 \in Byte /\ c % 256 \in Byte
  BY SMT DEF Word, Byte
<1> DEFINE h == c \div 256
           l == c % 256
<1>2. h \in Byte /\ l \in Byte
  BY <1>1
<1> HIDE DEF h, l
<1>3. (l * 256 + h) % 256 = h /\ (l * 256 + h) \div 256 = l
  BY <1>2 DEF Byte
<1>4. InMemory(l * 256 + h) = <<h, l>>
  BY <1>3 DEF InMemory
<1> QED BY <1>1, <1>4 DEF htons, h, l

-----------------------------------------------------------------------------
(* The two calls.                                                          *)

\* One more byte of data: the run of the loop is one value longer.
LEMMA MakeStep ==
  ASSUME LoopInv, NEW byte \in Byte, NextByte(byte)
  PROVE  LoopInv'
<1>0. PICK n \in Nat :
        \E s \in [0 .. n -> Word] : Run(n, s) /\ (Making(n, s) \/ Verifying(n, s))
  BY DEF LoopInv
<1>1. PICK s \in [0 .. n -> Word] : Run(n, s) /\ (Making(n, s) \/ Verifying(n, s))
  BY <1>0
<1>2. /\ call = "make" /\ buffer' = Append(buffer, byte) /\ taken' = taken + 1
      /\ crc' = crc16_byte(crc, byte) /\ call' = call
  BY DEF NextByte
<1>3. Len(buffer) = n /\ crc = s[n]
  BY <1>1, <1>2 DEF Making, Verifying
<1>4. buffer \in Seq(Byte) /\ taken \in Nat
  BY DEF LoopInv
<1>5. /\ buffer' \in Seq(Byte) /\ Len(buffer') = n + 1 /\ buffer'[n + 1] = byte
      /\ \A i \in 1 .. n : buffer'[i] = buffer[i]
  BY <1>2, <1>3, <1>4
<1>6. crc' \in Word
  <2>1. s[n] \in Word
    OBVIOUS
  <2> QED BY <1>2, <1>3, <2>1, TurnType
<1>7. PICK t \in [0 .. n + 1 -> Word] : t[n + 1] = crc' /\ \A i \in 0 .. n : t[i] = s[i]
  <2> DEFINE u == [i \in 0 .. n + 1 |-> IF i <= n THEN s[i] ELSE crc']
  <2>1. u \in [0 .. n + 1 -> Word]
    BY <1>6
  <2>2. u[n + 1] = crc' /\ \A i \in 0 .. n : u[i] = s[i]
    OBVIOUS
  <2> HIDE DEF u
  <2> QED BY <2>1, <2>2
<1>8. ASSUME NEW i \in 0 .. (n + 1) - 1 PROVE t[i + 1] = crc16_byte(t[i], buffer'[i + 1])
  <2>1. CASE i = n
    <3>1. t[i] = s[n] /\ t[i + 1] = crc' /\ buffer'[i + 1] = byte
      BY <1>5, <1>7, <2>1
    <3> QED BY <1>2, <1>3, <3>1
  <2>2. CASE i # n
    <3>1. i \in 0 .. n - 1 /\ i + 1 \in 1 .. n /\ i \in 0 .. n /\ i + 1 \in 0 .. n
      BY <2>2
    <3>2. s[i + 1] = crc16_byte(s[i], buffer[i + 1])
      BY <1>1, <3>1 DEF Run
    <3> QED BY <1>5, <1>7, <3>1, <3>2
  <2> QED BY <2>1, <2>2
<1>9. t[0] = 0
  <2>1. 0 \in 0 .. n
    OBVIOUS
  <2> QED BY <1>1, <1>7, <2>1 DEF Run
<1>10. Run(n + 1, t)' /\ Making(n + 1, t)'
  BY <1>2, <1>5, <1>7, <1>8, <1>9 DEF Run, Making
<1>11. n + 1 \in Nat /\ taken' \in Nat
  BY <1>2, <1>4
<1> QED BY <1>5, <1>10, <1>11 DEF LoopInv

\* The checksum behind the data, and a second call that has taken nothing yet.
LEMMA ReturnStep ==
  ASSUME LoopInv, Return
  PROVE  LoopInv'
<1>0. PICK n \in Nat :
        \E s \in [0 .. n -> Word] : Run(n, s) /\ (Making(n, s) \/ Verifying(n, s))
  BY DEF LoopInv
<1>1. PICK s \in [0 .. n -> Word] : Run(n, s) /\ (Making(n, s) \/ Verifying(n, s))
  BY <1>0
<1>2. /\ call = "make" /\ buffer' = buffer \o InMemory(htons(crc))
      /\ taken' = 0 /\ crc' = 0 /\ call' = "verify"
  BY DEF Return
<1>3. Len(buffer) = n /\ crc = s[n]
  BY <1>1, <1>2 DEF Making, Verifying
<1>4. buffer \in Seq(Byte)
  BY DEF LoopInv
<1> DEFINE h == s[n] \div 256
           l == s[n] % 256
           sum == <<h, l>>
<1>5. InMemory(htons(crc)) = sum /\ h \in Byte /\ l \in Byte
  <2>1. s[n] \in Word
    OBVIOUS
  <2> QED BY <1>3, <2>1, UpperFirst, Zenon
<1> HIDE DEF h, l
<1>6. sum \in Seq(Byte) /\ Len(sum) = 2 /\ sum[1] = h /\ sum[2] = l
  BY <1>5
<1> HIDE DEF sum
<1>7. /\ buffer \o sum \in Seq(Byte)
      /\ Len(buffer \o sum) = Len(buffer) + Len(sum)
      /\ \A i \in 1 .. Len(buffer) + Len(sum) :
           (buffer \o sum)[i] = IF i <= Len(buffer) THEN buffer[i] ELSE sum[i - Len(buffer)]
  BY <1>4, <1>6, ConcatProperties, Zenon
<1>8. /\ buffer' \in Seq(Byte) /\ Len(buffer') = n + 2
      /\ \A i \in 1 .. n + 2 : buffer'[i] = IF i <= n THEN buffer[i] ELSE sum[i - n]
  BY <1>2, <1>3, <1>5, <1>6, <1>7
<1>9. buffer'[n + 1] = h /\ buffer'[n + 2] = l
  <2>1. /\ n + 1 \in 1 .. n + 2 /\ ~(n + 1 <= n) /\ (n + 1) - n = 1
        /\ n + 2 \in 1 .. n + 2 /\ ~(n + 2 <= n) /\ (n + 2) - n = 2
    OBVIOUS
  <2> QED BY <1>6, <1>8, <2>1
<1>10. Run(n, s)'
  <2>1. \A i \in 0 .. n - 1 : i + 1 \in 1 .. n + 2 /\ i + 1 <= n
    OBVIOUS
  <2>2. \A i \in 0 .. n - 1 : buffer'[i + 1] = buffer[i + 1]
    BY <1>8, <2>1
  <2> QED BY <1>1, <2>2 DEF Run
<1>11. Verifying(n, s)'
  <2>1. 0 <= n /\ s[0] = 0
    BY <1>1 DEF Run
  <2> QED BY <1>2, <1>8, <1>9, <2>1 DEF Verifying, h, l
<1> QED BY <1>2, <1>8, <1>10, <1>11 DEF LoopInv

\* The second call: in the data it repeats the first, on the checksum crc is shifted
\* out.
LEMMA VerifyStep ==
  ASSUME LoopInv, VerifyByte
  PROVE  LoopInv'
<1>0. PICK n \in Nat :
        \E s \in [0 .. n -> Word] : Run(n, s) /\ (Making(n, s) \/ Verifying(n, s))
  BY DEF LoopInv
<1>1. PICK s \in [0 .. n -> Word] : Run(n, s) /\ (Making(n, s) \/ Verifying(n, s))
  BY <1>0
<1>2. /\ call = "verify" /\ taken < Len(buffer) /\ taken' = taken + 1
      /\ crc' = crc16_byte(crc, buffer[taken + 1]) /\ buffer' = buffer /\ call' = call
  BY DEF VerifyByte
<1>3. Verifying(n, s)
  BY <1>1, <1>2 DEF Making
<1>4. buffer \in Seq(Byte) /\ taken \in Nat
  BY DEF LoopInv
<1>5. /\ Len(buffer) = n + 2
      /\ buffer[n + 1] = s[n] \div 256 /\ buffer[n + 2] = s[n] % 256
      /\ \/ taken <= n /\ crc = s[taken]
         \/ taken = n + 1 /\ crc = (s[n] % 256) * 256
         \/ taken = n + 2 /\ crc = 0
  BY <1>3 DEF Verifying
<1>6. s[n] \in Word /\ s[n] \div 256 \in Byte /\ s[n] % 256 \in Byte
  <2>1. s[n] \in Word
    OBVIOUS
  <2> QED BY <2>1, UpperFirst, Zenon
<1> DEFINE After == \/ taken' <= n /\ crc' = s[taken']
                    \/ taken' = n + 1 /\ crc' = (s[n] % 256) * 256
                    \/ taken' = n + 2 /\ crc' = 0
<1>7. After
  <2>1. CASE taken < n /\ crc = s[taken]
    <3>1. taken \in 0 .. n - 1 /\ taken' <= n
      BY <1>2, <1>4, <2>1
    <3>2. s[taken + 1] = crc16_byte(s[taken], buffer[taken + 1])
      BY <1>1, <3>1 DEF Run
    <3> QED BY <1>2, <2>1, <3>1, <3>2
  <2>2. CASE taken = n /\ crc = s[n]
    <3>1. crc16_byte(s[n], buffer[n + 1]) = (s[n] % 256) * 256
      BY <1>5, <1>6, TurnOnUpper
    <3> QED BY <1>2, <2>2, <3>1
  <2>3. CASE taken = n + 1 /\ crc = (s[n] % 256) * 256
    <3> DEFINE l == s[n] % 256
    <3>1. l \in Byte
      BY <1>6
    <3>2. buffer[(n + 1) + 1] = l
      <4>1. (n + 1) + 1 = n + 2
        OBVIOUS
      <4> QED BY <1>5, <4>1
    <3> HIDE DEF l
    <3>3. l * 256 \in Word /\ (l * 256) \div 256 = l /\ ((l * 256) % 256) * 256 = 0
      BY <3>1, SMT DEF Byte, Word
    <3>4. crc16_byte(l * 256, l) = ((l * 256) % 256) * 256
      BY <3>1, <3>3, TurnOnUpper
    <3>5. crc' = 0
      BY <1>2, <2>3, <3>2, <3>3, <3>4 DEF l
    <3>6. taken' = n + 2
      BY <1>2, <2>3
    <3> QED BY <3>5, <3>6
  <2>4. taken # n + 2
    BY <1>2, <1>5
  <2>5. taken <= n => taken < n \/ taken = n
    BY <1>4
  <2> QED BY <1>5, <2>1, <2>2, <2>3, <2>4, <2>5
<1>8. Run(n, s)' /\ Verifying(n, s)'
  BY <1>1, <1>2, <1>5, <1>7 DEF Run, Verifying
<1> QED BY <1>2, <1>4, <1>8 DEF LoopInv

\* Up to the checksum the two calls agree.
THEOREM CallsAgree == Spec => []LoopInv
<1>1. Init => LoopInv
  <2> SUFFICES ASSUME Init PROVE LoopInv
    OBVIOUS
  <2> DEFINE s == [i \in 0 .. 0 |-> 0]
  <2>1. s \in [0 .. 0 -> Word] /\ s[0] = 0
    BY SMT DEF Word
  <2> HIDE DEF s
  <2>2. Run(0, s) /\ Making(0, s)
    BY <2>1 DEF Run, Making, Init
  <2> QED BY <2>1, <2>2 DEF LoopInv, Init
<1>2. LoopInv /\ [Next]_vars => LoopInv'
  <2> SUFFICES ASSUME LoopInv, [Next]_vars PROVE LoopInv'
    OBVIOUS
  <2>1. ASSUME NEW byte \in FirstBytes \cup OtherBytes, NextByte(byte) PROVE LoopInv'
    <3>1. byte \in Byte
      BY CrcAssumption, SMT DEF CrcAssumption, Byte
    <3> QED BY <2>1, <3>1, MakeStep
  <2>2. CASE Return
    BY <2>2, ReturnStep
  <2>3. CASE VerifyByte
    BY <2>3, VerifyStep
  <2>4. CASE UNCHANGED vars
    BY <2>4 DEF vars, LoopInv, Run, Making, Verifying
  <2> QED BY <2>1, <2>2, <2>3, <2>4 DEF Next
<1> QED BY <1>1, <1>2, PTL DEF Spec

\* CRC_16 over a buffer followed by its checksum, as it lies in memory, returns 0,
\* whatever the buffer and however long.
THEOREM ChecksumsVerify == Spec => []ChecksumVerifies
<1>1. LoopInv => ChecksumVerifies
  <2> SUFFICES ASSUME LoopInv, call = "verify", taken = Len(buffer) PROVE htons(crc) = 0
    BY DEF ChecksumVerifies
  <2>0. PICK n \in Nat :
          \E s \in [0 .. n -> Word] : Run(n, s) /\ (Making(n, s) \/ Verifying(n, s))
    BY DEF LoopInv
  <2>1. PICK s \in [0 .. n -> Word] : Run(n, s) /\ (Making(n, s) \/ Verifying(n, s))
    BY <2>0
  <2>2. crc = 0
    BY <2>1 DEF Making, Verifying
  <2> QED BY <2>2, SMT DEF htons
<1> QED BY <1>1, CallsAgree, PTL
=============================================================================
