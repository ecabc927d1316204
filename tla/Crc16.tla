------------------------------- MODULE Crc16 -------------------------------
(***************************************************************************)
(* commons/CRC_16.cpp: the table-driven CRC-16 of a buffer, against the    *)
(* division of polynomials it stands for.  A byte of the buffer is one     *)
(* turn of the loop.  CRC_16 is called twice: on the data, to make the     *)
(* checksum, and on the data followed by it, to verify it.                 *)
(***************************************************************************)
EXTENDS Integers, Sequences, FiniteSets

LOCAL INSTANCE SequencesExt

CONSTANTS
  FirstBytes,    \* values of the first byte of a buffer
  OtherBytes,    \* values of the bytes after it
  MaxLen         \* bound: length of a buffer

ASSUME CrcAssumption ==
  /\ FirstBytes \cup OtherBytes \subseteq 0 .. 255
  /\ MaxLen \in Nat

VARIABLES
  buffer,   \* the bytes of the data and, in the second call, of the checksum
  taken,    \* how many of them the loop has taken
  crc,      \* the loop variable, a CRC_16 that began with 0
  call      \* "make" the checksum or "verify" it

vars == <<buffer, taken, crc, call>>

crc16_table ==
  <<
        0, 32773, 32783,    10, 32795,    30,    20, 32785, 32819,    54,    60, 32825,    40, 32813, 32807,    34,
    32867,   102,   108, 32873,   120, 32893, 32887,   114,    80, 32853, 32863,    90, 32843,    78,    68, 32833,
    32963,   198,   204, 32969,   216, 32989, 32983,   210,   240, 33013, 33023,   250, 33003,   238,   228, 32993,
      160, 32933, 32943,   170, 32955,   190,   180, 32945, 32915,   150,   156, 32921,   136, 32909, 32903,   130,
    33155,   390,   396, 33161,   408, 33181, 33175,   402,   432, 33205, 33215,   442, 33195,   430,   420, 33185,
      480, 33253, 33263,   490, 33275,   510,   500, 33265, 33235,   470,   476, 33241,   456, 33229, 33223,   450,
      320, 33093, 33103,   330, 33115,   350,   340, 33105, 33139,   374,   380, 33145,   360, 33133, 33127,   354,
    33059,   294,   300, 33065,   312, 33085, 33079,   306,   272, 33045, 33055,   282, 33035,   270,   260, 33025,
    33539,   774,   780, 33545,   792, 33565, 33559,   786,   816, 33589, 33599,   826, 33579,   814,   804, 33569,
      864, 33637, 33647,   874, 33659,   894,   884, 33649, 33619,   854,   860, 33625,   840, 33613, 33607,   834,
      960, 33733, 33743,   970, 33755,   990,   980, 33745, 33779,  1014,  1020, 33785,  1000, 33773, 33767,   994,
    33699,   934,   940, 33705,   952, 33725, 33719,   946,   912, 33685, 33695,   922, 33675,   910,   900, 33665,
      640, 33413, 33423,   650, 33435,   670,   660, 33425, 33459,   694,   700, 33465,   680, 33453, 33447,   674,
    33507,   742,   748, 33513,   760, 33533, 33527,   754,   720, 33493, 33503,   730, 33483,   718,   708, 33473,
    33347,   582,   588, 33353,   600, 33373, 33367,   594,   624, 33397, 33407,   634, 33387,   622,   612, 33377,
      544, 33317, 33327,   554, 33339,   574,   564, 33329, 33299,   534,   540, 33305,   520, 33293, 33287,   514
  >>

\* Exclusive or of two numbers of 16 bits, bit by bit.
XorBit(a, b, power) == ((a \div power + b \div power) % 2) * power

Xor(a, b) ==
    XorBit(a, b, 1) + XorBit(a, b, 2) + XorBit(a, b, 4) + XorBit(a, b, 8)
  + XorBit(a, b, 16) + XorBit(a, b, 32) + XorBit(a, b, 64) + XorBit(a, b, 128)
  + XorBit(a, b, 256) + XorBit(a, b, 512) + XorBit(a, b, 1024) + XorBit(a, b, 2048)
  + XorBit(a, b, 4096) + XorBit(a, b, 8192) + XorBit(a, b, 16384) + XorBit(a, b, 32768)

\* The shift is an int, the return type cuts it to 16 bits.
crc16_byte(c, data) ==
  Xor((c * 256) % 65536, crc16_table[(Xor(c \div 256, data) % 256) + 1])

\* htons on a little-endian host.
htons(word) == (word % 256) * 256 + word \div 256

\* The two bytes of a result as a little-endian host stores them.
InMemory(word) == <<word % 256, word \div 256>>

\* The function as a whole, with any crc to begin with.
CRC_16(c, bytes) == htons(FoldLeft(crc16_byte, c, bytes))

Init ==
  /\ buffer = <<>>
  /\ taken = 0
  /\ crc = 0
  /\ call = "make"

\* One turn of the loop over the data.
\* Mutant: the table is entered with the low byte of crc.
NextByte_LowByte(byte) ==
  /\ call = "make"
  /\ Len(buffer) < MaxLen
  /\ buffer' = Append(buffer, byte)
  /\ taken' = taken + 1
  /\ crc' = Xor((crc * 256) % 65536, crc16_table[(Xor(crc, byte) % 256) + 1])
  /\ UNCHANGED call

NextByte(byte) ==
  /\ call = "make"
  /\ Len(buffer) < MaxLen
  /\ buffer' = Append(buffer, byte)
  /\ taken' = taken + 1
  /\ crc' = crc16_byte(crc, byte)
  /\ UNCHANGED call

\* The loop is over: the caller stores the result behind the data and calls CRC_16 for
\* all of it, as a receiver would.
\* Mutant: the result stays in host order.
Return_HostOrder ==
  /\ call = "make"
  /\ buffer' = buffer \o InMemory(crc)
  /\ taken' = 0 /\ crc' = 0 /\ call' = "verify"

Return ==
  /\ call = "make"
  /\ buffer' = buffer \o InMemory(htons(crc))
  /\ taken' = 0 /\ crc' = 0 /\ call' = "verify"

\* One turn of the loop in the second call.
VerifyByte ==
  /\ call = "verify"
  /\ taken < Len(buffer)
  /\ taken' = taken + 1
  /\ crc' = crc16_byte(crc, buffer[taken + 1])
  /\ UNCHANGED <<buffer, call>>

Next ==
  \/ \E byte \in IF buffer = <<>> THEN FirstBytes ELSE OtherBytes : NextByte(byte)
  \/ Return
  \/ VerifyByte

Spec == Init /\ [][Next]_vars

----------------------------------------------------------------------------
\* The reference: a polynomial over GF(2) is the set of its exponents, addition is the
\* symmetric difference, and 0x8005 stands for x^16 + x^15 + x^2 + 1.
Polynomial(word, width) == {k \in 0 .. width - 1 : (word \div 2^k) % 2 = 1}
Plus(p, q)   == (p \ q) \cup (q \ p)
Times(p, n)  == {k + n : k \in p}
Generator    == {16, 15, 2, 0}

OfBytes(bytes) ==
  UNION {Times(Polynomial(bytes[i], 8), 8 * (Len(bytes) - i)) : i \in DOMAIN bytes}

\* The remainder: the terms from the top down to x^16 are cancelled one by one.
Remainder(p, top) ==
  FoldLeft(LAMBDA r, k : IF k \in r THEN Plus(r, Times(Generator, k - 16)) ELSE r,
           p, [i \in 1 .. top - 15 |-> top + 1 - i])

\* After every byte the loop variable is the remainder of the buffer times x^16 by the
\* generator: the 256 entries of the table and the indexing are right.
LoopIsDivision ==
  Polynomial(crc, 16) =
    Remainder(Times(OfBytes(SubSeq(buffer, 1, taken)), 16), 8 * taken + 16)

\* A buffer followed by its checksum, as it lies in memory, has the checksum 0: this is
\* what the final htons of CRC_16 is for.
ChecksumVerifies ==
  call = "verify" /\ taken = Len(buffer) => htons(crc) = 0

\* The comment over crc16_byte: crc is the previous CRC value, and the updated one is
\* returned.  The checksum of a buffer taken in two pieces is that of the whole.  It is not:
\* the result is byte-swapped (ChecksumInPieces.cfg).
UpdatesPrevious ==
  call = "make" =>
    \A n \in 0 .. Len(buffer) :
      CRC_16(CRC_16(0, SubSeq(buffer, 1, n)), SubSeq(buffer, n + 1, Len(buffer))) = CRC_16(0, buffer)
=============================================================================
