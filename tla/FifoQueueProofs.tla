--------------------------- MODULE FifoQueueProofs ---------------------------
(***************************************************************************)
(* The ring of commons/fifo_queue.cpp is a queue of packets, for every     *)
(* size of the buffer, every number of consumers and every number of       *)
(* packets, as long as the packets have one length that is not 0 and a     *)
(* thread that peeks has the queue for itself.  The argument: packets of   *)
(* one length lie in slots that never move, so the buffer is a ring of     *)
(* slots with an unused tail; the writer is in the lap of the reader or in *)
(* the next one, and in the next one it stays behind the reader.           *)
(***************************************************************************)
EXTENDS FifoQueue, Integers, SequenceTheorems, TLAPS

\* A thread that calls PeekNextPackLen, which takes no lock, is the only consumer.
PeekersAlone == \A crew \in PeekingCrews : \A c, d \in crew : c = d

\* The ring of slots for packets of length L: where a slot starts, how many fit.
Slot(L, k) == (L + 2) * k
Slots(L) == buf_size_ \div (L + 2)

\* Slot k of a buffer holds packet p.
Stored(L, buf, k, p) ==
  /\ buf[Slot(L, k)] = L % 256
  /\ buf[Slot(L, k) + 1] = L \div 256
  /\ \A i \in 1 .. L : buf[Slot(L, k) + 1 + i] = p[i]

\* END_FLAG is in the tail, if there is room for it.
TailMarked(L) ==
  LET t == Slot(L, Slots(L))
  IN  t + PACK_LEN_SIZE <= buf_size_ => buffer_[t] = 0 /\ buffer_[t + 1] = 0

Waiting == Len(sent) - Len(got)

\* The i-th packet that waits, counted from 0.
WaitingAt(i) == sent[Len(got) + 1 + i]

\* The writer, before slot w, is in the lap of the reader, before slot r.
SameLap(L, w, r) ==
  /\ r <= w
  /\ Waiting = w - r
  /\ \A k \in r .. w - 1 : Stored(L, buffer_, k, WaitingAt(k - r))

\* The writer has gone back to the start, and has not passed the reader.
NextLap(L, w, r) ==
  /\ w <= r
  /\ Waiting = w + Slots(L) - r
  /\ \A k \in r .. Slots(L) - 1 : Stored(L, buffer_, k, WaitingAt(k - r))
  /\ \A k \in 0 .. w - 1 : Stored(L, buffer_, k, WaitingAt(k + Slots(L) - r))
  /\ TailMarked(L)

Peeking == \E c \in DOMAIN pc : pc[c] = "peek"

Positions(L, w, r) ==
  /\ write_pos_ = Slot(L, w)
  /\ read_pos_ = Slot(L, r)
  /\ SameLap(L, w, r) \/ NextLap(L, w, r)
  /\ Peeking => DOMAIN pc \in PeekingCrews /\ r = Slots(L) /\ NextLap(L, w, r)

FifoTypes(L) ==
  /\ buf_size_ \in Nat
  /\ buffer_ \in [0 .. buf_size_ - 1 -> Nat]
  /\ read_bytes_ \in Nat /\ write_bytes_ \in Nat
  /\ sent \in Seq([1 .. L -> Nat]) /\ got \in Seq([1 .. L -> Nat])
  /\ pc = [c \in DOMAIN pc |-> pc[c]]

\* The inductive invariant.
RingInv(L) ==
  /\ FifoTypes(L)
  /\ PacketsIntact
  /\ write_bytes_ = read_bytes_ + Slot(L, Waiting)
  /\ \E w, r \in 0 .. Slots(L) : Positions(L, w, r)

-----------------------------------------------------------------------------
(* Slots.                                                                  *)

\* A slot has room for a length and a packet, and the next one follows it.
LEMMA SlotStep ==
  ASSUME NEW L \in Nat, NEW k \in Nat
  PROVE  /\ Slot(L, k) \in Nat
         /\ Slot(L, 0) = 0
         /\ Slot(L, k + 1) = Slot(L, k) + L + 2
<1>1. (L + 2) * k \in Nat
  OBVIOUS
<1>2. (L + 2) * (k + 1) = (L + 2) * k + L + 2
  OBVIOUS
<1> QED BY <1>1, <1>2 DEF Slot

\* Slots do not overlap.
LEMMA SlotOrder ==
  ASSUME NEW L \in Nat, NEW j \in Nat, NEW k \in Nat, j < k
  PROVE  Slot(L, j) + L + 2 <= Slot(L, k)
<1> DEFINE d == k - j - 1
<1>1. d \in Nat /\ k = (j + 1) + d
  OBVIOUS
<1>2. (L + 2) * d \in Nat
  BY <1>1
<1> HIDE DEF d
<1>3. (L + 2) * ((j + 1) + d) = (L + 2) * j + L + 2 + (L + 2) * d
  BY <1>1
<1>4. (L + 2) * j \in Nat
  OBVIOUS
<1> QED BY <1>1, <1>2, <1>3, <1>4 DEF Slot

\* The slots fit into the buffer, and no other one does.
LEMMA SlotsFit ==
  ASSUME NEW L \in Nat, buf_size_ \in Nat
  PROVE  /\ Slots(L) \in Nat
         /\ Slot(L, Slots(L)) <= buf_size_
         /\ buf_size_ < Slot(L, Slots(L)) + L + 2
<1>1. ASSUME NEW n \in Nat, NEW s \in Nat, s > 0
      PROVE  n \div s \in Nat /\ s * (n \div s) <= n /\ n < s * (n \div s) + s
  BY <1>1
<1> QED BY <1>1 DEF Slot, Slots

-----------------------------------------------------------------------------
(* The bytes of a slot.                                                    *)

\* What PushPacket copies: the length, low byte first, and then the packet.
IsFrame(L, p, f) ==
  /\ f \in Seq(Nat) /\ Len(f) = L + 2
  /\ f[1] = L % 256 /\ f[2] = L \div 256
  /\ \A i \in 1 .. L : f[i + 2] = p[i]

\* The bytes of new are those of buf, and from pos on those that were copied there.
Copied(size, buf, pos, bytes, new) ==
  /\ new \in [0 .. size - 1 -> Nat]
  /\ \A i \in 1 .. Len(bytes) : new[pos + i - 1] = bytes[i]
  /\ \A i \in 0 .. size - 1 : i < pos \/ pos + Len(bytes) <= i => new[i] = buf[i]

\* The frame of a packet is built by one concatenation.
LEMMA FrameBytes ==
  ASSUME NEW L \in Nat, NEW p \in [1 .. L -> Nat]
  PROVE  IsFrame(L, p, LenBytes(L) \o p)
<1> DEFINE h == LenBytes(L)
<1>1. L % 256 \in Nat /\ L \div 256 \in Nat
  OBVIOUS
<1>2. h \in Seq(Nat) /\ Len(h) = 2 /\ h[1] = L % 256 /\ h[2] = L \div 256
  BY <1>1 DEF LenBytes
<1>h. h \in Seq(Nat)
  BY <1>2
<1>3. p \in Seq(Nat)
  OBVIOUS
<1>l. Len(p) = L
  OBVIOUS
<1> HIDE DEF h
<1>c. /\ h \o p \in Seq(Nat) /\ Len(h \o p) = Len(h) + Len(p)
      /\ \A i \in 1 .. Len(h) + Len(p) :
           (h \o p)[i] = IF i <= Len(h) THEN h[i] ELSE p[i - Len(h)]
  BY <1>h, <1>3, ConcatProperties, SMT
<1>4. /\ h \o p \in Seq(Nat) /\ Len(h \o p) = L + 2
      /\ \A i \in 1 .. L + 2 : (h \o p)[i] = IF i <= 2 THEN h[i] ELSE p[i - 2]
  <2>1. Len(h) + Len(p) = L + 2
    BY <1>2, <1>l
  <2> QED BY <2>1, <1>2, <1>c, Zenon
<1>5. \A i \in 1 .. L : (h \o p)[i + 2] = p[i]
  <2> TAKE i \in 1 .. L
  <2>1. i + 2 \in 1 .. L + 2 /\ ~(i + 2 <= 2) /\ (i + 2) - 2 = i
    OBVIOUS
  <2> QED BY <2>1, <1>4
<1>6. (h \o p)[1] = h[1] /\ (h \o p)[2] = h[2]
  BY <1>4
<1>7. IsFrame(L, p, h \o p)
  BY <1>2, <1>4, <1>5, <1>6, Zenon DEF IsFrame
<1> QED BY <1>7, Zenon DEF h

\* What a copy into the buffer changes.
LEMMA PutBytes ==
  ASSUME NEW size \in Nat, NEW buf \in [0 .. size - 1 -> Nat],
         NEW pos \in Nat, NEW bytes \in Seq(Nat), pos + Len(bytes) <= size
  PROVE  Copied(size, buf, pos, bytes, Put(buf, pos, bytes))
<1>1. DOMAIN buf = 0 .. size - 1 /\ Len(bytes) \in Nat
  OBVIOUS
<1>2. \A i \in 1 .. Len(bytes) : bytes[i] \in Nat
  OBVIOUS
<1>3. \A i \in 0 .. size - 1 : i \in pos .. pos + Len(bytes) - 1 => i - pos + 1 \in 1 .. Len(bytes)
  BY <1>1
<1>4. ASSUME NEW i \in 1 .. Len(bytes)
      PROVE  Put(buf, pos, bytes)[pos + i - 1] = bytes[i]
  <2>1. /\ pos + i - 1 \in 0 .. size - 1
        /\ pos + i - 1 \in pos .. pos + Len(bytes) - 1
        /\ (pos + i - 1) - pos + 1 = i
    BY <1>1
  <2> QED BY <1>1, <2>1 DEF Put
<1>5. ASSUME NEW i \in 0 .. size - 1, i < pos \/ pos + Len(bytes) <= i
      PROVE  Put(buf, pos, bytes)[i] = buf[i]
  <2>1. i \notin pos .. pos + Len(bytes) - 1
    BY <1>1, <1>5
  <2> QED BY <1>1, <2>1 DEF Put
<1>6. Put(buf, pos, bytes) \in [0 .. size - 1 -> Nat]
  BY <1>1, <1>2, <1>3 DEF Put
<1> QED BY <1>4, <1>5, <1>6, Zenon DEF Copied

\* Two buffers agree on a slot.
SlotKept(L, buf, new, k) ==
  \A i \in Slot(L, k) .. Slot(L, k) + L + 1 : new[i] = buf[i]

\* A packet stays where nothing was written.
LEMMA StoredKept ==
  ASSUME NEW L \in Nat, NEW k \in Nat, NEW buf, NEW new, NEW p,
         Stored(L, buf, k, p), SlotKept(L, buf, new, k)
  PROVE  Stored(L, new, k, p)
<1> DEFINE s == Slot(L, k)
<1>1. s \in Nat
  BY SlotStep
<1> HIDE DEF s
<1>2. s \in s .. s + L + 1 /\ s + 1 \in s .. s + L + 1
  BY <1>1
<1>3. \A i \in 1 .. L : s + 1 + i \in s .. s + L + 1
  BY <1>1
<1>4. \A i \in s .. s + L + 1 : new[i] = buf[i]
  BY DEF SlotKept, s
<1>5. buf[s] = L % 256 /\ buf[s + 1] = L \div 256 /\ \A i \in 1 .. L : buf[s + 1 + i] = p[i]
  BY DEF Stored, s
<1>6. new[s] = L % 256 /\ new[s + 1] = L \div 256
  BY <1>2, <1>4, <1>5
<1>7. \A i \in 1 .. L : new[s + 1 + i] = p[i]
  BY <1>3, <1>4, <1>5
<1> QED BY <1>6, <1>7 DEF Stored, s

\* Packet p is in slot k, and the other slots and the tail are as they were.
Written(L, size, buf, k, p, new) ==
  /\ new \in [0 .. size - 1 -> Nat]
  /\ Stored(L, new, k, p)
  /\ \A j \in Nat : j # k /\ Slot(L, j) + L + 2 <= size => SlotKept(L, buf, new, j)
  /\ \A i \in 0 .. size - 1 : Slot(L, k) + L + 2 <= i => new[i] = buf[i]

\* The copy of a packet into slot k stores it and touches no other slot and no tail.
LEMMA WriteSlot ==
  ASSUME NEW L \in Nat, NEW p \in [1 .. L -> Nat], NEW size \in Nat,
         NEW buf \in [0 .. size - 1 -> Nat], NEW k \in Nat, NEW new,
         Slot(L, k) + L + 2 <= size,
         new = Put(buf, Slot(L, k), LenBytes(L) \o p)
  PROVE  Written(L, size, buf, k, p, new)
<1> DEFINE s == Slot(L, k)
           f == LenBytes(L) \o p
<1>1. s \in Nat
  BY SlotStep
<1>f. IsFrame(L, p, f)
  BY FrameBytes, Zenon
<1>3. new = Put(buf, s, f) /\ s + L + 2 <= size
  BY Zenon
<1> HIDE DEF f, s
<1>2. /\ f \in Seq(Nat) /\ Len(f) = L + 2
      /\ f[1] = L % 256 /\ f[2] = L \div 256
      /\ \A i \in 1 .. L : f[i + 2] = p[i]
  BY <1>f, Zenon DEF IsFrame
<1>o. s + Len(f) <= size
  BY <1>1, <1>2, <1>3
<1>p. Copied(size, buf, s, f, new)
  BY <1>1, <1>2, <1>3, <1>o, PutBytes, Zenon
<1>4. /\ new \in [0 .. size - 1 -> Nat]
      /\ \A i \in 1 .. Len(f) : new[s + i - 1] = f[i]
      /\ \A i \in 0 .. size - 1 : i < s \/ s + Len(f) <= i => new[i] = buf[i]
  BY <1>p, Zenon DEF Copied
<1>5. new[s] = L % 256 /\ new[s + 1] = L \div 256
  <2>1. 1 \in 1 .. Len(f) /\ 2 \in 1 .. Len(f) /\ s + 1 - 1 = s /\ s + 2 - 1 = s + 1
    BY <1>1, <1>2
  <2>2. new[s + 1 - 1] = f[1] /\ new[s + 2 - 1] = f[2]
    BY <2>1, <1>4
  <2> QED BY <2>1, <2>2, <1>2
<1>6. ASSUME NEW i \in 1 .. L PROVE new[s + 1 + i] = p[i]
  <2>1. i + 2 \in 1 .. Len(f) /\ s + (i + 2) - 1 = s + 1 + i
    BY <1>1, <1>2
  <2>2. new[s + (i + 2) - 1] = f[i + 2]
    BY <2>1, <1>4
  <2> QED BY <2>1, <2>2, <1>2
<1>7. Stored(L, new, k, p)
  BY <1>5, <1>6 DEF Stored, s
<1>8. ASSUME NEW j \in Nat, j # k, Slot(L, j) + L + 2 <= size
      PROVE  SlotKept(L, buf, new, j)
  <2> DEFINE t == Slot(L, j)
  <2>1. t \in Nat
    BY SlotStep
  <2>2. t + L + 2 <= s \/ s + L + 2 <= t
    <3>1. j < k \/ k < j
      BY <1>8
    <3> QED BY <3>1, SlotOrder DEF s
  <2>3. t + L + 2 <= size
    BY <1>8
  <2> HIDE DEF t
  <2>4. \A i \in t .. t + L + 1 : i \in 0 .. size - 1 /\ (i < s \/ s + Len(f) <= i)
    BY <2>1, <2>2, <2>3, <1>1, <1>2
  <2> QED BY <2>4, <1>4 DEF SlotKept, t
<1>9. \A i \in 0 .. size - 1 : s + L + 2 <= i => new[i] = buf[i]
  <2>1. s + Len(f) = s + L + 2
    BY <1>1, <1>2
  <2> QED BY <2>1, <1>4, Zenon
<1> QED BY <1>4, <1>7, <1>8, <1>9, Zenon DEF s, Written

\* END_FLAG is behind the slots before k, which are as they were.
Marked(L, size, buf, k, new) ==
  /\ new \in [0 .. size - 1 -> Nat]
  /\ new[Slot(L, k)] = 0 /\ new[Slot(L, k) + 1] = 0
  /\ \A j \in Nat : j < k => SlotKept(L, buf, new, j)

\* END_FLAG in the tail, behind slot k, touches no slot before it.
LEMMA MarkTail ==
  ASSUME NEW L \in Nat, NEW size \in Nat,
         NEW buf \in [0 .. size - 1 -> Nat], NEW k \in Nat, NEW new,
         Slot(L, k) + 2 <= size,
         new = Put(buf, Slot(L, k), LenBytes(END_FLAG))
  PROVE  Marked(L, size, buf, k, new)
<1> DEFINE s == Slot(L, k)
           f == LenBytes(END_FLAG)
<1>1. s \in Nat
  BY SlotStep
<1>2. f \in Seq(Nat) /\ Len(f) = 2 /\ f[1] = 0 /\ f[2] = 0
  BY DEF LenBytes, END_FLAG
<1>3. new = Put(buf, s, f) /\ s + 2 <= size
  BY Zenon
<1> HIDE DEF f, s
<1>o. s + Len(f) <= size
  BY <1>1, <1>2, <1>3
<1>p. Copied(size, buf, s, f, new)
  BY <1>1, <1>2, <1>3, <1>o, PutBytes, Zenon
<1>4. /\ new \in [0 .. size - 1 -> Nat]
      /\ \A i \in 1 .. Len(f) : new[s + i - 1] = f[i]
      /\ \A i \in 0 .. size - 1 : i < s \/ s + Len(f) <= i => new[i] = buf[i]
  BY <1>p, Zenon DEF Copied
<1>5. new[s] = 0 /\ new[s + 1] = 0
  <2>1. 1 \in 1 .. Len(f) /\ 2 \in 1 .. Len(f) /\ s + 1 - 1 = s /\ s + 2 - 1 = s + 1
    BY <1>1, <1>2
  <2>2. new[s + 1 - 1] = f[1] /\ new[s + 2 - 1] = f[2]
    BY <2>1, <1>4
  <2> QED BY <2>1, <2>2, <1>2
<1>6. ASSUME NEW j \in Nat, j < k PROVE SlotKept(L, buf, new, j)
  <2> DEFINE t == Slot(L, j)
  <2>1. t \in Nat
    BY SlotStep
  <2>2. t + L + 2 <= s
    BY <1>6, SlotOrder DEF s
  <2>3. s + 2 <= size
    BY DEF s
  <2> HIDE DEF t
  <2>4. \A i \in t .. t + L + 1 : i \in 0 .. size - 1 /\ i < s
    BY <2>1, <2>2, <2>3, <1>1
  <2> QED BY <2>4, <1>4 DEF SlotKept, t
<1> QED BY <1>4, <1>5, <1>6, Zenon DEF s, Marked

\* What PopPacket reads from a slot is the packet that is stored there.
LEMMA ReadSlot ==
  ASSUME NEW L \in Nat, L # 0, NEW size \in Nat, NEW buf \in [0 .. size - 1 -> Nat],
         NEW k \in Nat, NEW p \in [1 .. L -> Nat],
         Slot(L, k) + L + 2 <= size, Stored(L, buf, k, p)
  PROVE  /\ LenAt(buf, Slot(L, k)) = L /\ L # END_FLAG
         /\ Get(buf, Slot(L, k) + PACK_LEN_SIZE, L) = p
<1> DEFINE s == Slot(L, k)
<1>0. L \in Nat /\ (L % 256) + 256 * (L \div 256) = L /\ L # 0
  OBVIOUS
<1>1. s \in Nat
  BY <1>0, SlotStep, Zenon
<1>2. s + L + 2 <= size
  BY Zenon
<1>3. buf[s] = L % 256 /\ buf[s + 1] = L \div 256 /\ \A i \in 1 .. L : buf[s + 1 + i] = p[i]
  BY Zenon DEF Stored
<1> HIDE DEF s
<1>5. ASSUME NEW i \in 1 .. L
      PROVE  (IF (s + 2) + i - 1 \in DOMAIN buf THEN buf[(s + 2) + i - 1] ELSE Outside) = p[i]
  <2>1. (s + 2) + i - 1 = s + 1 + i /\ s + 1 + i \in 0 .. size - 1
    BY <1>1, <1>2
  <2>2. DOMAIN buf = 0 .. size - 1
    OBVIOUS
  <2> QED BY <2>1, <2>2, <1>3, Zenon
<1>6. Get(buf, s + 2, L) = p
  <2>1. p = [i \in 1 .. L |-> p[i]]
    OBVIOUS
  <2> QED BY <1>5, <2>1, Zenon DEF Get
<1>7. LenAt(buf, s) = L
  BY <1>3, <1>0, Zenon DEF LenAt
<1> QED BY <1>0, <1>6, <1>7, Zenon DEF s, END_FLAG, PACK_LEN_SIZE

-----------------------------------------------------------------------------
(* The reader.                                                             *)

\* A slot of the ring lies in the buffer.
LEMMA SlotInside ==
  ASSUME NEW L \in Nat, buf_size_ \in Nat, NEW k \in Nat, k < Slots(L)
  PROVE  Slot(L, k) + L + 2 <= buf_size_
<1>1. Slots(L) \in Nat /\ Slot(L, Slots(L)) <= buf_size_
  BY SlotsFit, Zenon
<1>2. Slot(L, k) + L + 2 <= Slot(L, Slots(L))
  BY <1>1, SlotOrder, Zenon
<1>3. Slot(L, k) \in Nat /\ Slot(L, Slots(L)) \in Nat
  BY <1>1, SlotStep, Zenon
<1> QED BY <1>1, <1>2, <1>3

\* A reader that skips the tail is at the start of the writer's lap.
LEMMA TailSkipped ==
  ASSUME NEW L \in Nat, buf_size_ \in Nat, NEW w \in Nat, NextLap(L, w, Slots(L))
  PROVE  SameLap(L, w, 0)
<1> DEFINE n == Slots(L)
<1>1. n \in Nat
  BY SlotsFit, Zenon
<1>2. /\ Waiting = w + n - n
      /\ \A k \in 0 .. w - 1 : Stored(L, buffer_, k, WaitingAt(k + n - n))
  BY DEF NextLap
<1> HIDE DEF n
<1>3. Waiting = w - 0 /\ 0 <= w
  BY <1>1, <1>2
<1>4. \A k \in 0 .. w - 1 : k + n - n = k - 0
  BY <1>1
<1>5. \A k \in 0 .. w - 1 : Stored(L, buffer_, k, WaitingAt(k - 0))
  BY <1>2, <1>4
<1> QED BY <1>3, <1>5 DEF SameLap

\* A reader before slot q that is not in the tail: the packet there is the first one.
AtPacket(L, w, q) ==
  /\ q \in Nat /\ q < Slots(L)
  /\ SameLap(L, w, q) \/ NextLap(L, w, q)
  /\ Stored(L, buffer_, q, WaitingAt(0))

LEMMA FirstPacket ==
  ASSUME NEW L \in Nat, buf_size_ \in Nat, NEW w \in 0 .. Slots(L), NEW q \in 0 .. Slots(L),
         SameLap(L, w, q) \/ NextLap(L, w, q), Waiting > 0,
         q < Slots(L) \/ SameLap(L, w, q)
  PROVE  AtPacket(L, w, q)
<1>1. Slots(L) \in Nat
  BY SlotsFit, Zenon
<1>2. q - q = 0 /\ q \in Nat
  BY <1>1
<1>3. CASE SameLap(L, w, q)
  <2>1. Waiting = w - q /\ \A k \in q .. w - 1 : Stored(L, buffer_, k, WaitingAt(k - q))
    BY <1>3 DEF SameLap
  <2>2. q \in q .. w - 1 /\ q < Slots(L)
    BY <1>1, <2>1
  <2>3. Stored(L, buffer_, q, WaitingAt(q - q))
    BY <2>1, <2>2, Zenon
  <2>4. Stored(L, buffer_, q, WaitingAt(0))
    BY <1>2, <2>3
  <2> QED BY <1>2, <1>3, <2>2, <2>4 DEF AtPacket
<1>4. CASE NextLap(L, w, q) /\ q < Slots(L)
  <2>1. \A k \in q .. Slots(L) - 1 : Stored(L, buffer_, k, WaitingAt(k - q))
    BY <1>4 DEF NextLap
  <2>2. q \in q .. Slots(L) - 1
    BY <1>1, <1>4
  <2>3. Stored(L, buffer_, q, WaitingAt(q - q))
    BY <2>1, <2>2, Zenon
  <2>4. Stored(L, buffer_, q, WaitingAt(0))
    BY <1>2, <2>3
  <2> QED BY <1>2, <1>4, <2>4 DEF AtPacket
<1> QED BY <1>3, <1>4

\* The packets that wait are packets.
LEMMA WaitingPacket ==
  ASSUME NEW L \in Nat, FifoTypes(L), Waiting > 0
  PROVE  WaitingAt(0) \in [1 .. L -> Nat] /\ WaitingAt(0) = sent[Len(got) + 1]
<1>1. sent \in Seq([1 .. L -> Nat]) /\ Len(got) \in Nat /\ Len(sent) \in Nat
  BY DEF FifoTypes
<1>2. Len(got) + 1 + 0 = Len(got) + 1 /\ Len(got) + 1 \in 1 .. Len(sent)
  BY <1>1 DEF Waiting
<1> QED BY <1>1, <1>2 DEF WaitingAt

\* The length and the packet that a reader at a packet sees.
LEMMA PacketRead ==
  ASSUME NEW L \in Nat, L # 0, FifoTypes(L), NEW w, NEW q, AtPacket(L, w, q), Waiting > 0
  PROVE  /\ Slot(L, q) \in Nat /\ Slot(L, q) + L + 2 <= buf_size_
         /\ LenAt(buffer_, Slot(L, q)) = L /\ L # END_FLAG
         /\ Get(buffer_, Slot(L, q) + PACK_LEN_SIZE, L) = sent[Len(got) + 1]
<1>1. q \in Nat /\ q < Slots(L) /\ Stored(L, buffer_, q, WaitingAt(0))
  BY DEF AtPacket
<1>2. buf_size_ \in Nat /\ buffer_ \in [0 .. buf_size_ - 1 -> Nat]
  BY DEF FifoTypes
<1>3. Slot(L, q) + L + 2 <= buf_size_ /\ Slot(L, q) \in Nat
  BY <1>1, <1>2, SlotInside, SlotStep, Zenon
<1>4. WaitingAt(0) \in [1 .. L -> Nat] /\ WaitingAt(0) = sent[Len(got) + 1]
  BY WaitingPacket, Zenon
<1>5. /\ LenAt(buffer_, Slot(L, q)) = L /\ L # END_FLAG
      /\ Get(buffer_, Slot(L, q) + PACK_LEN_SIZE, L) = WaitingAt(0)
  BY <1>1, <1>2, <1>3, <1>4, ReadSlot, Zenon
<1> QED BY <1>3, <1>4, <1>5, Zenon

\* What a reader finds: it is at a packet, or in the tail, behind which the packet
\* is in slot 0.  SkipEnd and the test of END_FLAG tell the two apart.
LEMMA NextSlot ==
  ASSUME NEW L \in Nat, L # 0, FifoTypes(L), NEW w \in 0 .. Slots(L), NEW r \in 0 .. Slots(L),
         SameLap(L, w, r) \/ NextLap(L, w, r), Waiting > 0, read_pos_ = Slot(L, r)
  PROVE  \/ /\ AtPacket(L, w, r)
            /\ SkipEnd(read_pos_) = Slot(L, r)
            /\ LenAt(buffer_, SkipEnd(read_pos_)) # END_FLAG
            /\ NextPack(read_pos_) = Slot(L, r)
         \/ /\ r = Slots(L) /\ NextLap(L, w, r) /\ AtPacket(L, w, 0)
            /\ NextPack(read_pos_) = Slot(L, 0)
            /\ \/ /\ SkipEnd(read_pos_) = Slot(L, 0)
                  /\ LenAt(buffer_, SkipEnd(read_pos_)) # END_FLAG
               \/ SkipEnd(read_pos_) = Slot(L, r)
<1>1. buf_size_ \in Nat
  BY DEF FifoTypes
<1>2. Slots(L) \in Nat /\ Slot(L, 0) = 0 /\ Slot(L, r) \in Nat
  BY <1>1, SlotsFit, SlotStep
<1>3. CASE r < Slots(L) \/ SameLap(L, w, r)
  <2>1. AtPacket(L, w, r)
    BY <1>1, <1>3, FirstPacket, Zenon
  <2>2. /\ Slot(L, r) + L + 2 <= buf_size_
        /\ LenAt(buffer_, Slot(L, r)) = L /\ L # END_FLAG
    BY <2>1, PacketRead, Zenon
  <2>3. ~(Slot(L, r) + PACK_LEN_SIZE > buf_size_)
    BY <2>2, <1>1, <1>2 DEF PACK_LEN_SIZE
  <2>4. SkipEnd(read_pos_) = Slot(L, r)
    BY <2>3 DEF SkipEnd
  <2>5. LenAt(buffer_, SkipEnd(read_pos_)) # END_FLAG
    BY <2>2, <2>4, Zenon
  <2>6. NextPack(read_pos_) = Slot(L, r)
    BY <2>4, <2>5, Zenon DEF NextPack
  <2> QED BY <2>1, <2>4, <2>5, <2>6
<1>4. CASE r = Slots(L) /\ NextLap(L, w, r)
  <2>1. SameLap(L, w, 0)
    BY <1>1, <1>2, <1>4, TailSkipped
  <2>2. AtPacket(L, w, 0)
    BY <1>1, <1>2, <2>1, FirstPacket
  <2>3. LenAt(buffer_, Slot(L, 0)) = L /\ L # END_FLAG
    BY <2>2, PacketRead, Zenon
  <2>4. CASE Slot(L, r) + PACK_LEN_SIZE > buf_size_
    <3>1. SkipEnd(read_pos_) = Slot(L, 0)
      BY <2>4, <1>2 DEF SkipEnd
    <3>2. LenAt(buffer_, SkipEnd(read_pos_)) # END_FLAG
      BY <2>3, <3>1, Zenon
    <3>3. NextPack(read_pos_) = Slot(L, 0)
      BY <3>1, <3>2, <1>2, Zenon DEF NextPack
    <3> QED BY <1>4, <2>2, <3>1, <3>2, <3>3
  <2>5. CASE ~(Slot(L, r) + PACK_LEN_SIZE > buf_size_)
    <3>1. SkipEnd(read_pos_) = Slot(L, r)
      BY <2>5 DEF SkipEnd
    <3>2. Slot(L, r) + PACK_LEN_SIZE <= buf_size_
      BY <2>5, <1>1, <1>2 DEF PACK_LEN_SIZE
    <3>3. buffer_[Slot(L, r)] = 0 /\ buffer_[Slot(L, r) + 1] = 0
      BY <3>2, <1>4 DEF NextLap, TailMarked
    <3>4. LenAt(buffer_, Slot(L, r)) = END_FLAG
      BY <3>3 DEF LenAt, END_FLAG
    <3>5. NextPack(read_pos_) = Slot(L, 0)
      BY <3>1, <3>4, <1>2 DEF NextPack
    <3> QED BY <1>4, <2>2, <3>1, <3>5
  <2> QED BY <2>4, <2>5
<1>5. r < Slots(L) \/ r = Slots(L)
  BY <1>2
<1> QED BY <1>3, <1>4, <1>5

-----------------------------------------------------------------------------
(* The operations.                                                         *)

\* The ring when nothing of it moves.
LEMMA RingUnmoved ==
  ASSUME NEW L, NEW w, NEW r, UNCHANGED <<buf_size_, buffer_, sent, got>>
  PROVE  /\ SameLap(L, w, r) => SameLap(L, w, r)'
         /\ NextLap(L, w, r) => NextLap(L, w, r)'
         /\ Slots(L)' = Slots(L) /\ Waiting' = Waiting
<1>1. Slots(L)' = Slots(L) /\ Waiting' = Waiting
  BY DEF Slots, Waiting
<1>2. \A i : WaitingAt(i)' = WaitingAt(i)
  BY DEF WaitingAt
<1>3. SameLap(L, w, r) => SameLap(L, w, r)'
  BY <1>1, <1>2, Zenon DEF SameLap
<1>4. TailMarked(L) => TailMarked(L)'
  BY <1>1 DEF TailMarked
<1>5. NextLap(L, w, r) => NextLap(L, w, r)'
  BY <1>1, <1>2, <1>4, Zenon DEF NextLap
<1> QED BY <1>1, <1>3, <1>5, Zenon

\* A packet that is taken from slot q leaves the reader before the next one.
LEMMA ReaderAdvances ==
  ASSUME NEW L \in Nat, FifoTypes(L), NEW w \in 0 .. Slots(L), NEW q, AtPacket(L, w, q),
         Waiting > 0, NEW p, got' = Append(got, p),
         UNCHANGED <<buf_size_, buffer_, sent>>
  PROVE  /\ SameLap(L, w, q + 1)' \/ NextLap(L, w, q + 1)'
         /\ Waiting' = Waiting - 1 /\ Slots(L)' = Slots(L)
<1>1. Len(got) \in Nat /\ Len(got') = Len(got) + 1 /\ Len(sent) \in Nat
  BY DEF FifoTypes
<1>2. Waiting' = Waiting - 1 /\ Waiting \in Int
  BY <1>1 DEF Waiting
<1>3. Slots(L)' = Slots(L) /\ Slots(L) \in Nat /\ q \in Nat /\ q < Slots(L)
  BY SlotsFit DEF FifoTypes, Slots, AtPacket
<1>4. ASSUME NEW i \in Int PROVE WaitingAt(i)' = WaitingAt(i + 1)
  <2>1. Len(got') + 1 + i = Len(got) + 1 + (i + 1)
    BY <1>1
  <2> QED BY <2>1 DEF WaitingAt
<1>5. CASE SameLap(L, w, q)
  <2>1. /\ Waiting = w - q
        /\ \A k \in q .. w - 1 : Stored(L, buffer_, k, WaitingAt(k - q))
    BY <1>5 DEF SameLap
  <2>2. q + 1 <= w /\ Waiting' = w - (q + 1)
    BY <2>1, <1>2, <1>3
  <2>3. ASSUME NEW k \in q + 1 .. w - 1 PROVE Stored(L, buffer_', k, WaitingAt(k - (q + 1))')
    <3>1. k \in q .. w - 1 /\ k - (q + 1) \in Int /\ (k - (q + 1)) + 1 = k - q
      BY <1>3
    <3>2. WaitingAt(k - (q + 1))' = WaitingAt(k - q)
      BY <3>1, <1>4
    <3> QED BY <2>1, <3>1, <3>2
  <2>4. SameLap(L, w, q + 1)'
    BY <2>2, <2>3 DEF SameLap
  <2> QED BY <1>2, <1>3, <2>4
<1>6. CASE NextLap(L, w, q)
  <2>1. /\ w <= q /\ Waiting = w + Slots(L) - q
        /\ \A k \in q .. Slots(L) - 1 : Stored(L, buffer_, k, WaitingAt(k - q))
        /\ \A k \in 0 .. w - 1 : Stored(L, buffer_, k, WaitingAt(k + Slots(L) - q))
        /\ TailMarked(L)
    BY <1>6 DEF NextLap
  <2>2. w <= q + 1 /\ Waiting' = w + Slots(L)' - (q + 1)
    BY <2>1, <1>2, <1>3
  <2>3. ASSUME NEW k \in q + 1 .. Slots(L) - 1
        PROVE  Stored(L, buffer_', k, WaitingAt(k - (q + 1))')
    <3>1. k \in q .. Slots(L) - 1 /\ k - (q + 1) \in Int /\ (k - (q + 1)) + 1 = k - q
      BY <1>3
    <3>2. WaitingAt(k - (q + 1))' = WaitingAt(k - q)
      BY <3>1, <1>4
    <3> QED BY <2>1, <3>1, <3>2
  <2>4. ASSUME NEW k \in 0 .. w - 1
        PROVE  Stored(L, buffer_', k, WaitingAt(k + Slots(L) - (q + 1))')
    <3>1. /\ k + Slots(L) - (q + 1) \in Int
          /\ (k + Slots(L) - (q + 1)) + 1 = k + Slots(L) - q
      BY <1>3
    <3>2. \A i \in Int : WaitingAt(i)' = WaitingAt(i + 1)
      BY <1>4
    <3>3. WaitingAt(k + Slots(L) - (q + 1))' = WaitingAt(k + Slots(L) - q)
      <4>1. \A i, j \in Int : i + 1 = j => sent'[Len(got') + 1 + i] = sent[Len(got) + 1 + j]
        BY <1>1
      <4> QED BY <3>1, <4>1, <1>3 DEF WaitingAt
    <3> QED BY <2>1, <3>3
  <2>5. TailMarked(L)'
    BY <2>1, <1>3 DEF TailMarked
  <2>6. NextLap(L, w, q + 1)'
    BY <2>2, <2>3, <2>4, <2>5, <1>3 DEF NextLap
  <2> QED BY <1>2, <1>3, <2>6
<1> QED BY <1>5, <1>6 DEF AtPacket

\* The threads of a crew that peeks are one.
LEMMA PeekerAlone ==
  ASSUME PeekersAlone, DOMAIN pc \in PeekingCrews, NEW c \in DOMAIN pc, NEW d \in DOMAIN pc
  PROVE  c = d
BY DEF PeekersAlone

\* Nobody peeks while a thread is elsewhere in a call.
LEMMA NobodyPeeks ==
  ASSUME PeekersAlone, Peeking => DOMAIN pc \in PeekingCrews,
         NEW c \in DOMAIN pc, pc[c] # "peek"
  PROVE  ~Peeking
BY PeekerAlone DEF Peeking

\* An empty queue, and how many bytes wait in one that is not.
LEMMA BytesWaiting ==
  ASSUME NEW L \in Nat, FifoTypes(L), write_bytes_ = read_bytes_ + Slot(L, Waiting),
         Waiting \in Nat
  PROVE  Empty <=> Waiting = 0
<1>1. Slot(L, Waiting) \in Nat /\ Slot(L, 0) = 0
  BY SlotStep
<1>2. Waiting # 0 => Slot(L, 0) + L + 2 <= Slot(L, Waiting)
  <2>1. 0 \in Nat /\ (Waiting # 0 => 0 < Waiting)
    OBVIOUS
  <2> QED BY <2>1, SlotOrder, Zenon
<1>3. read_bytes_ \in Nat /\ write_bytes_ \in Nat
  BY DEF FifoTypes
<1>4. CASE Waiting = 0
  BY <1>1, <1>3, <1>4 DEF Empty
<1>5. CASE Waiting # 0
  BY <1>1, <1>2, <1>3, <1>5 DEF Empty
<1> QED BY <1>4, <1>5

\* There are no fewer packets than none.
LEMMA WaitingNat ==
  ASSUME NEW L \in Nat, buf_size_ \in Nat, NEW w \in 0 .. Slots(L), NEW r \in 0 .. Slots(L),
         SameLap(L, w, r) \/ NextLap(L, w, r)
  PROVE  Waiting \in Nat
<1>1. Slots(L) \in Nat
  BY SlotsFit, Zenon
<1>2. CASE SameLap(L, w, r)
  BY <1>1, <1>2 DEF SameLap
<1>3. CASE NextLap(L, w, r)
  BY <1>1, <1>3 DEF NextLap
<1> QED BY <1>2, <1>3

\* PopPacket returns the packet that was pushed first, and keeps the ring in order.
LEMMA TakeStep ==
  ASSUME NEW L \in Nat, L # 0, PeekersAlone, RingInv(L), ~Empty,
         NEW c \in DOMAIN pc, pc[c] # "peek", TakePacket(c)
  PROVE  /\ RingInv(L)'
         /\ Waiting > 0 /\ got' = Append(got, sent[Len(got) + 1]) /\ sent' = sent
<1>0. FifoTypes(L) /\ write_bytes_ = read_bytes_ + Slot(L, Waiting) /\ buf_size_ \in Nat
  BY DEF RingInv, FifoTypes
<1>1. PICK w \in 0 .. Slots(L), r \in 0 .. Slots(L) : Positions(L, w, r)
  BY DEF RingInv
<1>2. /\ write_pos_ = Slot(L, w) /\ read_pos_ = Slot(L, r)
      /\ SameLap(L, w, r) \/ NextLap(L, w, r)
      /\ Peeking => DOMAIN pc \in PeekingCrews
  BY <1>1 DEF Positions
<1>3. Waiting \in Nat
  BY <1>0, <1>2, WaitingNat, Zenon
<1>4. Waiting > 0
  <2>1. ~(Waiting = 0)
    BY <1>0, <1>3, BytesWaiting
  <2> QED BY <2>1, <1>3
<1>5. PICK q : AtPacket(L, w, q) /\ NextPack(read_pos_) = Slot(L, q)
  BY <1>0, <1>2, <1>4, NextSlot
<1>6. /\ Slot(L, q) \in Nat /\ Slot(L, q) + L + 2 <= buf_size_
      /\ LenAt(buffer_, Slot(L, q)) = L
      /\ Get(buffer_, Slot(L, q) + PACK_LEN_SIZE, L) = sent[Len(got) + 1]
  BY <1>0, <1>4, <1>5, PacketRead, Zenon
<1>7. /\ got' = Append(got, sent[Len(got) + 1])
      /\ read_pos_' = Slot(L, q) + PACK_LEN_SIZE + L
      /\ read_bytes_' = read_bytes_ + L + PACK_LEN_SIZE
      /\ pc' = [pc EXCEPT ![c] = "idle"]
      /\ UNCHANGED <<buf_size_, buffer_, write_pos_, write_bytes_, sent>>
  BY <1>5, <1>6, Zenon DEF TakePacket
<1>8. /\ SameLap(L, w, q + 1)' \/ NextLap(L, w, q + 1)'
      /\ Waiting' = Waiting - 1 /\ Slots(L)' = Slots(L)
  BY <1>0, <1>4, <1>5, <1>7, ReaderAdvances
<1>9. q \in Nat /\ q < Slots(L) /\ Slots(L) \in Nat
  BY <1>0, <1>5, SlotsFit, Zenon DEF AtPacket
<1>10. read_pos_' = Slot(L, q + 1)
  <2>1. Slot(L, q + 1) = Slot(L, q) + L + 2
    BY <1>9, SlotStep, Zenon
  <2> QED BY <1>6, <1>7, <2>1 DEF PACK_LEN_SIZE
<1>11. ~Peeking /\ ~Peeking' /\ pc' = [d \in DOMAIN pc' |-> pc'[d]]
  <2>1. ~Peeking
    BY <1>2, NobodyPeeks, Zenon
  <2>2. pc = [d \in DOMAIN pc |-> pc[d]]
    BY <1>0 DEF FifoTypes
  <2> QED BY <1>7, <2>1, <2>2 DEF Peeking
<1>12. Positions(L, w, q + 1)'
  BY <1>2, <1>7, <1>8, <1>10, <1>11 DEF Positions, Slot
<1>13. \E a, b \in 0 .. Slots(L)' : Positions(L, a, b)'
  <2>1. w \in 0 .. Slots(L)' /\ q + 1 \in 0 .. Slots(L)'
    BY <1>8, <1>9
  <2> QED BY <2>1, <1>12
<1>14. write_bytes_' = read_bytes_' + Slot(L, Waiting)'
  <2>1. Waiting - 1 \in Nat /\ (Waiting - 1) + 1 = Waiting
    BY <1>3, <1>4
  <2>2. /\ Slot(L, (Waiting - 1) + 1) = Slot(L, Waiting - 1) + L + 2
        /\ Slot(L, Waiting - 1) \in Nat
    BY <2>1, SlotStep, Zenon
  <2>3. Slot(L, Waiting) = Slot(L, Waiting - 1) + L + 2
    BY <2>1, <2>2
  <2>4. Slot(L, Waiting)' = Slot(L, Waiting - 1)
    BY <1>8 DEF Slot
  <2> QED BY <1>0, <1>7, <2>2, <2>3, <2>4 DEF FifoTypes, PACK_LEN_SIZE
<1>15. Len(got) + 1 \in 1 .. Len(sent) /\ sent[Len(got) + 1] \in [1 .. L -> Nat] /\ Len(got) \in Nat
  <2>1. sent \in Seq([1 .. L -> Nat]) /\ Len(got) \in Nat /\ Len(sent) \in Nat
    BY <1>0 DEF FifoTypes
  <2>2. Len(got) + 1 \in 1 .. Len(sent)
    BY <2>1, <1>4 DEF Waiting
  <2> QED BY <2>1, <2>2
<1>16. FifoTypes(L)'
  <2>1. got' \in Seq([1 .. L -> Nat])
    BY <1>0, <1>7, <1>15 DEF FifoTypes
  <2>2. read_bytes_' \in Nat
    BY <1>0, <1>7 DEF FifoTypes, PACK_LEN_SIZE
  <2> QED BY <1>0, <1>7, <1>11, <2>1, <2>2 DEF FifoTypes
<1>17. PacketsIntact'
  <2>1. PacketsIntact /\ got \in Seq([1 .. L -> Nat])
    BY <1>0 DEF RingInv, FifoTypes
  <2>2. ASSUME NEW i \in DOMAIN got' PROVE i <= Len(sent') /\ got'[i] = sent'[i]
    <3>1. i \in 1 .. Len(got) + 1
      BY <2>1, <1>7
    <3>2. CASE i = Len(got) + 1
      BY <3>2, <1>7, <1>15, <2>1
    <3>3. CASE i # Len(got) + 1
      <4>1. i \in 1 .. Len(got) /\ got'[i] = got[i]
        BY <3>1, <3>3, <1>7, <1>15, <2>1
      <4>2. i <= Len(sent) /\ got[i] = sent[i]
        BY <4>1, <2>1 DEF PacketsIntact
      <4> QED BY <4>1, <4>2, <1>7
    <3> QED BY <3>2, <3>3
  <2> QED BY <2>2 DEF PacketsIntact
<1> QED BY <1>4, <1>7, <1>13, <1>14, <1>16, <1>17, Zenon DEF RingInv

\* notify_one wakes a thread that waits: it makes nobody peek.
LEMMA NotifyFacts ==
  ASSUME pc = [c \in DOMAIN pc |-> pc[c]], NotifyOne
  PROVE  /\ pc' = [c \in DOMAIN pc' |-> pc'[c]] /\ DOMAIN pc' = DOMAIN pc
         /\ Peeking' => Peeking
<1>1. CASE UNCHANGED pc
  BY <1>1 DEF Peeking
<1>2. CASE \E c \in DOMAIN pc : pc[c] = "waiting" /\ pc' = [pc EXCEPT ![c] = "woken"]
  BY <1>2 DEF Peeking
<1> QED BY <1>1, <1>2 DEF NotifyOne

\* What a packet at the end of the queue changes of the packets that wait.
LEMMA OneMoreWaits ==
  ASSUME NEW L \in Nat, FifoTypes(L), Waiting \in Nat, NEW p \in [1 .. L -> Nat],
         sent' = Append(sent, p), got' = got
  PROVE  /\ Waiting' = Waiting + 1
         /\ \A i \in Nat : i < Waiting => WaitingAt(i)' = WaitingAt(i)
         /\ \A i \in Nat : i = Waiting => WaitingAt(i)' = p
<1>1. sent \in Seq([1 .. L -> Nat]) /\ Len(got) \in Nat /\ Len(sent) \in Nat
  BY DEF FifoTypes
<1>2. Len(sent') = Len(sent) + 1 /\ sent'[Len(sent) + 1] = p
  BY <1>1
<1>3. \A j \in 1 .. Len(sent) : sent'[j] = sent[j]
  BY <1>1
<1>4. Waiting' = Waiting + 1
  BY <1>1, <1>2 DEF Waiting
<1>5. ASSUME NEW i \in Nat, i < Waiting PROVE WaitingAt(i)' = WaitingAt(i)
  <2>1. Len(got) + 1 + i \in 1 .. Len(sent)
    BY <1>1, <1>5 DEF Waiting
  <2> QED BY <2>1, <1>3 DEF WaitingAt
<1>6. ASSUME NEW i \in Nat, i = Waiting PROVE WaitingAt(i)' = p
  <2>1. Len(got) + 1 + i = Len(sent) + 1
    BY <1>1, <1>6 DEF Waiting
  <2> QED BY <2>1, <1>2 DEF WaitingAt
<1> QED BY <1>4, <1>5, <1>6

\* The overflow test leaves a slot for the packet it lets pass.
LEMMA RoomForOne ==
  ASSUME NEW L \in Nat, FifoTypes(L), write_bytes_ = read_bytes_ + Slot(L, Waiting),
         Waiting \in Nat, Fits(L)
  PROVE  Waiting < Slots(L)
<1>1. /\ buf_size_ \in Nat /\ read_bytes_ \in Nat /\ write_bytes_ \in Nat
  BY DEF FifoTypes
<1>2. Slots(L) \in Nat /\ buf_size_ < Slot(L, Slots(L)) + L + 2
  BY <1>1, SlotsFit, Zenon
<1>3. Slot(L, Waiting) \in Nat /\ Slot(L, Slots(L)) \in Nat
  BY <1>2, SlotStep, Zenon
<1>4. Slot(L, Waiting) + 2 * L + 2 <= buf_size_
  BY <1>1, <1>3 DEF Fits, PACK_LEN_SIZE
<1>5. Slot(L, Waiting) < Slot(L, Slots(L))
  BY <1>1, <1>2, <1>3, <1>4
<1>6. CASE Waiting = Slots(L)
  BY <1>3, <1>5, <1>6
<1>7. CASE Slots(L) < Waiting
  <2>1. Slot(L, Slots(L)) + L + 2 <= Slot(L, Waiting)
    BY <1>2, <1>7, SlotOrder, Zenon
  <2> QED BY <1>3, <1>5, <2>1
<1> QED BY <1>2, <1>6, <1>7

\* A packet that goes behind the last one, without a wrap.
LEMMA WriterAdvances ==
  ASSUME NEW L \in Nat, FifoTypes(L), NEW w \in Nat, NEW r \in 0 .. Slots(L), w < Slots(L),
         SameLap(L, w, r) \/ NextLap(L, w, r), Waiting \in Nat, Waiting < Slots(L),
         NEW p \in [1 .. L -> Nat], sent' = Append(sent, p), got' = got,
         buf_size_' = buf_size_, buffer_' = Put(buffer_, Slot(L, w), LenBytes(L) \o p)
  PROVE  /\ buffer_' \in [0 .. buf_size_ - 1 -> Nat]
         /\ SameLap(L, w, r) => SameLap(L, w + 1, r)'
         /\ NextLap(L, w, r) => NextLap(L, w + 1, r)'
<1>1. buf_size_ \in Nat /\ buffer_ \in [0 .. buf_size_ - 1 -> Nat]
  BY DEF FifoTypes
<1>2. Slots(L) \in Nat /\ Slots(L)' = Slots(L)
  BY <1>1, SlotsFit DEF Slots
<1>3. Slot(L, w) + L + 2 <= buf_size_
  BY <1>1, SlotInside, Zenon
<1>4. /\ buffer_' \in [0 .. buf_size_ - 1 -> Nat]
      /\ Stored(L, buffer_', w, p)
      /\ \A j \in Nat : j # w /\ Slot(L, j) + L + 2 <= buf_size_ => SlotKept(L, buffer_, buffer_', j)
      /\ \A i \in 0 .. buf_size_ - 1 : Slot(L, w) + L + 2 <= i => buffer_'[i] = buffer_[i]
  <2>1. \A new : new = Put(buffer_, Slot(L, w), LenBytes(L) \o p) => Written(L, buf_size_, buffer_, w, p, new)
    BY <1>1, <1>3, WriteSlot, Zenon
  <2> QED BY <2>1, Zenon DEF Written
<1>5. /\ Waiting' = Waiting + 1
      /\ \A i \in Nat : i < Waiting => WaitingAt(i)' = WaitingAt(i)
      /\ \A i \in Nat : i = Waiting => WaitingAt(i)' = p
  BY OneMoreWaits, Zenon
<1>6. ASSUME NEW k \in Nat, k < Slots(L), k # w, NEW i \in Nat, i < Waiting,
             Stored(L, buffer_, k, WaitingAt(i))
      PROVE  Stored(L, buffer_', k, WaitingAt(i)')
  <2>1. Slot(L, k) + L + 2 <= buf_size_
    BY <1>1, <1>6, SlotInside, Zenon
  <2>2. SlotKept(L, buffer_, buffer_', k)
    BY <2>1, <1>4, <1>6, Zenon
  <2>3. Stored(L, buffer_', k, WaitingAt(i))
    BY <2>2, <1>6, StoredKept, Zenon
  <2> QED BY <2>3, <1>5, <1>6
<1>7. ASSUME NEW i \in Nat, i = Waiting PROVE Stored(L, buffer_', w, WaitingAt(i)')
  BY <1>4, <1>5, <1>7
<1>8. ASSUME SameLap(L, w, r) PROVE SameLap(L, w + 1, r)'
  <2>1. /\ r <= w /\ Waiting = w - r
        /\ \A k \in r .. w - 1 : Stored(L, buffer_, k, WaitingAt(k - r))
    BY <1>8 DEF SameLap
  <2>2. r <= w + 1 /\ Waiting' = (w + 1) - r
    BY <2>1, <1>2, <1>5
  <2>3. ASSUME NEW k \in r .. (w + 1) - 1 PROVE Stored(L, buffer_', k, WaitingAt(k - r)')
    <3>0. k \in Nat /\ k - r \in Nat /\ k < Slots(L)
      BY <1>2
    <3>1. CASE k = w
      <4>1. k - r = Waiting
        BY <3>1, <2>1
      <4> QED BY <3>0, <3>1, <4>1, <1>7
    <3>2. CASE k # w
      <4>1. k \in r .. w - 1 /\ k - r < Waiting
        BY <3>0, <3>2, <2>1, <1>2
      <4> QED BY <3>0, <3>2, <4>1, <2>1, <1>6
    <3> QED BY <3>1, <3>2
  <2> QED BY <2>2, <2>3 DEF SameLap
<1>9. ASSUME NextLap(L, w, r) PROVE NextLap(L, w + 1, r)'
  <2> DEFINE n == Slots(L)
  <2>1. /\ w <= r /\ Waiting = w + n - r
        /\ \A k \in r .. n - 1 : Stored(L, buffer_, k, WaitingAt(k - r))
        /\ \A k \in 0 .. w - 1 : Stored(L, buffer_, k, WaitingAt(k + n - r))
        /\ TailMarked(L)
    BY <1>9 DEF NextLap
  <2>2. w + 1 <= r /\ Waiting' = (w + 1) + n - r
    BY <2>1, <1>2, <1>5
  <2>3. ASSUME NEW k \in r .. n - 1 PROVE Stored(L, buffer_', k, WaitingAt(k - r)')
    <3>1. k \in Nat /\ k - r \in Nat /\ k < n /\ k # w /\ k - r < Waiting
      BY <1>2, <2>1, <2>2
    <3> QED BY <3>1, <2>1, <1>6
  <2>4. ASSUME NEW k \in 0 .. (w + 1) - 1, NEW i, i = k + n - r
        PROVE  Stored(L, buffer_', k, WaitingAt(i)')
    <3>0. k \in Nat /\ i \in Nat /\ k < n
      BY <1>2, <2>4
    <3>1. CASE k = w
      <4>1. i = Waiting
        BY <3>1, <2>1, <2>4
      <4> QED BY <3>0, <3>1, <4>1, <1>7
    <3>2. CASE k # w
      <4>1. k \in 0 .. w - 1 /\ i < Waiting
        BY <3>0, <3>2, <2>1, <2>4, <1>2
      <4>2. Stored(L, buffer_, k, WaitingAt(i))
        BY <4>1, <2>1, <2>4
      <4> QED BY <3>0, <3>2, <4>1, <4>2, <1>6
    <3> QED BY <3>1, <3>2
  <2>5. TailMarked(L)'
    <3> DEFINE t == Slot(L, n)
    <3>1. t \in Nat /\ Slot(L, w) \in Nat /\ Slot(L, w) + L + 2 <= t
      BY <1>2, SlotStep, SlotOrder, Zenon
    <3>2. ASSUME t + PACK_LEN_SIZE <= buf_size_ PROVE buffer_'[t] = 0 /\ buffer_'[t + 1] = 0
      <4>1. buffer_[t] = 0 /\ buffer_[t + 1] = 0
        BY <2>1, <3>2 DEF TailMarked
      <4> HIDE DEF t
      <4>2. /\ t \in 0 .. buf_size_ - 1 /\ t + 1 \in 0 .. buf_size_ - 1
            /\ Slot(L, w) + L + 2 <= t /\ Slot(L, w) + L + 2 <= t + 1
        BY <3>1, <3>2, <1>1 DEF PACK_LEN_SIZE
      <4> QED BY <4>1, <4>2, <1>4, Zenon
    <3> QED BY <3>2, <1>2 DEF TailMarked, Slot
  <2>6. \A k \in 0 .. (w + 1) - 1 : Stored(L, buffer_', k, sent'[Len(got') + 1 + (k + n - r)])
    <3>1. \A k \in 0 .. (w + 1) - 1 : \A i :
            i = k + n - r => Stored(L, buffer_', k, sent'[Len(got') + 1 + i])
      BY <2>4, Zenon DEF WaitingAt
    <3> QED BY <3>1, Zenon
  <2> QED BY <2>2, <2>3, <2>5, <2>6, <1>2 DEF NextLap, WaitingAt
<1> QED BY <1>4, <1>8, <1>9

\* A packet that does not fit behind the last one goes to slot 0, behind END_FLAG.
LEMMA WriterWraps ==
  ASSUME NEW L \in Nat, FifoTypes(L), NEW r \in 0 .. Slots(L), SameLap(L, Slots(L), r),
         Waiting \in Nat, Waiting < Slots(L),
         NEW p \in [1 .. L -> Nat], sent' = Append(sent, p), got' = got,
         buf_size_' = buf_size_, NEW marked,
         buffer_' = Put(marked, Slot(L, 0), LenBytes(L) \o p),
         \/ /\ Slot(L, Slots(L)) + 2 <= buf_size_
            /\ marked = Put(buffer_, Slot(L, Slots(L)), LenBytes(END_FLAG))
         \/ /\ ~(Slot(L, Slots(L)) + 2 <= buf_size_)
            /\ marked = buffer_
  PROVE  /\ buffer_' \in [0 .. buf_size_ - 1 -> Nat]
         /\ NextLap(L, 1, r)'
<1> DEFINE n == Slots(L)
           t == Slot(L, n)
<1>1. buf_size_ \in Nat /\ buffer_ \in [0 .. buf_size_ - 1 -> Nat]
  BY DEF FifoTypes
<1>2. n \in Nat /\ Slots(L)' = n
  BY <1>1, SlotsFit DEF Slots
<1>3. /\ marked \in [0 .. buf_size_ - 1 -> Nat]
      /\ t + 2 <= buf_size_ => marked[t] = 0 /\ marked[t + 1] = 0
      /\ \A j \in Nat : j < n => SlotKept(L, buffer_, marked, j)
  <2>1. CASE t + 2 <= buf_size_ /\ marked = Put(buffer_, t, LenBytes(END_FLAG))
    <3>1. Marked(L, buf_size_, buffer_, n, Put(buffer_, t, LenBytes(END_FLAG)))
      BY <1>1, <1>2, <2>1, MarkTail, Zenon
    <3>2. Marked(L, buf_size_, buffer_, n, marked)
      BY <3>1, <2>1, Zenon
    <3> QED BY <3>2, Zenon DEF Marked
  <2>2. CASE ~(t + 2 <= buf_size_) /\ marked = buffer_
    BY <1>1, <2>2, Zenon DEF SlotKept
  <2> QED BY <2>1, <2>2, Zenon
<1>4. /\ r <= n /\ Waiting = n - r
      /\ \A k \in r .. n - 1 : Stored(L, buffer_, k, WaitingAt(k - r))
  BY DEF SameLap
<1>5. r \in Nat /\ 1 <= r /\ 0 < n
  BY <1>2, <1>4
<1>6. Slot(L, 0) + L + 2 <= buf_size_
  <2>1. 0 \in Nat
    OBVIOUS
  <2> QED BY <1>1, <1>5, <2>1, SlotInside, Zenon
<1>7. /\ buffer_' \in [0 .. buf_size_ - 1 -> Nat]
      /\ Stored(L, buffer_', 0, p)
      /\ \A j \in Nat : j # 0 /\ Slot(L, j) + L + 2 <= buf_size_ => SlotKept(L, marked, buffer_', j)
      /\ \A i \in 0 .. buf_size_ - 1 : Slot(L, 0) + L + 2 <= i => buffer_'[i] = marked[i]
  <2>0. 0 \in Nat
    OBVIOUS
  <2>1. \A new : new = Put(marked, Slot(L, 0), LenBytes(L) \o p) => Written(L, buf_size_, marked, 0, p, new)
    BY <1>1, <1>3, <1>6, <2>0, WriteSlot, Zenon
  <2> QED BY <2>1, Zenon DEF Written
<1>8. /\ Waiting' = Waiting + 1
      /\ \A i \in Nat : i < Waiting => WaitingAt(i)' = WaitingAt(i)
      /\ \A i \in Nat : i = Waiting => WaitingAt(i)' = p
  BY OneMoreWaits, Zenon
<1>9. 1 <= r /\ Waiting' = 1 + n - r
  BY <1>2, <1>4, <1>5, <1>8
<1>10. ASSUME NEW k \in r .. n - 1 PROVE Stored(L, buffer_', k, WaitingAt(k - r)')
  <2>1. k \in Nat /\ k # 0 /\ k < n /\ k - r \in Nat /\ k - r < Waiting
    BY <1>2, <1>4, <1>5
  <2>2. Slot(L, k) + L + 2 <= buf_size_
    BY <1>1, <2>1, SlotInside, Zenon
  <2>3. Stored(L, marked, k, WaitingAt(k - r))
    BY <1>3, <1>4, <2>1, StoredKept, Zenon
  <2>4. Stored(L, buffer_', k, WaitingAt(k - r))
    BY <1>7, <2>1, <2>2, <2>3, StoredKept, Zenon
  <2> QED BY <1>8, <2>1, <2>4
<1>11. ASSUME NEW k \in 0 .. 1 - 1
       PROVE  Stored(L, buffer_', k, sent'[Len(got') + 1 + (k + n - r)])
  <2>1. k = 0 /\ k + n - r = Waiting
    BY <1>2, <1>4
  <2>2. sent'[Len(got') + 1 + Waiting] = p
    BY <1>8, Zenon DEF WaitingAt
  <2> QED BY <1>7, <2>1, <2>2
<1>12. ASSUME t + PACK_LEN_SIZE <= buf_size_ PROVE buffer_'[t] = 0 /\ buffer_'[t + 1] = 0
  <2>1. Slot(L, 0) + L + 2 <= t /\ t \in Nat /\ Slot(L, 0) \in Nat
    <3>1. 0 \in Nat
      OBVIOUS
    <3> QED BY <3>1, <1>2, <1>5, SlotStep, SlotOrder, Zenon
  <2>2. t + 2 <= buf_size_
    BY <1>12 DEF PACK_LEN_SIZE
  <2> HIDE DEF t
  <2>3. /\ t \in 0 .. buf_size_ - 1 /\ t + 1 \in 0 .. buf_size_ - 1
        /\ Slot(L, 0) + L + 2 <= t /\ Slot(L, 0) + L + 2 <= t + 1
    BY <2>1, <2>2, <1>1
  <2> QED BY <1>3, <1>7, <2>2, <2>3, Zenon
<1>13. TailMarked(L)'
  BY <1>2, <1>12 DEF TailMarked, Slot
<1>14. NextLap(L, 1, r)'
  BY <1>2, <1>9, <1>10, <1>11, <1>13 DEF NextLap, WaitingAt
<1> QED BY <1>7, <1>14

\* A packet that PushPacket accepts is the last one that waits, and the others are
\* where they were.
LEMMA PushStep ==
  ASSUME NEW L \in Nat, L # 0, RingInv(L), NEW p \in [1 .. L -> Nat], PushPacket(p)
  PROVE  RingInv(L)'
<1>0. /\ FifoTypes(L) /\ write_bytes_ = read_bytes_ + Slot(L, Waiting)
      /\ buf_size_ \in Nat /\ buffer_ \in [0 .. buf_size_ - 1 -> Nat]
  BY DEF RingInv, FifoTypes
<1>1. PICK w \in 0 .. Slots(L), r \in 0 .. Slots(L) : Positions(L, w, r)
  BY DEF RingInv
<1>2. /\ write_pos_ = Slot(L, w) /\ read_pos_ = Slot(L, r)
      /\ SameLap(L, w, r) \/ NextLap(L, w, r)
      /\ Peeking => DOMAIN pc \in PeekingCrews /\ r = Slots(L) /\ NextLap(L, w, r)
  BY <1>1 DEF Positions
<1>3. Waiting \in Nat
  BY <1>0, <1>2, WaitingNat, Zenon
<1>l. Len(p) = L /\ p \in Seq(Nat)
  OBVIOUS
<1>4. /\ sent' = Append(sent, p) /\ got' = got /\ buf_size_' = buf_size_
      /\ read_pos_' = read_pos_ /\ read_bytes_' = read_bytes_
      /\ write_bytes_' = write_bytes_ + L + PACK_LEN_SIZE
      /\ NotifyOne /\ Fits(L)
  BY <1>l DEF PushPacket
<1>5. Waiting < Slots(L)
  BY <1>0, <1>3, <1>4, RoomForOne, Zenon
<1>6. Slots(L) \in Nat /\ Slots(L)' = Slots(L) /\ buf_size_ < Slot(L, Slots(L)) + L + 2
  BY <1>0, <1>4, SlotsFit DEF Slots
<1>7. /\ pc' = [c \in DOMAIN pc' |-> pc'[c]] /\ DOMAIN pc' = DOMAIN pc
      /\ Peeking' => Peeking
  <2>1. pc = [c \in DOMAIN pc |-> pc[c]]
    BY <1>0 DEF FifoTypes
  <2> QED BY <1>4, <2>1, NotifyFacts, Zenon
<1> DEFINE Result(a) ==
             /\ buffer_' \in [0 .. buf_size_ - 1 -> Nat]
             /\ write_pos_' = Slot(L, a)
             /\ a \in 0 .. Slots(L)
             /\ SameLap(L, a, r)' \/ NextLap(L, a, r)'
             /\ Peeking => NextLap(L, a, r)'
<1>8. \E a : Result(a)
  <2> DEFINE noFlag == write_pos_ + PACK_LEN_SIZE > buf_size_
             wrap   == noFlag \/ write_pos_ + L + PACK_LEN_SIZE > buf_size_
             marked == IF wrap /\ ~noFlag THEN Put(buffer_, write_pos_, LenBytes(END_FLAG)) ELSE buffer_
             pos    == IF wrap THEN 0 ELSE write_pos_
  <2>1. buffer_' = Put(marked, pos, LenBytes(L) \o p) /\ write_pos_' = pos + PACK_LEN_SIZE + L
    BY <1>l, Zenon DEF PushPacket
  <2>2. Slot(L, w) \in Nat /\ w \in Nat
    BY <1>6, SlotStep
  <2>3. CASE w < Slots(L)
    <3>1. Slot(L, w) + L + 2 <= buf_size_
      BY <1>0, <2>2, <2>3, SlotInside, Zenon
    <3>2. ~noFlag /\ ~wrap
      <4>1. \A s, b \in Nat : s + L + 2 <= b => ~(s + 2 > b) /\ ~(s + L + 2 > b)
        OBVIOUS
      <4>2. ~(Slot(L, w) + 2 > buf_size_) /\ ~(Slot(L, w) + L + 2 > buf_size_)
        BY <1>0, <2>2, <3>1, <4>1, Zenon
      <4> QED BY <1>2, <4>2, Zenon DEF PACK_LEN_SIZE
    <3>3. marked = buffer_ /\ pos = Slot(L, w)
      BY <1>2, <3>2, Zenon
    <3>4. buffer_' = Put(buffer_, Slot(L, w), LenBytes(L) \o p)
      BY <2>1, <3>3, Zenon
    <3>5. /\ buffer_' \in [0 .. buf_size_ - 1 -> Nat]
          /\ SameLap(L, w, r) => SameLap(L, w + 1, r)'
          /\ NextLap(L, w, r) => NextLap(L, w + 1, r)'
      <4>1. SameLap(L, w, r) \/ NextLap(L, w, r)
        BY <1>2
      <4>2. FifoTypes(L) /\ sent' = Append(sent, p) /\ got' = got /\ buf_size_' = buf_size_
        BY <1>0, <1>4
      <4> QED BY <4>1, <4>2, <1>3, <1>5, <2>2, <2>3, <3>4, WriterAdvances
    <3>6. Slot(L, w + 1) = Slot(L, w) + L + 2
      BY <2>2, SlotStep, Zenon
    <3>7. write_pos_' = Slot(L, w + 1)
      BY <2>1, <2>2, <3>3, <3>6 DEF PACK_LEN_SIZE
    <3>8. w + 1 \in 0 .. Slots(L)
      BY <1>6, <2>2, <2>3
    <3>9. Result(w + 1)
      BY <1>2, <3>5, <3>7, <3>8, Zenon
    <3> QED BY <3>9, Zenon
  <2>4. CASE w = Slots(L)
    <3>1. SameLap(L, Slots(L), r) /\ ~Peeking
      <4>1. ~NextLap(L, w, r)
        BY <1>5, <1>6, <2>4 DEF NextLap
      <4> QED BY <4>1, <1>2, <2>4
    <3>2. wrap /\ pos = 0
      BY <1>0, <1>2, <1>6, <2>2, <2>4 DEF PACK_LEN_SIZE
    <3>3. Slot(L, 0) = 0 /\ Slot(L, 0 + 1) = Slot(L, 0) + L + 2
      BY SlotStep
    <3>4. \/ /\ Slot(L, Slots(L)) + 2 <= buf_size_
             /\ marked = Put(buffer_, Slot(L, Slots(L)), LenBytes(END_FLAG))
          \/ /\ ~(Slot(L, Slots(L)) + 2 <= buf_size_)
             /\ marked = buffer_
      <4>1. noFlag <=> ~(Slot(L, Slots(L)) + 2 <= buf_size_)
        BY <1>0, <1>2, <2>2, <2>4 DEF PACK_LEN_SIZE
      <4>2. write_pos_ = Slot(L, Slots(L))
        BY <1>2, <2>4
      <4> QED BY <3>2, <4>1, <4>2, Zenon
    <3> HIDE DEF marked
    <3>5. buffer_' = Put(marked, Slot(L, 0), LenBytes(L) \o p)
      BY <2>1, <3>2, <3>3, Zenon
    <3>6. /\ buffer_' \in [0 .. buf_size_ - 1 -> Nat]
          /\ NextLap(L, 1, r)'
      BY <1>0, <1>3, <1>4, <1>5, <3>1, <3>4, <3>5, WriterWraps, Zenon
    <3>7. write_pos_' = Slot(L, 1)
      <4>1. 0 + 1 = 1 /\ pos = 0
        BY <3>2
      <4> QED BY <2>1, <3>3, <4>1 DEF PACK_LEN_SIZE
    <3>8. 1 \in 0 .. Slots(L)
      BY <1>3, <1>5, <1>6
    <3>9. Result(1)
      BY <3>1, <3>6, <3>7, <3>8, Zenon
    <3> QED BY <3>9, Zenon
  <2>5. w < Slots(L) \/ w = Slots(L)
    BY <1>6
  <2> QED BY <2>3, <2>4, <2>5
<1>9. PICK a : Result(a)
  BY <1>8, Zenon
<1>10. Positions(L, a, r)'
  BY <1>2, <1>4, <1>6, <1>7, <1>9 DEF Positions, Slot
<1>11. \E x, y \in 0 .. Slots(L)' : Positions(L, x, y)'
  BY <1>6, <1>9, <1>10
<1>12. write_bytes_' = read_bytes_' + Slot(L, Waiting)'
  <2>1. Waiting' = Waiting + 1
    BY <1>0, <1>3, <1>4, OneMoreWaits, Zenon
  <2>2. Slot(L, Waiting + 1) = Slot(L, Waiting) + L + 2 /\ Slot(L, Waiting) \in Nat
    BY <1>3, SlotStep, Zenon
  <2>3. Slot(L, Waiting)' = Slot(L, Waiting + 1)
    BY <2>1 DEF Slot
  <2> QED BY <1>0, <1>4, <2>2, <2>3 DEF FifoTypes, PACK_LEN_SIZE
<1>13. FifoTypes(L)'
  <2>1. sent' \in Seq([1 .. L -> Nat])
    BY <1>0, <1>4 DEF FifoTypes
  <2>2. write_bytes_' \in Nat /\ read_bytes_' \in Nat
    BY <1>0, <1>4 DEF FifoTypes, PACK_LEN_SIZE
  <2> QED BY <1>0, <1>4, <1>7, <1>9, <2>1, <2>2 DEF FifoTypes
<1>14. PacketsIntact'
  <2>1. PacketsIntact /\ sent \in Seq([1 .. L -> Nat]) /\ got \in Seq([1 .. L -> Nat])
    BY <1>0 DEF RingInv, FifoTypes
  <2>2. ASSUME NEW i \in DOMAIN got' PROVE i <= Len(sent') /\ got'[i] = sent'[i]
    <3>1. i \in DOMAIN got /\ i \in Nat /\ i >= 1
      BY <2>1, <1>4
    <3>2. i <= Len(sent) /\ got[i] = sent[i]
      BY <3>1, <2>1 DEF PacketsIntact
    <3>3. Len(sent') = Len(sent) + 1 /\ sent'[i] = sent[i]
      BY <3>1, <3>2, <2>1, <1>4
    <3> QED BY <3>2, <3>3, <2>1, <1>4
  <2> QED BY <2>2 DEF PacketsIntact
<1> QED BY <1>11, <1>12, <1>13, <1>14, Zenon DEF RingInv

\* PeekNextPackLen leaves the reader at a packet, or in the tail with the thread about
\* to move it to the start.
LEMMA PeekStep ==
  ASSUME NEW L \in Nat, L # 0, PeekersAlone, RingInv(L),
         NEW c \in DOMAIN pc, PeekNextPackLen(c)
  PROVE  RingInv(L)'
<1>0. FifoTypes(L) /\ write_bytes_ = read_bytes_ + Slot(L, Waiting) /\ buf_size_ \in Nat
  BY DEF RingInv, FifoTypes
<1>1. PICK w \in 0 .. Slots(L), r \in 0 .. Slots(L) : Positions(L, w, r)
  BY DEF RingInv
<1>2. /\ write_pos_ = Slot(L, w) /\ read_pos_ = Slot(L, r)
      /\ SameLap(L, w, r) \/ NextLap(L, w, r)
      /\ Peeking => DOMAIN pc \in PeekingCrews
  BY <1>1 DEF Positions
<1>3. Waiting \in Nat /\ Slots(L) \in Nat
  BY <1>0, <1>2, WaitingNat, SlotsFit, Zenon
<1>4. /\ DOMAIN pc \in PeekingCrews /\ pc[c] = "idle" /\ ~Empty
      /\ read_pos_' = SkipEnd(read_pos_)
      /\ UNCHANGED <<buf_size_, buffer_, write_pos_, read_bytes_, write_bytes_, sent, got>>
  BY DEF PeekNextPackLen
<1>5. Waiting > 0
  <2>1. ~(Waiting = 0)
    BY <1>0, <1>3, <1>4, BytesWaiting
  <2> QED BY <2>1, <1>3
<1>6. ~Peeking
  BY <1>2, <1>4, NobodyPeeks
<1>7. Slots(L)' = Slots(L) /\ Waiting' = Waiting
  BY <1>4 DEF Slots, Waiting
<1>8. DOMAIN pc' = DOMAIN pc /\ pc' = [d \in DOMAIN pc' |-> pc'[d]]
  BY <1>0 DEF PeekNextPackLen, FifoTypes
<1> DEFINE Result(q) ==
             /\ q \in 0 .. Slots(L)
             /\ read_pos_' = Slot(L, q)
             /\ SameLap(L, w, q) \/ NextLap(L, w, q)
             /\ Peeking' => q = Slots(L) /\ NextLap(L, w, q)
<1>9. \E q : Result(q)
  <2>1. CASE /\ SkipEnd(read_pos_) = Slot(L, r)
             /\ LenAt(buffer_, SkipEnd(read_pos_)) # END_FLAG
    <3>1. ~Peeking'
      BY <2>1, <1>6 DEF PeekNextPackLen, Peeking
    <3>2. Result(r)
      BY <1>2, <1>4, <2>1, <3>1, Zenon
    <3> QED BY <3>2, Zenon
  <2>2. CASE r = Slots(L) /\ NextLap(L, w, r) /\ SkipEnd(read_pos_) = Slot(L, r)
    <3>1. Result(r)
      BY <1>4, <2>2, Zenon
    <3> QED BY <3>1, Zenon
  <2>3. CASE /\ r = Slots(L) /\ NextLap(L, w, r)
             /\ SkipEnd(read_pos_) = Slot(L, 0)
             /\ LenAt(buffer_, SkipEnd(read_pos_)) # END_FLAG
    <3>1. ~Peeking'
      BY <2>3, <1>6 DEF PeekNextPackLen, Peeking
    <3>2. SameLap(L, w, 0) /\ 0 \in 0 .. Slots(L)
      BY <1>0, <1>3, <2>3, TailSkipped
    <3>3. Result(0)
      BY <1>4, <2>3, <3>1, <3>2, Zenon
    <3> QED BY <3>3, Zenon
  <2> QED BY <1>0, <1>2, <1>5, <2>1, <2>2, <2>3, NextSlot
<1>10. PICK q : Result(q)
  BY <1>9, Zenon
<1>11. Positions(L, w, q)'
  <2>1. /\ SameLap(L, w, q) => SameLap(L, w, q)'
        /\ NextLap(L, w, q) => NextLap(L, w, q)'
    BY <1>4, RingUnmoved
  <2> QED BY <1>2, <1>4, <1>7, <1>8, <1>10, <2>1 DEF Positions, Slot
<1>12. \E x, y \in 0 .. Slots(L)' : Positions(L, x, y)'
  BY <1>7, <1>10, <1>11
<1>13. FifoTypes(L)' /\ PacketsIntact' /\ write_bytes_' = read_bytes_' + Slot(L, Waiting)'
  BY <1>0, <1>4, <1>7, <1>8 DEF RingInv, FifoTypes, PacketsIntact, Slot
<1> QED BY <1>12, <1>13, Zenon DEF RingInv

\* The assignment PeekNextPackLen makes after it has seen END_FLAG.
LEMMA PeekWrapsStep ==
  ASSUME NEW L \in Nat, PeekersAlone, RingInv(L), NEW c \in DOMAIN pc, PeekWraps(c)
  PROVE  RingInv(L)'
<1>0. FifoTypes(L) /\ write_bytes_ = read_bytes_ + Slot(L, Waiting) /\ buf_size_ \in Nat
  BY DEF RingInv, FifoTypes
<1>1. PICK w \in 0 .. Slots(L), r \in 0 .. Slots(L) : Positions(L, w, r)
  BY DEF RingInv
<1>2. /\ pc[c] = "peek" /\ read_pos_' = 0 /\ pc' = [pc EXCEPT ![c] = "idle"]
      /\ UNCHANGED <<buf_size_, buffer_, write_pos_, read_bytes_, write_bytes_, sent, got>>
  BY DEF PeekWraps
<1>3. /\ write_pos_ = Slot(L, w) /\ DOMAIN pc \in PeekingCrews
      /\ r = Slots(L) /\ NextLap(L, w, r)
  BY <1>1, <1>2 DEF Positions, Peeking
<1>4. Slots(L) \in Nat /\ Slot(L, 0) = 0
  BY <1>0, SlotsFit, SlotStep
<1>5. SameLap(L, w, 0)
  BY <1>0, <1>3, <1>4, TailSkipped
<1>6. SameLap(L, w, 0)' /\ Slots(L)' = Slots(L) /\ Waiting' = Waiting
  BY <1>2, <1>5, RingUnmoved
<1>7. ~Peeking' /\ pc' = [d \in DOMAIN pc' |-> pc'[d]]
  <2>1. \A d \in DOMAIN pc : d = c
    BY <1>3, PeekerAlone
  <2>2. pc = [d \in DOMAIN pc |-> pc[d]]
    BY <1>0 DEF FifoTypes
  <2> QED BY <1>2, <2>1, <2>2 DEF Peeking
<1>8. Positions(L, w, 0)'
  BY <1>2, <1>3, <1>4, <1>6, <1>7 DEF Positions, Slot
<1>9. \E x, y \in 0 .. Slots(L)' : Positions(L, x, y)'
  <2>1. w \in 0 .. Slots(L)' /\ 0 \in 0 .. Slots(L)'
    BY <1>4, <1>6
  <2> QED BY <1>8, <2>1
<1>10. FifoTypes(L)' /\ PacketsIntact' /\ write_bytes_' = read_bytes_' + Slot(L, Waiting)'
  BY <1>0, <1>2, <1>6, <1>7 DEF RingInv, FifoTypes, PacketsIntact, Slot
<1> QED BY <1>9, <1>10, Zenon DEF RingInv

\* A queue with no packets, its positions at the start.
LEMMA EmptyRing ==
  ASSUME NEW L \in Nat, FifoTypes(L), sent = got, ~Peeking,
         read_pos_ = 0, write_pos_ = 0, read_bytes_ = 0, write_bytes_ = 0
  PROVE  RingInv(L)
<1>1. Slots(L) \in Nat /\ Slot(L, 0) = 0
  BY SlotsFit, SlotStep DEF FifoTypes
<1>2. Len(got) \in Nat /\ Waiting = 0
  BY DEF FifoTypes, Waiting
<1>3. SameLap(L, 0, 0)
  BY <1>2 DEF SameLap
<1>4. Positions(L, 0, 0)
  BY <1>1, <1>3 DEF Positions
<1>5. \E x, y \in 0 .. Slots(L) : Positions(L, x, y)
  <2>1. 0 \in 0 .. Slots(L)
    BY <1>1
  <2> QED BY <1>4, <2>1
<1>6. PacketsIntact
  BY DEF PacketsIntact, FifoTypes
<1>7. write_bytes_ = read_bytes_ + Slot(L, Waiting)
  BY <1>1, <1>2
<1> QED BY <1>5, <1>6, <1>7, Zenon DEF RingInv

\* The constructor and Reset make an empty ring.
LEMMA InitRing ==
  ASSUME NEW L \in Nat, Init
  PROVE  RingInv(L)
<1>0. BufSizes \subseteq Nat /\ Junk \in Nat
  BY FifoAssumption DEF FifoAssumption
<1>1. /\ buf_size_ \in Nat /\ sent = <<>> /\ got = <<>>
      /\ read_pos_ = 0 /\ write_pos_ = 0 /\ read_bytes_ = 0 /\ write_bytes_ = 0
  BY <1>0 DEF Init
<1>2. PICK b \in {0, Junk} : buffer_ = [i \in 0 .. buf_size_ - 1 |-> b]
  BY DEF Init
<1>3. buffer_ \in [0 .. buf_size_ - 1 -> Nat]
  <2>1. b \in Nat
    BY <1>0, <1>2
  <2> QED BY <1>2, <2>1
<1>4. PICK crew \in Crews : pc = [c \in crew |-> "idle"]
  BY DEF Init
<1>5. pc = [c \in DOMAIN pc |-> pc[c]] /\ ~Peeking
  BY <1>4 DEF Peeking
<1>6. FifoTypes(L)
  BY <1>1, <1>3, <1>5 DEF FifoTypes
<1> QED BY <1>1, <1>5, <1>6, EmptyRing

LEMMA ResetStep ==
  ASSUME NEW L \in Nat, RingInv(L), Reset
  PROVE  RingInv(L)'
<1>1. FifoTypes(L)
  BY DEF RingInv
<1>2. /\ sent' = got /\ UNCHANGED <<buf_size_, buffer_, pc, got>>
      /\ read_pos_' = 0 /\ write_pos_' = 0 /\ read_bytes_' = 0 /\ write_bytes_' = 0
      /\ \A c \in DOMAIN pc : pc[c] # "peek"
  BY DEF Reset
<1>3. FifoTypes(L)'
  BY <1>1, <1>2 DEF FifoTypes
<1>4. sent' = got' /\ ~Peeking'
  BY <1>2 DEF Peeking
<1>5. Slots(L)' \in Nat /\ Slot(L, 0) = 0
  BY <1>1, <1>2, SlotsFit, SlotStep DEF FifoTypes, Slots
<1>6. Waiting' = 0
  BY <1>3, <1>4 DEF FifoTypes, Waiting
<1>7. SameLap(L, 0, 0)'
  BY <1>6 DEF SameLap
<1>8. Positions(L, 0, 0)'
  BY <1>2, <1>4, <1>5, <1>7 DEF Positions, Slot
<1>9. \E x, y \in 0 .. Slots(L)' : Positions(L, x, y)'
  <2>1. 0 \in 0 .. Slots(L)'
    BY <1>5
  <2> QED BY <1>8, <2>1
<1>10. PacketsIntact'
  BY <1>3, <1>4 DEF PacketsIntact, FifoTypes
<1>11. write_bytes_' = read_bytes_' + Slot(L, Waiting)'
  BY <1>2, <1>5, <1>6 DEF Slot
<1> QED BY <1>3, <1>9, <1>10, <1>11, Zenon DEF RingInv

\* A step of a thread that neither moves a packet nor starts to peek.
LEMMA ThreadStep ==
  ASSUME NEW L \in Nat, RingInv(L), UNCHANGED <<buf_size_, buffer_, read_pos_, write_pos_>>,
         UNCHANGED <<read_bytes_, write_bytes_, sent, got>>,
         pc' = [c \in DOMAIN pc' |-> pc'[c]], DOMAIN pc' = DOMAIN pc, Peeking' => Peeking
  PROVE  RingInv(L)'
<1>1. PICK w \in 0 .. Slots(L), r \in 0 .. Slots(L) : Positions(L, w, r)
  BY DEF RingInv
<1>2. /\ SameLap(L, w, r) => SameLap(L, w, r)'
      /\ NextLap(L, w, r) => NextLap(L, w, r)'
      /\ Slots(L)' = Slots(L) /\ Waiting' = Waiting
  BY RingUnmoved
<1>3. Positions(L, w, r)'
  BY <1>1, <1>2 DEF Positions, Slot
<1>4. \E x, y \in 0 .. Slots(L)' : Positions(L, x, y)'
  BY <1>2, <1>3
<1>5. FifoTypes(L)' /\ PacketsIntact' /\ write_bytes_' = read_bytes_' + Slot(L, Waiting)'
  BY <1>2 DEF RingInv, FifoTypes, PacketsIntact, Slot
<1> QED BY <1>4, <1>5, Zenon DEF RingInv

-----------------------------------------------------------------------------
(* Every step.                                                             *)

\* What producers push.
LEMMA PacketPushed ==
  ASSUME NEW L \in Nat, PackLens = {L}, FifoTypes(L), Produce
  PROVE  \E p \in [1 .. L -> Nat] : PushPacket(p)
<1>1. PICK len \in PackLens : PushPacket(Packet(Len(sent) + 1, len))
  BY DEF Produce
<1>2. len = L /\ Len(sent) + 1 \in Nat
  BY DEF FifoTypes
<1>3. Packet(Len(sent) + 1, L) \in [1 .. L -> Nat]
  BY <1>2 DEF Packet
<1> QED BY <1>1, <1>2, <1>3

\* Every step keeps the ring in order, and is a step of a queue of packets.
LEMMA QueueStep ==
  ASSUME NEW L \in Nat, L # 0, PackLens = {L}, PeekersAlone, RingInv(L), [Next]_vars
  PROVE  RingInv(L)' /\ [Queue!Next]_<<sent, got>>
<1>0. FifoTypes(L)
  BY DEF RingInv
<1>t. pc = [c \in DOMAIN pc |-> pc[c]]
  BY <1>0 DEF FifoTypes
<1>1. CASE Produce
  <2>1. PICK p \in [1 .. L -> Nat] : PushPacket(p)
    BY <1>0, <1>1, PacketPushed
  <2>2. RingInv(L)'
    BY <2>1, PushStep
  <2>3. sent' = Append(sent, p) /\ got' = got /\ sent \in Seq([1 .. L -> Nat])
    BY <1>0, <2>1 DEF PushPacket, FifoTypes
  <2>4. Len(sent') = Len(sent) + 1 /\ SubSeq(sent', 1, Len(sent)) = sent
    BY <2>3
  <2> QED BY <2>2, <2>3, <2>4 DEF Queue!Next, Queue!Push
<1>2. ASSUME NEW c \in DOMAIN pc, PopPacket(c) PROVE RingInv(L)' /\ [Queue!Next]_<<sent, got>>
  <2>1. CASE ~Empty /\ TakePacket(c)
    <3>1. pc[c] # "peek"
      BY <1>2 DEF PopPacket
    <3>2. /\ RingInv(L)'
          /\ Waiting > 0 /\ got' = Append(got, sent[Len(got) + 1]) /\ sent' = sent
      BY <2>1, <3>1, TakeStep, Zenon
    <3> QED BY <3>2 DEF Queue!Next, Queue!Pop, Queue!Pending, Waiting
  <2>2. CASE /\ Empty /\ pc' = [pc EXCEPT ![c] = "waiting"]
             /\ UNCHANGED <<buf_size_, buffer_, read_pos_, write_pos_, read_bytes_, write_bytes_, sent, got>>
    <3>1. /\ pc' = [d \in DOMAIN pc' |-> pc'[d]] /\ DOMAIN pc' = DOMAIN pc
          /\ Peeking' => Peeking
      BY <1>t, <2>2 DEF Peeking
    <3> QED BY <2>2, <3>1, ThreadStep
  <2> QED BY <1>2, <2>1, <2>2 DEF PopPacket
<1>3. ASSUME NEW c \in DOMAIN pc, Spurious(c) PROVE RingInv(L)' /\ [Queue!Next]_<<sent, got>>
  <2>1. /\ pc' = [d \in DOMAIN pc' |-> pc'[d]] /\ DOMAIN pc' = DOMAIN pc
        /\ Peeking' => Peeking
    BY <1>t, <1>3 DEF Peeking, Spurious
  <2> QED BY <1>3, <2>1, ThreadStep DEF Spurious
<1>4. ASSUME NEW c \in DOMAIN pc, PeekNextPackLen(c)
      PROVE  RingInv(L)' /\ [Queue!Next]_<<sent, got>>
  <2>1. RingInv(L)'
    BY <1>4, PeekStep
  <2> QED BY <1>4, <2>1 DEF PeekNextPackLen
<1>5. ASSUME NEW c \in DOMAIN pc, PeekWraps(c) PROVE RingInv(L)' /\ [Queue!Next]_<<sent, got>>
  <2>1. RingInv(L)'
    BY <1>5, PeekWrapsStep
  <2> QED BY <1>5, <2>1 DEF PeekWraps
<1>6. CASE Reset
  <2>1. RingInv(L)'
    BY <1>6, ResetStep
  <2> QED BY <1>6, <2>1 DEF Reset, Queue!Next, Queue!Reset
<1>7. CASE UNCHANGED vars
  <2>1. RingInv(L)'
    BY <1>7, <1>t, ThreadStep DEF vars, Peeking
  <2> QED BY <1>7, <2>1 DEF vars
<1> QED BY <1>1, <1>2, <1>3, <1>4, <1>5, <1>6, <1>7 DEF Next

\* The ring stays in order: packets of one length lie in fixed slots, the writer is in
\* the reader's lap or in the next one, and the bytes counted are those of the packets
\* that wait.
THEOREM RingInOrder ==
  ASSUME NEW L \in Nat, L # 0, PackLens = {L}, PeekersAlone
  PROVE  Spec => []RingInv(L)
<1>1. Init => RingInv(L)
  BY InitRing
<1>2. RingInv(L) /\ [Next]_vars => RingInv(L)'
  BY QueueStep
<1> QED BY <1>1, <1>2, PTL DEF Spec

\* PushPacket and PopPacket implement a queue of packets: what is popped is what was
\* pushed, whole and in order, for any buffer, any crew and any number of packets,
\* resets included, if the packets have one length other than 0.
THEOREM ImplementsQueue ==
  ASSUME NEW L \in Nat, L # 0, PackLens = {L}, PeekersAlone
  PROVE  Spec => QueueRefined
<1>1. Init => Queue!Init
  BY DEF Init, Queue!Init
<1>2. RingInv(L) /\ [Next]_vars => [Queue!Next]_<<sent, got>>
  BY QueueStep
<1>3. Spec => []RingInv(L)
  BY RingInOrder
<1> QED BY <1>1, <1>2, <1>3, PTL DEF Spec, QueueRefined, Queue!Spec

\* Every packet PopPacket has returned is the one PushPacket accepted at that place.
THEOREM PacketsStayIntact ==
  ASSUME NEW L \in Nat, L # 0, PackLens = {L}, PeekersAlone
  PROVE  Spec => []PacketsIntact
<1>1. RingInv(L) => PacketsIntact
  BY DEF RingInv
<1>2. Spec => []RingInv(L)
  BY RingInOrder
<1> QED BY <1>1, <1>2, PTL
=============================================================================
