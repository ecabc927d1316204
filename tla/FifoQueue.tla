------------------------------ MODULE FifoQueue ------------------------------
(***************************************************************************)
(* commons/fifo_queue.cpp: a ring of bytes that holds packets, each one    *)
(* behind a length of two bytes.  A packet is never split: when it does    *)
(* not fit between write_pos_ and the end of the buffer, END_FLAG is       *)
(* written there (if two bytes are left) and the packet goes to the start. *)
(* PushPacket and PopPacket run under mutex_lock_ and are one step each; a *)
(* consumer that finds the queue empty waits on condition_.                *)
(* PeekNextPackLen takes no lock.  Positions are offsets from buffer_.     *)
(***************************************************************************)
EXTENDS Naturals, Sequences

CONSTANTS
  BufSizes,    \* sizes the constructor is called with
  PackLens,    \* lengths of the packets producers push
  Junk,        \* a byte of the memory new char[] returns
  Crews,       \* sets of threads that call PopPacket on one queue
  PeekingCrews,\* those whose threads call PeekNextPackLen before it
  MaxPackets   \* bound: packets that are pushed

MAX_PACK_SIZE == 65535

\* PushPacket asserts the bound on the length.
ASSUME FifoAssumption ==
  /\ BufSizes \subseteq Nat
  /\ PackLens \subseteq 0 .. MAX_PACK_SIZE - 1
  /\ Junk \in 0 .. 255
  /\ PeekingCrews \subseteq Crews
  /\ MaxPackets \in Nat

PACK_LEN_SIZE == 2
END_FLAG == 0

VARIABLES
  buf_size_, buffer_, read_pos_, write_pos_, read_bytes_, write_bytes_,
  pc,      \* what each consumer does: idle, waiting on condition_, woken, or in a peek
  sent,    \* history: packets PushPacket has accepted
  got      \* history: packets PopPacket has returned

vars == <<buf_size_, buffer_, read_pos_, write_pos_, read_bytes_, write_bytes_, pc, sent, got>>

\* What a memcpy to, or from, the buffer does.
Put(buf, pos, bytes) ==
  [i \in DOMAIN buf |-> IF i \in pos .. pos + Len(bytes) - 1 THEN bytes[i - pos + 1] ELSE buf[i]]

Outside == 256     \* a byte behind the buffer

Get(buf, pos, len) ==
  [i \in 1 .. len |-> IF pos + i - 1 \in DOMAIN buf THEN buf[pos + i - 1] ELSE Outside]

LenBytes(len) == <<len % 256, len \div 256>>
LenAt(buf, pos) == buf[pos] + 256 * buf[pos + 1]

-----------------------------------------------------------------------------
Empty == read_bytes_ >= write_bytes_

\* The overflow test of PushPacket: room for the packet twice, since up to a packet
\* is lost at the end of the buffer.  A packet that does not fit is refused (PushPacket
\* returns false and changes nothing).
\* Mutant: the two bytes of the length, and the reserve, are forgotten.
Fits_NoLength(len) == write_bytes_ + len <= read_bytes_ + buf_size_

Fits(len) == write_bytes_ + 2 * len + 2 * (PACK_LEN_SIZE - 1) <= read_bytes_ + buf_size_

\* condition_.notify_one: one waiting consumer, if there is one, is woken.
\* Mutant: nobody is.
NotifyOne_Forgotten == UNCHANGED pc

NotifyOne ==
  \/ \E c \in DOMAIN pc : pc[c] = "waiting" /\ pc' = [pc EXCEPT ![c] = "woken"]
  \/ (\A c \in DOMAIN pc : pc[c] # "waiting") /\ UNCHANGED pc

PushPacket(packet) ==
  /\ Fits(Len(packet))
  /\ LET len     == Len(packet)
         noFlag  == write_pos_ + PACK_LEN_SIZE > buf_size_
         wrap    == noFlag \/ write_pos_ + len + PACK_LEN_SIZE > buf_size_
         marked  == IF wrap /\ ~noFlag THEN Put(buffer_, write_pos_, LenBytes(END_FLAG)) ELSE buffer_
         pos     == IF wrap THEN 0 ELSE write_pos_
     IN /\ buffer_' = Put(marked, pos, LenBytes(len) \o packet)
        /\ write_pos_' = pos + PACK_LEN_SIZE + len
        /\ write_bytes_' = write_bytes_ + len + PACK_LEN_SIZE
  /\ sent' = Append(sent, packet)
  /\ NotifyOne
  /\ UNCHANGED <<buf_size_, read_pos_, read_bytes_, got>>

\* Where the next packet starts, seen from a read position.
SkipEnd(pos) == IF pos + PACK_LEN_SIZE > buf_size_ THEN 0 ELSE pos
NextPack(pos) == IF LenAt(buffer_, SkipEnd(pos)) = END_FLAG THEN 0 ELSE SkipEnd(pos)

TakePacket(c) ==
  /\ LET pos == NextPack(read_pos_)
         len == LenAt(buffer_, pos)
     IN /\ got' = Append(got, Get(buffer_, pos + PACK_LEN_SIZE, len))
        /\ read_pos_' = pos + PACK_LEN_SIZE + len
        /\ read_bytes_' = read_bytes_ + len + PACK_LEN_SIZE
  /\ pc' = [pc EXCEPT ![c] = "idle"]
  /\ UNCHANGED <<buf_size_, buffer_, write_pos_, write_bytes_, sent>>

\* A call of PopPacket, or its return from wait: the loop tests again.
PopPacket(c) ==
  /\ pc[c] \in {"idle", "woken"}
  /\ \/ Empty /\ pc' = [pc EXCEPT ![c] = "waiting"]
              /\ UNCHANGED <<buf_size_, buffer_, read_pos_, write_pos_, read_bytes_, write_bytes_, sent, got>>
     \/ ~Empty /\ TakePacket(c)

\* A condition variable may wake up by itself.
Spurious(c) ==
  /\ pc[c] = "waiting"
  /\ pc' = [pc EXCEPT ![c] = "woken"]
  /\ UNCHANGED <<buf_size_, buffer_, read_pos_, write_pos_, read_bytes_, write_bytes_, sent, got>>

\* PeekNextPackLen moves read_pos_ over the end of the buffer, in one or two steps:
\* without the lock, another thread may run between the test of END_FLAG and the
\* assignment.
PeekNextPackLen(c) ==
  /\ DOMAIN pc \in PeekingCrews
  /\ pc[c] = "idle"
  /\ ~Empty
  /\ read_pos_' = SkipEnd(read_pos_)
  /\ IF LenAt(buffer_, SkipEnd(read_pos_)) = END_FLAG
     THEN pc' = [pc EXCEPT ![c] = "peek"] ELSE UNCHANGED pc
  /\ UNCHANGED <<buf_size_, buffer_, write_pos_, read_bytes_, write_bytes_, sent, got>>

PeekWraps(c) ==
  /\ pc[c] = "peek"
  /\ read_pos_' = 0
  /\ pc' = [pc EXCEPT ![c] = "idle"]
  /\ UNCHANGED <<buf_size_, buffer_, write_pos_, read_bytes_, write_bytes_, sent, got>>

\* Reset takes no lock either: it is meant for a queue nobody is using.
Reset ==
  /\ \A c \in DOMAIN pc : pc[c] # "peek"
  /\ read_pos_' = 0 /\ write_pos_' = 0
  /\ read_bytes_' = 0 /\ write_bytes_' = 0
  /\ sent' = got
  /\ UNCHANGED <<buf_size_, buffer_, pc, got>>

-----------------------------------------------------------------------------
Init ==
  /\ buf_size_ \in BufSizes
  /\ buffer_ \in {[i \in 0 .. buf_size_ - 1 |-> b] : b \in {0, Junk}}
  /\ read_pos_ = 0 /\ write_pos_ = 0
  /\ read_bytes_ = 0 /\ write_bytes_ = 0
  /\ pc \in {[c \in crew |-> "idle"] : crew \in Crews}
  /\ sent = <<>>
  /\ got = <<>>

\* The bytes of the n-th packet tell it from the others.
Packet(n, len) == [i \in 1 .. len |-> n]

Produce ==
  /\ Len(sent) < MaxPackets
  /\ \E len \in PackLens : PushPacket(Packet(Len(sent) + 1, len))

Next ==
  \/ Produce
  \/ \E c \in DOMAIN pc : PopPacket(c) \/ Spurious(c) \/ PeekNextPackLen(c) \/ PeekWraps(c)
  \/ Reset

\* A consumer that may run does: it calls PopPacket in a loop.
Spec ==
  /\ Init /\ [][Next]_vars
  /\ \A c \in UNION Crews : WF_vars(c \in DOMAIN pc /\ (PopPacket(c) \/ PeekWraps(c)))

-----------------------------------------------------------------------------
Queue == INSTANCE PacketQueue WITH sent <- sent, got <- got

\* The ring is a queue of packets: what is popped is what was pushed, whole and in
\* order, wherever the packets wrap and whoever pops them.
QueueRefined == Queue!Spec

\* The same as an invariant, for a queue that is not reset.  It does not hold for packets of
\* different sizes or of length 0 (QueueMixedSizes.cfg, QueueEmptyPacket.cfg).
PacketsIntact ==
  \A i \in DOMAIN got : i <= Len(sent) /\ got[i] = sent[i]

\* No packet stays in the queue while its consumers wait: notify_one and the loop
\* around wait lose no wake-up.
PacketsArePopped == Queue!Pending > 0 ~> Queue!Pending = 0
=============================================================================
