----------------------------- MODULE PacketQueue -----------------------------
(***************************************************************************)
(* What commons/fifo_queue.h promises: "push a complete packet into        *)
(* buffer", "pop a complete packet from buffer", first in first out.  The  *)
(* queue holds the packets of sent that are not in got yet.                *)
(***************************************************************************)
EXTENDS Naturals, Sequences

VARIABLES
  sent,   \* the packets PushPacket has accepted
  got     \* the packets PopPacket has returned

Pending == Len(sent) - Len(got)

Init == sent = <<>> /\ got = <<>>

Push ==
  /\ Len(sent') = Len(sent) + 1
  /\ SubSeq(sent', 1, Len(sent)) = sent
  /\ UNCHANGED got

Pop ==
  /\ Pending > 0
  /\ got' = Append(got, sent[Len(got) + 1])
  /\ UNCHANGED sent

\* The packets that wait are dropped.
Reset ==
  /\ sent' = got
  /\ UNCHANGED got

Next == Push \/ Pop \/ Reset

Spec == Init /\ [][Next]_<<sent, got>>
=============================================================================
