--------------------------- MODULE MCShortMessage ---------------------------
(***************************************************************************)
(* Small instances of the logic server for TLC.  Two terminals, two        *)
(* workers and the daemon; beams 1 and 2 have an access server, beam 3     *)
(* exists but has none, beam 9 is out of range.                            *)
(***************************************************************************)
EXTENDS ShortMessage, TLC

CONSTANTS t1, t2, w1, w2, d, hi, none, junk

MCUsers    == {t1, t2}
MCTexts    == {hi}
MCRegistered == {t1}
MCWorkers  == {w1, w2}
MCAddresses == {1, 2}

Heard(b, snr) == [sate_id |-> (b + 1) \div 2, beam_id |-> b, snr |-> snr]

\* Stored coverage: t1 hears beam 1, t2 hears beams 1 and 2.
MCInitCover ==
  (t1 :> [b \in Beams |-> IF b = 1 THEN 25 ELSE NO_SNR]) @@
  (t2 :> [b \in Beams |-> IF b = 1 THEN 31 ELSE IF b = 2 THEN 47 ELSE NO_SNR])

Message(from_id, to_id, frame_id, type) ==
  [from_id |-> from_id, to_id |-> to_id, frame_id |-> frame_id, type |-> type, text |-> hi]

OneComplete  == {Message(t1, t2, 1, COMPLETE_MESSAGE)}
Conversation == {Message(t1, t2, 1, COMPLETE_MESSAGE), Message(t2, t1, 1, COMPLETE_MESSAGE)}
AllKinds     == {Message(t1, t2, 1, type) :
                   type \in {COMPLETE_MESSAGE, SIMPLE_MESSAGE, INQUIRE_MESSAGE_REQUEST}}
NoMessages   == {}

NoCovers   == {}
\* Beam 3 is the best but has no address, and beam 2 is listed twice; two beams that
\* differ by a fraction; an empty list; a beam that does not exist.
MobileCovers ==
  {<<Heard(3, 60), Heard(2, 9), Heard(2, 15)>>, <<Heard(1, 25), Heard(2, 29)>>,
   <<>>, <<Heard(9, 20)>>}

Allow(submit, receipt, mobile, fault, crash) ==
  [submit |-> submit, receipt |-> receipt, mobile |-> mobile, fault |-> fault, crash |-> crash]

DeliveryBudget == Allow(2, 2, 0, 0, 0)
FaultBudget    == Allow(2, 1, 0, 1, 1)
LivenessBudget == Allow(1, 1, 0, 1, 1)
LeakBudget     == Allow(3, 0, 0, 2, 0)
ArchiveBudget  == Allow(1, 1, 0, 0, 0)
DuplicateBudget == Allow(2, 0, 0, 0, 0)
MobileBudget   == Allow(1, 0, 2, 1, 0)

WorkerSymmetry == Permutations(MCWorkers)
=============================================================================
