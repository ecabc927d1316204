----------------------------- MODULE SendHelper -----------------------------
(***************************************************************************)
(* workmanager/send_helper.cpp: the choice of the beam a frame goes out on *)
(* and the call to the access server of that beam.                         *)
(***************************************************************************)
EXTENDS Protocol

CONSTANT ScheduleAddress   \* beams with a configured access server: keys of schedule_address_

\* SendMessage visits the list in order and keeps a beam that has an address and
\* an SNR strictly above the one kept so far, starting from -1: the entry kept at
\* the end is the first one with the highest SNR.
Eligible(sates) ==
  {i \in DOMAIN sates : sates[i].beam_id \in ScheduleAddress /\ sates[i].snr > -10}

IsBest(sates, i) ==
  /\ i \in Eligible(sates)
  /\ \A j \in Eligible(sates) :
       /\ sates[j].snr <= sates[i].snr
       /\ j < i => sates[j].snr < sates[i].snr

\* The set of frames a successful call sends: empty when no listed beam has an
\* address (SendMessage returns false before it opens a socket).
Frames(user_id, content, sates, level) ==
  {[uid |-> user_id, sate_id |-> sates[i].sate_id, beam_id |-> sates[i].beam_id,
    level |-> level, content |-> content] : i \in {k \in DOMAIN sates : IsBest(sates, k)}}
=============================================================================
