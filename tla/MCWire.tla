------------------------------- MODULE MCWire -------------------------------
(***************************************************************************)
(* Small instances of Wire.  No identifier reads the same in both byte     *)
(* orders, and one is the other reversed, so that a conversion too many or *)
(* too few meets a terminal that exists.                                   *)
(***************************************************************************)
EXTENDS Wire

TwoIds  == {<<0, 0, 0, 1>>, <<1, 0, 0, 0>>}
HighIds == {<<128, 0, 0, 1>>}
TwoFrames == {<<0, 1>>, <<1, 0>>}
OneFrame  == {<<0, 1>>}
Greeting == {<<104, 105>>}

Strong == <<0, 0, 32, 65>>      \* 10 as a float
Weak   == <<0, 0, 160, 192>>    \* -5 as a float
Faint  == <<149, 191, 214, 51>> \* 1e-7 as a float

NoReports == {}
BeamLists ==
  {<<>>,
   <<[sate_id |-> 5, beam_id |-> 10, snr |-> Strong], [sate_id |-> 1, beam_id |-> 2, snr |-> Weak],
     [sate_id |-> 2, beam_id |-> 3, snr |-> Faint]>>}
OneBeam == {<<[sate_id |-> 1, beam_id |-> 2, snr |-> Strong]>>}
=============================================================================
