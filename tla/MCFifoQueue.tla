---------------------------- MODULE MCFifoQueue ----------------------------
(***************************************************************************)
(* Small instances of the packet queue.  With packets of three bytes the   *)
(* sizes cover every length of the unused tail: none, one byte (no room    *)
(* for END_FLAG), and two to four bytes.                                   *)
(***************************************************************************)
EXTENDS FifoQueue

CONSTANTS c1, c2

\* One consumer that peeks, or two that do not.
OneConsumer  == {{c1}}
EitherCrew   == {{c1}, {c1, c2}}
Nobody       == {}

EveryTail == 10 .. 14
OneSize   == {3}

MixedBuffer == {12}
MixedSizes  == {1, 2, 4}

\* Room for every packet of the run: no packet wraps.
LargeBuffer  == {20}
EmptyOrSmall == {0, 2}
=============================================================================
