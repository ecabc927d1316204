---------------------------- MODULE MCUdpSocket ----------------------------
(***************************************************************************)
(* Two sockets, one address and one datagram for TLC.                      *)
(***************************************************************************)
EXTENDS UdpSocket, TLC

CONSTANTS s1, s2, nobody, ip, noip, data

MCObjects == {s1, s2}
\* The careful caller, two that do everything else, and each offence alone.
CarefulOrNot == {{"one thread"}, {"closes", "skips Create"}, {"one thread", "creates again"}}
CarefulOnly  == {{"one thread"}}
Closing      == {{"one thread", "closes"}}
TwoThreads   == {{}}
CreateTwice  == {{"one thread", "creates again"}}

ObjectSymmetry == Permutations(MCObjects)
=============================================================================
