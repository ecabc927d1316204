------------------------------ MODULE MCCrc16 ------------------------------
(***************************************************************************)
(* Buffers for TLC: every first byte, so that every entry of the table is  *)
(* used, followed by bytes that set and clear the ends of a byte.          *)
(***************************************************************************)
EXTENDS Crc16

AllBytes == 0 .. 255
SomeBytes == {0, 1, 49, 128, 255}
=============================================================================
