------------------------------ MODULE Protocol ------------------------------
(***************************************************************************)
(* The frames exchanged with the access servers and the records the        *)
(* handlers pass around (logic/protocol.h, logic/coder.cpp).  Bodies of    *)
(* messages are opaque values; byte order and string layout are left out   *)
(* (no property of the server depends on them).  SNR values are kept in    *)
(* tenths of a unit, so that the truncation the code performs is visible.  *)
(***************************************************************************)
EXTENDS Integers, Sequences

CONSTANTS
  Users,          \* terminal identifiers
  Texts,          \* bodies a terminal can send
  EmptyText,      \* the empty string: a default-constructed std::string
  Uninit,         \* the content of a local that was never assigned
  MAX_BEAM_NUM    \* beams of the constellation, 10 in the code

ASSUME ProtocolAssumption ==
  /\ EmptyText \notin Texts
  /\ 0 \notin Users
  /\ Uninit \notin Users \cup Nat
  /\ MAX_BEAM_NUM \in Nat \ {0}

\* enum SignalType.
Login                   == 0
Logout                  == 2
MOBILE_MANAGER_REQUEST  == 3
SIMPLE_MESSAGE          == 64
FORWARD_NOACK_MESSAGE   == 80
BACKWARD_NOACK_MESSAGE  == 81
COMPLETE_MESSAGE        == 96
INQUIRE_MESSAGE_REQUEST == 112
RECEIPTE                == 128

\* The values of Response.receipt_type the handlers use.
LOGIN_OK       == 0
LOGIN_FAILED   == 1
LOGOUT_DONE    == 2
MOBILE_DONE    == 3
SENDER_RECEIPT == 80

ServerId == 0                       \* from_id of the frames the server originates
Beams    == 1 .. MAX_BEAM_NUM
Parties  == Users \cup {ServerId}

(***************************************************************************)
(* One beam a terminal hears.  A std::vector<SateParam> is a function from *)
(* a set of indices to SateParam, visited in ascending order: a reported   *)
(* list has the indices 1..n, a list read from the table has the beam      *)
(* numbers themselves as indices.                                          *)
(***************************************************************************)
SateParam == [sate_id : Int, beam_id : Int, snr : Int]

IsSates(f) ==
  /\ f = [i \in DOMAIN f |-> f[i]]
  /\ DOMAIN f \subseteq Nat
  /\ \A i \in DOMAIN f : f[i] \in SateParam

\* A request from an access server.  content[] is read as a body, as an
\* UserAckResponse or as the coverage list, according to the type.
UserAckResponse == [frame_id : Nat, receipt_type : Nat]

ControlHead ==
  [from_id : Parties, to_id : Parties, frame_id : Nat, type : Nat,
   text : Texts \cup {EmptyText}, ack : UserAckResponse, sates : Seq(SateParam)]

NoAck == [frame_id |-> 0, receipt_type |-> 0]

\* A message as the handlers hold it: FilledItem when it was read from a row, any
\* MessageItem when the local may never have been assigned.  row is the identity of
\* the row (0 when there was none).
FilledItem ==
  [to_id : Parties, from_id : Parties, frame_id : Nat, type : Nat,
   text : Texts \cup {EmptyText}, row : Nat]

MessageItem ==
  [to_id : Parties \cup {Uninit}, from_id : Parties \cup {Uninit},
   frame_id : Nat \cup {Uninit}, type : Nat \cup {Uninit},
   text : Texts \cup {EmptyText}, row : Nat]

\* What SendMessage hands to the access server of a beam.
Content ==
  [to_id : Parties, from_id : Parties, frame_id : Nat, type : Nat,
   text : Texts \cup {EmptyText}, receipt_type : Nat, receipt_indicate : Nat]

AccessMessage ==
  [uid : Parties, sate_id : Int, beam_id : Int, level : Nat, content : Content]

\* ResponseEncode: to_id comes first on the wire, then the sender's identity.
ResponseEncode(to_id, from_id, frame_id, receipt_type, receipt_indicate) ==
  [to_id |-> to_id, from_id |-> from_id, frame_id |-> frame_id,
   type |-> RECEIPTE, text |-> EmptyText,
   receipt_type |-> receipt_type, receipt_indicate |-> receipt_indicate]

\* MessageEncode, from a ControlHead or from a MessageItem (same fields).
MessageEncode(m) ==
  [to_id |-> m.to_id, from_id |-> m.from_id, frame_id |-> m.frame_id,
   type |-> m.type, text |-> m.text, receipt_type |-> 0, receipt_indicate |-> 0]

\* Key under which the tables identify a message.
Key(from_id, to_id, frame_id) == <<from_id, to_id, frame_id>>
=============================================================================
