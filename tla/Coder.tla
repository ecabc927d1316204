-------------------------------- MODULE Coder --------------------------------
(***************************************************************************)
(* The byte layout of frames: the packed structures of logic/protocol.h    *)
(* as the handlers lay them over a request, the encoders of                *)
(* logic/coder.cpp, and what the binding of parameters does to an          *)
(* identifier.  A word (uint32_t, uint16_t) is the tuple of its bytes in   *)
(* memory, lowest address first; the host is little-endian.                *)
(***************************************************************************)
EXTENDS Integers, SequencesExt

\* The byte-order functions of the C library.
ntohl(word) == Reverse(word)
htonl(word) == Reverse(word)
ntohs(word) == Reverse(word)
htons(word) == Reverse(word)

\* What strlen and strcpy see of a buffer.
CString(bytes) ==
  LET end == SelectInSeq(bytes, LAMBDA b : b = 0) IN
    IF end = 0 THEN bytes ELSE SubSeq(bytes, 1, end - 1)

\* A request under the type ControlHead: from_id comes first.
ControlHead(request) ==
  [from_id  |-> SubSeq(request, 1, 4),
   to_id    |-> SubSeq(request, 5, 8),
   frame_id |-> SubSeq(request, 9, 10),
   type     |-> request[11],
   retain   |-> request[12],
   content  |-> SubSeq(request, 13, Len(request))]

UserAckResponse(content) ==
  [frame_id |-> SubSeq(content, 1, 2), receipt_type |-> content[3]]

\* The list of beams that follows the 17 bytes of a MobileRequest: the ground cover,
\* the number of beams, then six bytes for each.
MOBILE_REQUEST_SIZE == 17

\* Mutant: the two numbers of an entry are read in the opposite order.
SateParams_Swapped(content) ==
  [i \in 1 .. content[MOBILE_REQUEST_SIZE + 2] |->
     LET pos == MOBILE_REQUEST_SIZE + 2 + 6 * (i - 1) IN
       [sate_id |-> content[pos + 2], beam_id |-> content[pos + 1],
        snr |-> SubSeq(content, pos + 3, pos + 6)]]

SateParams(content) ==
  [i \in 1 .. content[MOBILE_REQUEST_SIZE + 2] |->
     LET pos == MOBILE_REQUEST_SIZE + 2 + 6 * (i - 1) IN
       [sate_id |-> content[pos + 1], beam_id |-> content[pos + 2],
        snr |-> SubSeq(content, pos + 3, pos + 6)]]

\* ResponseEncode: the fields as they are in the Response, and one byte more.
ResponseEncode(response) ==
  response.to_id \o response.from_id \o response.frame_id
    \o <<response.type, response.retain, response.receipt_type, response.receipt_indicate, 0>>

\* MessageEncode(const ControlHead*): the head's words are still in network order.
MessageEncodeHead(head) ==
  head.to_id \o head.from_id \o head.frame_id \o <<head.type, head.retain>>
    \o CString(head.content) \o <<0>>

\* Mutant: frame_id leaves in host order.
MessageEncodeItem_HostFrame(message) ==
  htonl(message.to_id) \o htonl(message.from_id) \o message.frame_id
    \o <<message.type, message.retain>> \o message.content \o <<0>>

\* MessageEncode(const MessageItem&): the item's words came from the database.
MessageEncodeItem(message) ==
  htonl(message.to_id) \o htonl(message.from_id) \o htons(message.frame_id)
    \o <<message.type, message.retain>> \o message.content \o <<0>>

\* The number a column holds or a condition compares with: PreparedStatement_setInt
\* takes the 32 bits as a signed integer, std::to_string prints them unsigned.
SetInt(word)    == [negative |-> word[Len(word)] >= 128, bits |-> word]
to_string(word) == [negative |-> FALSE, bits |-> word]
GetInt(number)  == number.bits

\* A float without its sign, as the number its bits are: floats of one sign are
\* ordered like these numbers.
Magnitude(snr) == snr[1] + 256 * snr[2] + 65536 * snr[3] + 16777216 * (snr[4] % 128)

\* std::to_string of a float prints six decimals: nothing is left of a value up to
\* 5.0e-7, whose magnitude is 0x350637BD.
PrintSnr(snr) == IF Magnitude(snr) <= 889599933 THEN <<0, 0, 0, 0>> ELSE snr
=============================================================================
