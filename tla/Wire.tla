-------------------------------- MODULE Wire --------------------------------
(***************************************************************************)
(* The handlers at the level of bytes.  A word crosses the server in       *)
(* network order, in host order and as a number in a column; a message     *)
(* leaves by two encoders, once as it came and again from its row; and the *)
(* receipt must name the row the frame was made from.  Every handler is    *)
(* one step, and statements and remote calls succeed, except the COUNT of  *)
(* the log-in, whose failure the answer shows: other failures and the      *)
(* interleavings are the subject of ShortMessage, like message_store,      *)
(* which the handlers write and never read.  The terminals, which know     *)
(* identifiers in network order only, are external.                        *)
(***************************************************************************)
EXTENDS Coder, FiniteSets

CONSTANTS
  Terminals,    \* identifiers, four bytes in network order
  FrameIds,     \* frame numbers, two bytes in network order
  Retains,      \* values of the retain byte
  Texts,        \* bodies: sequences of bytes other than 0
  Reports,      \* lists of [sate_id, beam_id, snr] terminals report
  Backlogs,     \* numbers of messages that may wait for every terminal at the start
  FromFirst,    \* requests begin with from_id, as struct ControlHead says
  MaxSubmits,   \* bound: messages the terminals send
  MaxReports,   \* bound: log-ins, log-outs and mobility reports the terminals send
  MaxInbox      \* bound: requests on their way at a time

Byte == 0 .. 255

ASSUME WireAssumption ==
  /\ \A id \in Terminals : id \in Seq(Byte) /\ Len(id) = 4
  /\ \A id \in FrameIds : id \in Seq(Byte) /\ Len(id) = 2
  /\ Retains \subseteq Byte
  /\ \A text \in Texts : text \in Seq(Byte \ {0})
  /\ \A sates \in Reports :
       /\ sates \in Seq([sate_id : Byte, beam_id : Byte, snr : Seq(Byte)])
       /\ Len(sates) \in Byte
       /\ \A i \in DOMAIN sates : Len(sates[i].snr) = 4
  /\ Backlogs \subseteq Nat
  /\ FromFirst \in BOOLEAN
  /\ MaxSubmits \in Nat
  /\ MaxReports \in Nat
  /\ MaxInbox \in Nat

VARIABLES
  inbox,          \* requests on their way to the server
  message_cache,  \* rows [from_user, to_user, frame_id, type, text]
  backlog,        \* number of further rows every terminal has
  sate_cover,     \* from the user_id of a row to its SNR columns
  sent,           \* frames [uid, content] handed to the access servers
  submitted,      \* messages the terminals have sent
  reported,       \* number of reports they have sent
  accepted,       \* keys of the complete messages the server has taken
  settled,        \* keys whose receipt the server has processed since it took them
  known,          \* known[t]: the last report stored for t, <<>> for a log-out
  announced       \* answers to log-ins: the byte told, the messages that waited then, and
                  \* whether they could be counted

db   == <<message_cache, backlog, sate_cover>>
hist == <<submitted, reported, accepted, settled, known, announced>>
vars == <<inbox, db, sent, hist>>

MAX_BEAM_NUM == 10
Beams     == 1 .. MAX_BEAM_NUM
NoSnr     == <<0, 0, 128, 191>>         \* -1 as a float
NoReport  == <<0>>
ServerId  == <<0, 0, 0, 0>>

SIMPLE_MESSAGE   == 64
COMPLETE_MESSAGE == 96
RECEIPTE         == 128
Login            == 0
Logout           == 2
MOBILE_MANAGER_REQUEST == 3
INQUIRE_MESSAGE_REQUEST == 112

----------------------------------------------------------------------------
\* Statements.  The key of a row is given by the bound parameters.
RowKey(row) == <<row.from_user, row.to_user, row.frame_id>>
Key(from_id, to_id, frame_id) == <<SetInt(from_id), SetInt(to_id), frame_id>>

OfflineRow(head) ==
  [from_user |-> SetInt(ntohl(head.from_id)), to_user |-> SetInt(ntohl(head.to_id)),
   frame_id |-> ntohs(head.frame_id), type |-> head.type, text |-> CString(head.content)]

ItemOf(row) ==
  [to_id |-> GetInt(row.to_user), from_id |-> GetInt(row.from_user), frame_id |-> row.frame_id,
   type |-> row.type, retain |-> 0, content |-> row.text]

\* Mutant: the messages the user has sent are counted.
GetOfflineMessageNum_Sent(user_id) ==
  Cardinality({row \in message_cache : row.from_user = SetInt(user_id)}) + backlog

\* The COUNT.  When it fails the function returns 0, see ProcessLogin.
GetOfflineMessageNum(user_id) ==
  Cardinality({row \in message_cache : row.to_user = SetInt(user_id)}) + backlog

\* UpdateSateCover: the statement's text holds the identifier unsigned.  An UPDATE that
\* finds no row succeeds.
UpdateSateCover(user_id, sates) ==
  LET heard(b) == {i \in DOMAIN sates : sates[i].beam_id = b}
      last(b)  == CHOOSE i \in heard(b) : \A j \in heard(b) : j <= i IN
    IF to_string(user_id) \in DOMAIN sate_cover
    THEN [sate_cover EXCEPT ![to_string(user_id)] =
            [b \in Beams |-> IF heard(b) = {} THEN NoSnr ELSE PrintSnr(sates[last(b)].snr)]]
    ELSE sate_cover

Positive(snr) == snr[4] < 128 /\ snr # <<0, 0, 0, 0>>

\* GetSateCover: the identifier is bound as a signed integer.
GetSateCover(user_id) ==
  IF SetInt(user_id) \in DOMAIN sate_cover
  THEN {b \in Beams : Positive(sate_cover[SetInt(user_id)][b])}
  ELSE {}

\* SendMessage, when sates is not empty.
Frames(user_id, content, sates) ==
  IF sates = {} THEN {} ELSE {[uid |-> user_id, content |-> content]}

----------------------------------------------------------------------------
\* The handlers.
\* Mutant: the frame number, already in network order, is converted again.
Receipt_FrameSwapped(head) ==
  [to_id |-> htonl(ntohl(head.from_id)), from_id |-> ServerId, frame_id |-> htons(head.frame_id),
   type |-> RECEIPTE, retain |-> 0, receipt_type |-> 80, receipt_indicate |-> 0]

Receipt(head) ==
  [to_id |-> htonl(ntohl(head.from_id)), from_id |-> ServerId, frame_id |-> head.frame_id,
   type |-> RECEIPTE, retain |-> 0, receipt_type |-> 80, receipt_indicate |-> 0]

ProcessSimpleMessage(head) ==
  LET to_id == ntohl(head.to_id) IN
    /\ sent' = sent \cup Frames(to_id, MessageEncodeHead(head), GetSateCover(to_id))
    /\ UNCHANGED <<db, hist>>

ProcessCompleteMessage(head) ==
  LET to_id == ntohl(head.to_id)
      from_id == ntohl(head.from_id) IN
    /\ message_cache' = message_cache \cup {OfflineRow(head)}
    /\ sent' = sent \cup Frames(from_id, ResponseEncode(Receipt(head)), GetSateCover(from_id))
                    \cup Frames(to_id, MessageEncodeHead(head), GetSateCover(to_id))
    /\ accepted' = accepted \cup {<<head.from_id, head.to_id, head.frame_id>>}
    /\ settled' = settled \ {<<head.from_id, head.to_id, head.frame_id>>}
    /\ UNCHANGED <<backlog, sate_cover, submitted, reported, known, announced>>

\* Mutant: the ends are not exchanged, the recipient of the receipt is taken for that
\* of the message.
ReceiptKey_SameEnds(head) ==
  Key(ntohl(head.from_id), ntohl(head.to_id), ntohs(UserAckResponse(head.content).frame_id))

\* The message a receipt is for: the receipt's sender is the message's recipient.
ReceiptKey(head) ==
  Key(ntohl(head.to_id), ntohl(head.from_id), ntohs(UserAckResponse(head.content).frame_id))

ProcessReceipt(head) ==
  LET ack == UserAckResponse(head.content) IN
    IF ack.receipt_type # COMPLETE_MESSAGE
    THEN UNCHANGED <<db, sent, hist>>
    ELSE /\ message_cache' = {row \in message_cache : RowKey(row) # ReceiptKey(head)}
         /\ settled' = settled \cup {<<head.to_id, head.from_id, ack.frame_id>>}
         /\ UNCHANGED <<backlog, sate_cover, sent, submitted, reported, accepted, known, announced>>

MobileReply(head, receipt_type, receipt_indicate) ==
  [to_id |-> head.from_id, from_id |-> head.to_id, frame_id |-> head.frame_id,
   type |-> RECEIPTE, retain |-> head.retain,
   receipt_type |-> receipt_type, receipt_indicate |-> receipt_indicate]

\* The beams of a request SendMessage can choose: snr > -1.  Every beam has an address.
AboveFloor(snr) == snr[4] < 128 \/ Magnitude(snr) < Magnitude(NoSnr)
BeamsOf(sates)  == {sates[i].beam_id : i \in {j \in DOMAIN sates : AboveFloor(sates[j].snr)}}

Indicate(num) == IF num < 255 THEN num % 256 ELSE 255

\* The messages that wait for a terminal, in the terminals' own terms.
Waiting(id) == Cardinality({key \in accepted \ settled : key[2] = id}) + backlog

\* The reply goes out on the beams of the request.  Every terminal is registered.  An
\* exception in GetOfflineMessageNum is caught there and leaves 0.
ProcessLogin(head) ==
  LET user_id == ntohl(head.from_id)
      sates   == SateParams(head.content) IN
    IF sates = <<>>
    THEN UNCHANGED <<db, sent, hist>>
    ELSE \E counted \in BOOLEAN :
           LET num   == IF counted THEN GetOfflineMessageNum(user_id) ELSE 0
               reply == ResponseEncode(MobileReply(head, 0, Indicate(num))) IN
             /\ sate_cover' = UpdateSateCover(user_id, sates)
             /\ sent' = sent \cup Frames(user_id, reply, BeamsOf(sates))
             /\ known' = [known EXCEPT ![head.from_id] = head.content]
             /\ announced' = announced \cup
                  {[byte |-> reply[14], waiting |-> Waiting(head.from_id), counted |-> counted]}
             /\ UNCHANGED <<message_cache, backlog, submitted, reported, accepted, settled>>

ProcessLogout(head) ==
  LET user_id == ntohl(head.from_id) IN
    /\ sate_cover' = UpdateSateCover(user_id, <<>>)
    /\ sent' = sent \cup Frames(user_id, ResponseEncode(MobileReply(head, 2, 0)), GetSateCover(user_id))
    /\ known' = [known EXCEPT ![head.from_id] = <<>>]
    /\ UNCHANGED <<message_cache, backlog, submitted, reported, accepted, settled, announced>>

ProcessMobileRequest(head) ==
  LET user_id == ntohl(head.from_id)
      sates   == SateParams(head.content) IN
    IF sates = <<>>
    THEN UNCHANGED <<db, sent, hist>>
    ELSE /\ sate_cover' = UpdateSateCover(user_id, sates)
         /\ sent' = sent \cup Frames(user_id, ResponseEncode(MobileReply(head, 3, 0)), BeamsOf(sates))
         /\ known' = [known EXCEPT ![head.from_id] = head.content]
         /\ UNCHANGED <<message_cache, backlog, submitted, reported, accepted, settled, announced>>

\* LogicInterfaceHandler::AccessToLogic.
AccessToLogic(request) ==
  /\ request \in inbox
  /\ inbox' = inbox \ {request}
  /\ LET head == ControlHead(request) IN
       \/ head.type = Login                  /\ ProcessLogin(head)
       \/ head.type = Logout                 /\ ProcessLogout(head)
       \/ head.type = MOBILE_MANAGER_REQUEST /\ ProcessMobileRequest(head)
       \/ head.type = SIMPLE_MESSAGE         /\ ProcessSimpleMessage(head)
       \/ head.type = COMPLETE_MESSAGE       /\ ProcessCompleteMessage(head)
       \/ head.type = RECEIPTE               /\ ProcessReceipt(head)
       \/ head.type \notin {Login, Logout, MOBILE_MANAGER_REQUEST,
                             SIMPLE_MESSAGE, COMPLETE_MESSAGE, RECEIPTE}
          /\ UNCHANGED <<db, sent, hist>>

\* One message of a round of the retransmission daemon.
Retransmit(row) ==
  /\ row \in message_cache
  /\ LET message == ItemOf(row) IN
       sent' = sent \cup Frames(message.to_id, MessageEncodeItem(message),
                                GetSateCover(message.to_id))
  /\ UNCHANGED <<inbox, db, hist>>

----------------------------------------------------------------------------
\* The terminals.
RequestHead(from, to, frame, type, retain) ==
  (IF FromFirst THEN from \o to ELSE to \o from) \o frame \o <<type, retain>>

Submit(message) ==
  /\ Cardinality(inbox) < MaxInbox
  /\ message \notin submitted
  /\ Cardinality(submitted) < MaxSubmits
  /\ submitted' = submitted \cup {message}
  /\ inbox' = inbox \cup
       {RequestHead(message.from, message.to, message.frame, message.type, message.retain)
          \o message.text \o <<0>>}
  /\ UNCHANGED <<db, sent, reported, accepted, settled, known, announced>>

\* A frame as a terminal reads it: to_id comes first.
Reads(content) ==
  [to |-> SubSeq(content, 1, 4), from |-> SubSeq(content, 5, 8), frame |-> SubSeq(content, 9, 10),
   type |-> content[11], retain |-> content[12],
   text |-> CString(SubSeq(content, 13, Len(content)))]

\* The receipt for a complete message, under a frame number of the terminal's own.
Answer(frame) ==
  LET got == Reads(frame.content) IN
    /\ Cardinality(inbox) < MaxInbox
    /\ got.type = COMPLETE_MESSAGE
    /\ inbox' = inbox \cup
         {RequestHead(got.to, got.from, <<0, 9>>, RECEIPTE, 0) \o got.frame \o <<COMPLETE_MESSAGE, 0>>}
    /\ UNCHANGED <<db, sent, hist>>

Position == [i \in 1 .. MOBILE_REQUEST_SIZE |-> 7]

\* The list of beams, six bytes for each.
ReportBody(sates) ==
  LET entry(i) == <<sates[i].sate_id, sates[i].beam_id>> \o sates[i].snr IN
    Position \o <<0, Len(sates)>>
      \o [k \in 1 .. 6 * Len(sates) |-> entry(((k - 1) \div 6) + 1)[((k - 1) % 6) + 1]]

Report(terminal, type, sates) ==
  /\ Cardinality(inbox) < MaxInbox
  /\ reported < MaxReports
  /\ reported' = reported + 1
  /\ inbox' = inbox \cup {RequestHead(terminal, ServerId, <<0, 5>>, type, 0) \o ReportBody(sates)}
  /\ UNCHANGED <<db, sent, submitted, accepted, settled, known, announced>>

----------------------------------------------------------------------------
Messages ==
  [from : Terminals, to : Terminals, frame : FrameIds,
   type : {SIMPLE_MESSAGE, COMPLETE_MESSAGE, INQUIRE_MESSAGE_REQUEST}, retain : Retains, text : Texts]

\* Every terminal has a row, whose identifier was entered signed or unsigned and which
\* holds beam 1.
Init ==
  /\ inbox = {}
  /\ message_cache = {}
  /\ backlog \in Backlogs
  /\ \E Column \in {[id \in Terminals |-> SetInt(ntohl(id))], [id \in Terminals |-> to_string(ntohl(id))]} :
       sate_cover = [number \in {Column[id] : id \in Terminals} |->
                       [b \in Beams |-> IF b = 1 THEN <<0, 0, 32, 65>> ELSE NoSnr]]
  /\ sent = {}
  /\ submitted = {}
  /\ reported = 0
  /\ accepted = {}
  /\ settled = {}
  /\ known = [id \in Terminals |-> NoReport]
  /\ announced = {}

Next ==
  \/ \E request \in inbox : AccessToLogic(request)
  \/ \E row \in message_cache : Retransmit(row)
  \/ \E message \in Messages : Submit(message)
  \/ \E frame \in sent : Answer(frame)
  \/ \E id \in Terminals, type \in {Login, Logout, MOBILE_MANAGER_REQUEST}, sates \in Reports :
       Report(id, type, sates)

Spec == Init /\ [][Next]_vars

----------------------------------------------------------------------------
\* message_cache holds exactly the complete messages that were taken and whose
\* receipt has not been processed, in the terminals' own terms: the receipt a
\* terminal makes from either encoding of a message finds the row of that message,
\* whatever the bytes of its identifiers (ProcessCompleteMessage, GetAllOfflineMessage
\* and ProcessReceipt).
CacheIsUnsettled ==
  {<<htonl(row.from_user.bits), htonl(row.to_user.bits), htons(row.frame_id)>> : row \in message_cache}
    = accepted \ settled

\* Every message frame, first or repeated, is handed over for the terminal it names
\* and carries a message that was sent to that terminal, whole; only the retain byte
\* of a repeated one differs (both MessageEncode functions).
DeliveredAsSubmitted ==
  \A frame \in sent :
    LET got == Reads(frame.content) IN
      got.type \in {SIMPLE_MESSAGE, COMPLETE_MESSAGE} =>
        /\ frame.uid = ntohl(got.to)
        /\ \E message \in submitted :
             /\ message.from = got.from
             /\ message.to = got.to
             /\ message.frame = got.frame
             /\ message.type = got.type
             /\ message.text = got.text
             /\ got.retain \in {message.retain, 0}

\* The receipt a sender is given names a complete message of its own that is in
\* custody or settled (ProcessCompleteMessage, ResponseEncode).
ReceiptNamesMessage ==
  \A frame \in sent :
    LET got == Reads(frame.content) IN
      got.type = RECEIPTE /\ frame.content[13] = 80 =>
        /\ frame.uid = ntohl(got.to)
        /\ \E key \in accepted : key[1] = got.to /\ key[3] = got.frame

\* No two complete messages have the same ends and the same frame number.
KeysUsedOnce ==
  \A m, n \in submitted :
    /\ m.type = COMPLETE_MESSAGE /\ n.type = COMPLETE_MESSAGE
    /\ <<m.from, m.to, m.frame>> = <<n.from, n.to, n.frame>>
    => m = n

\* The byte that tells a number of messages: 255 stands for all larger numbers.
Told(waiting) == IF waiting < 255 THEN waiting ELSE 255

\* A terminal that logs in is told how many messages are in custody for it, taken and
\* not settled by a receipt of its own, unless the COUNT has failed: the rows of
\* message_cache for the signed identifier are the messages for the terminal's bytes,
\* and 255 or 256 of them do not become 0 (ProcessCompleteMessage, ProcessReceipt,
\* GetOfflineMessageNum and ProcessLogin).
AnnouncedIsWaiting ==
  KeysUsedOnce => \A told \in announced : told.counted => told.byte = Told(told.waiting)

Heard(sates) == {sates[i].beam_id : i \in {j \in DOMAIN sates : Positive(PrintSnr(sates[j].snr))}}

\* The beams of a report that was stored, those whose SNR is positive to six decimals,
\* are the beams messages are routed by (UpdateSateCover and GetSateCover name the
\* same row and the same columns).
ReportIsReadBack ==
  \A id \in Terminals :
    /\ known[id] = <<>> => GetSateCover(ntohl(id)) = {}
    /\ \A sates \in Reports :
         known[id] = ReportBody(sates) => GetSateCover(ntohl(id)) = Heard(sates)

----------------------------------------------------------------------------
(* What does not hold of the code.                                         *)

\* AnnouncedIsWaiting for every log-in.  GetOfflineMessageNum returns 0 for every
\* exception, and the positive answer says that nothing waits.
EveryAnswerCounts == \A told \in announced : told.byte = Told(told.waiting)
=============================================================================
