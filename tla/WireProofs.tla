----------------------------- MODULE WireProofs -----------------------------
(***************************************************************************)
(* Proofs about Wire: the two encoders, the requests and the columns agree *)
(* byte by byte on what a message, its row and its receipt are called.     *)
(***************************************************************************)
EXTENDS Wire, SequenceTheorems, FiniteSetTheorems, TLAPS

\* Words of memory.
Words(n) == {w \in Seq(Byte) : Len(w) = n}

----------------------------------------------------------------------------
(* Sequences of bytes.                                                     *)

\* The bytes of a concatenation, by their positions.
LEMMA Joined ==
  ASSUME NEW a \in Seq(Byte), NEW b \in Seq(Byte)
  PROVE  /\ a \o b \in Seq(Byte) /\ Len(a \o b) = Len(a) + Len(b)
         /\ \A i \in 1 .. Len(a) : (a \o b)[i] = a[i]
         /\ \A i \in 1 .. Len(b) : (a \o b)[Len(a) + i] = b[i]
BY ConcatProperties

\* The elements of a word are bytes.
LEMMA WordAt ==
  ASSUME NEW n \in Nat, NEW w \in Words(n), NEW i \in 1 .. n
  PROVE  w[i] \in Byte
BY DEF Words

\* The same as Joined for parts of known lengths.
LEMMA JoinedAt ==
  ASSUME NEW m \in Nat, NEW n \in Nat, NEW a \in Words(m), NEW b \in Words(n)
  PROVE  /\ a \o b \in Words(m + n)
         /\ \A i \in 1 .. m : (a \o b)[i] = a[i]
         /\ \A i \in 1 .. n : (a \o b)[m + i] = b[i]
<1>1. a \in Seq(Byte) /\ Len(a) = m /\ b \in Seq(Byte) /\ Len(b) = n
  BY DEF Words
<1> DEFINE s == a \o b
<1>2. /\ s \in Seq(Byte) /\ Len(s) = Len(a) + Len(b)
      /\ \A i \in 1 .. Len(a) : s[i] = a[i]
      /\ \A i \in 1 .. Len(b) : s[Len(a) + i] = b[i]
  BY <1>1, Joined
<1> HIDE DEF s
<1>3. /\ s \in Words(m + n)
      /\ \A i \in 1 .. m : s[i] = a[i]
      /\ \A i \in 1 .. n : s[m + i] = b[i]
  BY <1>1, <1>2 DEF Words
<1> QED
  BY <1>3 DEF s

\* A part of a buffer is read back by the positions of its bytes.
LEMMA Slice ==
  ASSUME NEW s \in Seq(Byte), NEW w \in Seq(Byte), NEW k \in Nat, k + Len(w) <= Len(s),
         \A i \in 1 .. Len(w) : s[k + i] = w[i]
  PROVE  SubSeq(s, k + 1, k + Len(w)) = w
<1> DEFINE part == SubSeq(s, k + 1, k + Len(w))
<1>1. Len(w) \in Nat /\ Len(s) \in Nat
  OBVIOUS
<1>2. part = [i \in 1 .. Len(w) |-> s[k + i]]
  <2>1. k + Len(w) - (k + 1) + 1 = Len(w)
    BY <1>1
  <2>2. \A i \in 1 .. Len(w) : (k + 1) + i - 1 = k + i
    BY <1>1
  <2> QED
    BY <1>1, <2>1, <2>2
<1>3. w = [i \in 1 .. Len(w) |-> w[i]]
  OBVIOUS
<1> QED
  BY <1>2, <1>3

\* The same for a part of known length and place.
LEMMA SliceAt ==
  ASSUME NEW k \in Nat, NEW n \in Nat, NEW s \in Seq(Byte), NEW w \in Words(n), k + n <= Len(s),
         \A i \in 1 .. n : s[k + i] = w[i]
  PROVE  SubSeq(s, k + 1, k + n) = w
BY Slice DEF Words

\* htonl, ntohl, htons and ntohs reverse the bytes of a word, and undo each other.
LEMMA Reversed ==
  ASSUME NEW n \in Nat, NEW w \in Words(n)
  PROVE  Reverse(w) \in Words(n) /\ Reverse(Reverse(w)) = w
<1> DEFINE r == Reverse(w)
<1>0. w \in Seq(Byte) /\ Len(w) = n
  BY DEF Words
<1>1. r = [i \in 1 .. n |-> w[n - i + 1]]
  BY <1>0 DEF Reverse
<1>2. \A i \in 1 .. n : n - i + 1 \in 1 .. n
  OBVIOUS
<1>3. r \in Seq(Byte) /\ Len(r) = n
  <2>1. \A i \in 1 .. n : w[n - i + 1] \in Byte
    BY <1>0, <1>2
  <2> QED
    BY <1>1, <2>1, IsASeq
<1>4. Reverse(r) = [i \in 1 .. n |-> r[n - i + 1]]
  BY <1>3 DEF Reverse
<1> HIDE DEF r
<1>5. Reverse(r) = [i \in 1 .. n |-> w[i]]
  <2>1. ASSUME NEW i \in 1 .. n PROVE r[n - i + 1] = w[i]
    <3>1. n - i + 1 \in 1 .. n /\ n - (n - i + 1) + 1 = i
      OBVIOUS
    <3> QED
      BY <1>1, <3>1
  <2> QED
    BY <1>4, <2>1
<1> QED
  BY <1>0, <1>3, <1>5 DEF r, Words

\* strlen finds the end of a body where the encoders have put it.
LEMMA CStringOfBody ==
  ASSUME NEW text \in Seq(Byte \ {0})
  PROVE  CString(text \o <<0>>) = text
<1> DEFINE s == text \o <<0>>
           I == {i \in 1 .. Len(s) : s[i] = 0}
           n == Len(text)
<1>0. text \in Seq(Byte) /\ n \in Nat /\ \A i \in 1 .. n : text[i] # 0
  BY SeqMonotonic
<1>1. /\ s \in Seq(Byte) /\ Len(s) = n + 1 /\ s[n + 1] = 0
      /\ \A i \in 1 .. n : s[i] = text[i]
  <2>1. <<0>> \in Seq(Byte) /\ Len(<<0>>) = 1 /\ <<0>>[1] = 0 /\ 1 \in 1 .. 1
    BY DEF Byte
  <2> QED
    BY <1>0, <2>1, Joined
<1>2. CString(s) = LET end == IF I # {} THEN Min(I) ELSE 0
                   IN  IF end = 0 THEN s ELSE SubSeq(s, 1, end - 1)
  BY DEF CString, SelectInSeq
<1>3. I = {n + 1}
  BY <1>0, <1>1
<1>4. Min({n + 1}) = n + 1
  BY <1>0 DEF Min
<1> HIDE DEF s, I
<1>5. CString(s) = SubSeq(s, 1, n)
  <2>1. CString(s) = IF n + 1 = 0 THEN s ELSE SubSeq(s, 1, (n + 1) - 1)
    BY <1>2, <1>3, <1>4
  <2>2. n + 1 # 0 /\ (n + 1) - 1 = n
    BY <1>0
  <2> QED
    BY <2>1, <2>2
<1>6. SubSeq(s, 1, n) = text
  <2>1. SubSeq(s, 0 + 1, 0 + Len(text)) = text
    BY <1>0, <1>1, Slice
  <2> QED
    BY <1>0, <2>1
<1> QED
  BY <1>5, <1>6 DEF s

----------------------------------------------------------------------------
(* The twelve bytes every request and every frame begins with.             *)

Head12(a, b, id, type, retain) == a \o b \o id \o <<type, retain>>

\* Where the parts of a buffer are found.
Holds(s, a, b, id, type, retain, body) ==
  /\ s \in Seq(Byte) /\ Len(s) = 12 + Len(body)
  /\ SubSeq(s, 1, 4) = a /\ SubSeq(s, 5, 8) = b /\ SubSeq(s, 9, 10) = id
  /\ s[11] = type /\ s[12] = retain /\ SubSeq(s, 13, Len(s)) = body
  /\ \A i \in 1 .. Len(body) : s[12 + i] = body[i]

\* Two words, a frame number, the type and the retain byte are found where struct
\* ControlHead, and the terminals in a frame, have them; the rest is the content.
LEMMA HeadIsRead ==
  ASSUME NEW a \in Words(4), NEW b \in Words(4), NEW id \in Words(2), NEW type \in Byte,
         NEW retain \in Byte, NEW body \in Seq(Byte)
  PROVE  Holds(Head12(a, b, id, type, retain) \o body, a, b, id, type, retain, body)
<1> DEFINE s == Head12(a, b, id, type, retain) \o body
<1> DEFINE ab == a \o b
           abi == ab \o id
           two == <<type, retain>>
           h == abi \o two
           n == Len(body)
<1>n. /\ 2 \in Nat /\ 4 \in Nat /\ 8 \in Nat /\ 10 \in Nat /\ 12 \in Nat
      /\ 4 + 4 = 8 /\ 8 + 2 = 10 /\ 10 + 2 = 12
  OBVIOUS
<1>0. two \in Words(2) /\ two[1] = type /\ two[2] = retain
  BY DEF Words
<1>b. n \in Nat /\ body \in Words(n)
  BY DEF Words
<1> HIDE DEF two, n
<1>1. /\ ab \in Words(4 + 4)
      /\ \A i \in 1 .. 4 : ab[i] = a[i]
      /\ \A i \in 1 .. 4 : ab[4 + i] = b[i]
  BY <1>n, JoinedAt, Zenon
<1> HIDE DEF ab
<1>2. /\ abi \in Words(8 + 2)
      /\ \A i \in 1 .. 8 : abi[i] = ab[i]
      /\ \A i \in 1 .. 2 : abi[8 + i] = id[i]
  <2>1. ab \in Words(8)
    BY <1>1, <1>n, Zenon
  <2> QED
    BY <1>n, <2>1, JoinedAt, Zenon
<1> HIDE DEF abi
<1>3. /\ h \in Words(10 + 2)
      /\ \A i \in 1 .. 10 : h[i] = abi[i]
      /\ \A i \in 1 .. 2 : h[10 + i] = two[i]
  <2>1. abi \in Words(10)
    BY <1>2, <1>n, Zenon
  <2> QED
    BY <1>0, <1>n, <2>1, JoinedAt, Zenon
<1>4. s = h \o body
  BY DEF Head12, h, ab, abi, two
<1> HIDE DEF h, s
<1>5. /\ s \in Words(12 + n)
      /\ \A i \in 1 .. 12 : s[i] = h[i]
      /\ \A i \in 1 .. n : s[12 + i] = body[i]
  <2>1. h \in Words(12)
    BY <1>3, <1>n, Zenon
  <2>2. /\ h \o body \in Words(12 + n)
        /\ \A i \in 1 .. 12 : (h \o body)[i] = h[i]
        /\ \A i \in 1 .. n : (h \o body)[12 + i] = body[i]
    BY <1>b, <1>n, <2>1, JoinedAt, Zenon
  <2> QED
    BY <1>4, <2>2, Zenon
<1>6. s \in Seq(Byte) /\ Len(s) = 12 + n
  BY <1>5 DEF Words
<1>7. SubSeq(s, 1, 4) = a
  <2>1. \A i \in 1 .. 4 : s[0 + i] = a[i]
    <3> TAKE i \in 1 .. 4
    <3>1. 0 + i = i /\ i \in 1 .. 12 /\ i \in 1 .. 10 /\ i \in 1 .. 8
      OBVIOUS
    <3> QED
      BY <1>1, <1>2, <1>3, <1>5, <3>1
  <2>2. 0 + 4 <= Len(s) /\ 0 \in Nat
    BY <1>b, <1>6
  <2>3. SubSeq(s, 0 + 1, 0 + 4) = a
    BY <1>6, <1>n, <2>1, <2>2, SliceAt, Zenon
  <2>4. 0 + 1 = 1 /\ 0 + 4 = 4
    OBVIOUS
  <2> QED
    BY <2>3, <2>4, Zenon
<1>8. SubSeq(s, 5, 8) = b
  <2>1. \A i \in 1 .. 4 : s[4 + i] = b[i]
    <3> TAKE i \in 1 .. 4
    <3>1. 4 + i \in 1 .. 12 /\ 4 + i \in 1 .. 10 /\ 4 + i \in 1 .. 8
      OBVIOUS
    <3> QED
      BY <1>1, <1>2, <1>3, <1>5, <3>1
  <2>2. 4 + 4 <= Len(s) /\ 4 \in Nat
    BY <1>b, <1>6
  <2>3. SubSeq(s, 4 + 1, 4 + 4) = b
    BY <1>6, <1>n, <2>1, <2>2, SliceAt, Zenon
  <2>4. 4 + 1 = 5 /\ 4 + 4 = 8
    OBVIOUS
  <2> QED
    BY <2>3, <2>4, Zenon
<1>9. SubSeq(s, 9, 10) = id
  <2>1. \A i \in 1 .. 2 : s[8 + i] = id[i]
    <3> TAKE i \in 1 .. 2
    <3>1. 8 + i \in 1 .. 12 /\ 8 + i \in 1 .. 10
      OBVIOUS
    <3> QED
      BY <1>2, <1>3, <1>5, <3>1
  <2>2. 8 + 2 <= Len(s) /\ 8 \in Nat
    BY <1>b, <1>6
  <2>3. SubSeq(s, 8 + 1, 8 + 2) = id
    BY <1>6, <1>n, <2>1, <2>2, SliceAt, Zenon
  <2>4. 8 + 1 = 9 /\ 8 + 2 = 10
    OBVIOUS
  <2> QED
    BY <2>3, <2>4, Zenon
<1>10. s[11] = type /\ s[12] = retain
  <2>1. 11 = 10 + 1 /\ 12 = 10 + 2 /\ 11 \in 1 .. 12 /\ 12 \in 1 .. 12
    OBVIOUS
  <2>2. h[10 + 1] = two[1] /\ h[10 + 2] = two[2]
    BY <1>3
  <2>3. s[11] = h[11] /\ s[12] = h[12]
    BY <1>5, <2>1
  <2> QED
    BY <1>0, <2>1, <2>2, <2>3
<1>11. SubSeq(s, 13, 12 + n) = body
  <2>1. 12 + n <= Len(s)
    BY <1>b, <1>6
  <2>2. SubSeq(s, 12 + 1, 12 + n) = body
    BY <1>b, <1>n, <1>5, <1>6, <2>1, SliceAt, Zenon
  <2>3. 12 + 1 = 13
    OBVIOUS
  <2> QED
    BY <2>2, <2>3, Zenon
<1>12. Holds(s, a, b, id, type, retain, body)
  BY <1>5, <1>6, <1>7, <1>8, <1>9, <1>10, <1>11 DEF n, Holds
<1> QED
  BY <1>12 DEF s

\* The content that follows the head of a message: the body and its end.
LEMMA BodyJoined ==
  ASSUME NEW h \in Seq(Byte), NEW text \in Seq(Byte \ {0})
  PROVE  /\ (h \o text) \o <<0>> = h \o (text \o <<0>>)
         /\ text \o <<0>> \in Seq(Byte)
<1>1. text \in Seq(Byte) /\ <<0>> \in Seq(Byte)
  <2>1. text \in Seq(Byte)
    BY SeqMonotonic
  <2>2. <<0>> \in Seq(Byte)
    BY DEF Byte
  <2> QED
    BY <2>1, <2>2
<1> QED
  BY <1>1, ConcatAssociative, Joined

\* The head is a sequence of bytes.
LEMMA HeadBytes ==
  ASSUME NEW a \in Words(4), NEW b \in Words(4), NEW id \in Words(2), NEW type \in Byte,
         NEW retain \in Byte
  PROVE  Head12(a, b, id, type, retain) \in Seq(Byte)
<1>1. a \in Seq(Byte) /\ b \in Seq(Byte) /\ id \in Seq(Byte) /\ <<type, retain>> \in Seq(Byte)
  BY DEF Words
<1> HIDE DEF Words
<1>2. a \o b \in Seq(Byte)
  BY <1>1, Joined
<1>3. a \o b \o id \in Seq(Byte)
  BY <1>1, <1>2, Joined
<1> QED
  BY <1>1, <1>3, Joined DEF Head12

----------------------------------------------------------------------------
(* The inductive invariant.                                                *)

ReportTypes == {Login, Logout, MOBILE_MANAGER_REQUEST}

\* Requests as they reach the server, when they begin with from_id.
Requested(m) == Head12(m.from, m.to, m.frame, m.type, m.retain) \o (m.text \o <<0>>)
Receipted(m) == Head12(m.to, m.from, <<0, 9>>, RECEIPTE, 0) \o (m.frame \o <<COMPLETE_MESSAGE, 0>>)
Reported(id, type, sates) == Head12(id, ServerId, <<0, 5>>, type, 0) \o ReportBody(sates)

\* Frames as both encoders make them, a receipt for a sender, and the answer to a report.
Encoded(m, retain) ==
  [uid |-> ntohl(m.to),
   content |-> Head12(m.to, m.from, m.frame, m.type, retain) \o (m.text \o <<0>>)]
Confirmed(key) ==
  [uid |-> ntohl(key[1]), content |-> Head12(key[1], ServerId, key[3], RECEIPTE, 0) \o <<80, 0, 0>>]
Replied(id, receipt_type, indicate) ==
  [uid |-> ntohl(id),
   content |-> Head12(id, ServerId, <<0, 5>>, RECEIPTE, 0) \o <<receipt_type, indicate, 0>>]

\* A message's key as the terminals write it, and its row.
KeyOf(m) == <<m.from, m.to, m.frame>>
RowOf(m) ==
  [from_user |-> SetInt(ntohl(m.from)), to_user |-> SetInt(ntohl(m.to)), frame_id |-> ntohs(m.frame),
   type |-> m.type, text |-> m.text]
KeyOfRow(row) == <<htonl(row.from_user.bits), htonl(row.to_user.bits), htons(row.frame_id)>>

\* Complete messages the terminals have sent.
Complete == {m \in submitted : m.type = COMPLETE_MESSAGE}

\* Every request is a message that was sent, the receipt for a complete one, or a report.
RequestOK(request) ==
  \/ \E m \in submitted : request = Requested(m)
  \/ \E m \in Complete : request = Receipted(m)
  \/ \E id \in Terminals, type \in ReportTypes, sates \in Reports :
       request = Reported(id, type, sates)

InboxInv == \A request \in inbox : RequestOK(request)

\* Every row is the row of a complete message that was sent.
CacheInv ==
  /\ IsFiniteSet(message_cache)
  /\ \A row \in message_cache : \E m \in Complete : row = RowOf(m)
  /\ accepted \subseteq {KeyOf(m) : m \in Complete}

\* Every frame is an encoding of a message that was sent, the receipt for one that was
\* taken, or the answer to a report.
FrameOK(frame) ==
  \/ \E m \in submitted :
       /\ m.type \in {SIMPLE_MESSAGE, COMPLETE_MESSAGE}
       /\ frame = Encoded(m, m.retain) \/ frame = Encoded(m, 0)
  \/ \E key \in accepted : frame = Confirmed(key)
  \/ \E id \in Terminals, receipt_type \in ReportTypes,
        indicate \in Byte : frame = Replied(id, receipt_type, indicate)

SentInv == \A frame \in sent : FrameOK(frame)

\* What was announced is the number of messages that waited, when keys are used once.
AnnouncedInv ==
  /\ backlog \in Nat
  /\ AnnouncedIsWaiting

WireInv ==
  /\ submitted \subseteq Messages
  /\ InboxInv
  /\ CacheInv
  /\ SentInv
  /\ AnnouncedInv
  /\ CacheIsUnsettled

\* The columns a list of beams fills in.
Columns(sates) ==
  LET heard(b) == {i \in DOMAIN sates : sates[i].beam_id = b}
      last(b)  == CHOOSE i \in heard(b) : \A j \in heard(b) : j <= i IN
    [b \in Beams |-> IF heard(b) = {} THEN NoSnr ELSE PrintSnr(sates[last(b)].snr)]

\* Every terminal has a row, which holds the columns of the last report stored for it.
CoverInv ==
  /\ DOMAIN known = Terminals
  /\ DOMAIN sate_cover = {to_string(ntohl(id)) : id \in Terminals}
  /\ \A id \in Terminals :
       LET columns == sate_cover[to_string(ntohl(id))] IN
         \/ known[id] = NoReport
         \/ known[id] = <<>> /\ columns = Columns(<<>>)
         \/ \E sates \in Reports : known[id] = ReportBody(sates) /\ columns = Columns(sates)

\* The constants have the sizes the packed structures give them.
LEMMA MessageWords ==
  ASSUME NEW m \in Messages
  PROVE  /\ m.from \in Words(4) /\ m.to \in Words(4) /\ m.frame \in Words(2)
         /\ m.type \in Byte /\ m.retain \in Byte /\ m.text \in Seq(Byte \ {0})
         /\ m.type \in {SIMPLE_MESSAGE, COMPLETE_MESSAGE, INQUIRE_MESSAGE_REQUEST}
<1>1. /\ m.from \in Terminals /\ m.to \in Terminals /\ m.frame \in FrameIds
      /\ m.type \in {SIMPLE_MESSAGE, COMPLETE_MESSAGE, INQUIRE_MESSAGE_REQUEST}
      /\ m.retain \in Retains /\ m.text \in Texts
  BY DEF Messages
<1>2. m.type \in Byte
  BY <1>1 DEF SIMPLE_MESSAGE, COMPLETE_MESSAGE, INQUIRE_MESSAGE_REQUEST, Byte
<1> QED
  BY <1>1, <1>2, WireAssumption DEF WireAssumption, Words

LEMMA TerminalWords == \A id \in Terminals : id \in Words(4)
BY WireAssumption DEF WireAssumption, Words

\* The words and bytes the terminals and the server write themselves.
LEMMA FixedWords ==
  /\ ServerId \in Words(4) /\ <<0, 5>> \in Words(2) /\ <<0, 9>> \in Words(2)
  /\ RECEIPTE \in Byte /\ COMPLETE_MESSAGE \in Byte /\ 0 \in Byte /\ 80 \in Byte
  /\ \A type \in ReportTypes : type \in Byte
<1>1. ServerId \in Words(4)
  BY DEF ServerId, Words, Byte
<1>2. <<0, 5>> \in Words(2) /\ <<0, 9>> \in Words(2)
  BY DEF Words, Byte
<1> QED
  BY <1>1, <1>2 DEF RECEIPTE, COMPLETE_MESSAGE, ReportTypes, Login, Logout, MOBILE_MANAGER_REQUEST, Byte

----------------------------------------------------------------------------
(* What the handlers read of a request.                                    *)

\* A message: the head and the body as the sender wrote them.
LEMMA RequestedIsRead ==
  ASSUME NEW m \in Messages
  PROVE  LET head == ControlHead(Requested(m)) IN
           /\ head.from_id = m.from /\ head.to_id = m.to /\ head.frame_id = m.frame
           /\ head.type = m.type /\ head.retain = m.retain
           /\ CString(head.content) = m.text
<1> DEFINE s == Requested(m)
           body == m.text \o <<0>>
<1>1. /\ m.from \in Words(4) /\ m.to \in Words(4) /\ m.frame \in Words(2)
      /\ m.type \in Byte /\ m.retain \in Byte /\ m.text \in Seq(Byte \ {0})
  BY MessageWords
<1>2. body \in Seq(Byte) /\ CString(body) = m.text
  <2>1. <<>> \in Seq(Byte)
    OBVIOUS
  <2> QED
    BY <1>1, <2>1, BodyJoined, CStringOfBody
<1>3. s = Head12(m.from, m.to, m.frame, m.type, m.retain) \o body
  BY DEF Requested
<1> HIDE DEF s, body
<1>4. /\ SubSeq(s, 1, 4) = m.from /\ SubSeq(s, 5, 8) = m.to /\ SubSeq(s, 9, 10) = m.frame
      /\ s[11] = m.type /\ s[12] = m.retain /\ SubSeq(s, 13, Len(s)) = body
  <2>1. Holds(s, m.from, m.to, m.frame, m.type, m.retain, body)
    BY <1>1, <1>2, <1>3, HeadIsRead, Zenon
  <2> QED
    BY <2>1 DEF Holds
<1>5. LET head == ControlHead(s) IN
        /\ head.from_id = m.from /\ head.to_id = m.to /\ head.frame_id = m.frame
        /\ head.type = m.type /\ head.retain = m.retain
        /\ CString(head.content) = m.text
  BY <1>2, <1>4 DEF ControlHead
<1> QED
  BY <1>5 DEF s

\* A receipt: it comes from the message's recipient and names the message's frame.
LEMMA ReceiptedIsRead ==
  ASSUME NEW m \in Messages
  PROVE  LET head == ControlHead(Receipted(m))
             ack  == UserAckResponse(head.content) IN
           /\ head.from_id = m.to /\ head.to_id = m.from /\ head.type = RECEIPTE
           /\ ack.frame_id = m.frame /\ ack.receipt_type = COMPLETE_MESSAGE
<1> DEFINE s == Receipted(m)
           tail == <<COMPLETE_MESSAGE, 0>>
           body == m.frame \o tail
<1>1. m.from \in Words(4) /\ m.to \in Words(4) /\ m.frame \in Words(2)
  BY MessageWords
<1>2. tail \in Words(2) /\ tail[1] = COMPLETE_MESSAGE
  BY DEF Words, COMPLETE_MESSAGE, Byte
<1>3. s = Head12(m.to, m.from, <<0, 9>>, RECEIPTE, 0) \o body
  BY DEF Receipted
<1> HIDE DEF s, tail
<1>4. /\ body \in Words(2 + 2)
      /\ \A i \in 1 .. 2 : body[i] = m.frame[i]
      /\ \A i \in 1 .. 2 : body[2 + i] = tail[i]
  <2>1. 2 \in Nat
    OBVIOUS
  <2> QED
    BY <1>1, <1>2, <2>1, JoinedAt, Zenon
<1> HIDE DEF body
<1>5. body \in Seq(Byte) /\ Len(body) = 4 /\ body[3] = COMPLETE_MESSAGE
  BY <1>2, <1>4 DEF Words
<1>6. SubSeq(body, 1, 2) = m.frame
  <2>1. 0 \in Nat /\ 2 \in Nat /\ 0 + 2 <= Len(body) /\ 0 + 1 = 1 /\ 0 + 2 = 2
    BY <1>5
  <2>2. \A i \in 1 .. 2 : body[0 + i] = m.frame[i]
    BY <1>4
  <2>3. SubSeq(body, 0 + 1, 0 + 2) = m.frame
    BY <1>1, <1>5, <2>1, <2>2, SliceAt, Zenon
  <2> QED
    BY <2>1, <2>3, Zenon
<1>7. /\ SubSeq(s, 1, 4) = m.to /\ SubSeq(s, 5, 8) = m.from
      /\ s[11] = RECEIPTE /\ SubSeq(s, 13, Len(s)) = body
  <2>1. Holds(s, m.to, m.from, <<0, 9>>, RECEIPTE, 0, body)
    BY <1>1, <1>3, <1>5, FixedWords, HeadIsRead, Zenon
  <2> QED
    BY <2>1 DEF Holds
<1>8. LET head == ControlHead(s)
          ack  == UserAckResponse(head.content) IN
        /\ head.from_id = m.to /\ head.to_id = m.from /\ head.type = RECEIPTE
        /\ ack.frame_id = m.frame /\ ack.receipt_type = COMPLETE_MESSAGE
  BY <1>5, <1>6, <1>7 DEF ControlHead, UserAckResponse
<1> QED
  BY <1>8 DEF s

\* The lists of beams a terminal may report.
Beamlists ==
  {sates \in Seq([sate_id : Byte, beam_id : Byte, snr : Seq(Byte)]) :
     Len(sates) \in Byte /\ \A i \in DOMAIN sates : Len(sates[i].snr) = 4}

\* The bytes of a report: the number of beams is the nineteenth, and the six bytes of
\* beam i follow the 19 + 6 * (i - 1) bytes before them.
LEMMA ReportBytes ==
  ASSUME NEW sates \in Beamlists
  PROVE  LET body == ReportBody(sates) IN
           /\ body \in Seq(Byte) /\ Len(body) = 19 + 6 * Len(sates) /\ body[19] = Len(sates)
           /\ \A i \in 1 .. Len(sates) :
                /\ body[19 + 6 * (i - 1) + 1] = sates[i].sate_id
                /\ body[19 + 6 * (i - 1) + 2] = sates[i].beam_id
                /\ \A j \in 1 .. 4 : body[19 + 6 * (i - 1) + 2 + j] = sates[i].snr[j]
<1> DEFINE n == Len(sates)
           entry(i) == <<sates[i].sate_id, sates[i].beam_id>> \o sates[i].snr
           at(k) == ((k - 1) \div 6) + 1
           off(k) == ((k - 1) % 6) + 1
           list == [k \in 1 .. 6 * n |-> entry(at(k))[off(k)]]
           front == Position \o <<0, n>>
           body == front \o list
<1>1. n \in Nat /\ n \in Byte /\ DOMAIN sates = 1 .. n
  BY DEF Beamlists, Byte
<1>2. ASSUME NEW i \in 1 .. n
      PROVE  /\ entry(i) \in Words(2 + 4)
             /\ entry(i)[1] = sates[i].sate_id /\ entry(i)[2] = sates[i].beam_id
             /\ \A j \in 1 .. 4 : entry(i)[2 + j] = sates[i].snr[j]
  <2> DEFINE two == <<sates[i].sate_id, sates[i].beam_id>>
             snr == sates[i].snr
             s == two \o snr
  <2>1. sates[i] \in [sate_id : Byte, beam_id : Byte, snr : Seq(Byte)] /\ Len(snr) = 4
    <3> HIDE DEF entry, at, off, list, front, body
    <3> DEFINE R == [sate_id : Byte, beam_id : Byte, snr : Seq(Byte)]
    <3>1. sates \in Seq(R) /\ \A k \in DOMAIN sates : Len(sates[k].snr) = 4
      BY DEF Beamlists
    <3> HIDE DEF R
    <3>2. sates[i] \in R
      BY <3>1
    <3> QED
      BY <1>1, <3>1, <3>2, Zenon DEF R
  <2>2. snr \in Words(4)
    BY <2>1 DEF Words
  <2>3. two \in Words(2) /\ two[1] = sates[i].sate_id /\ two[2] = sates[i].beam_id
    BY <2>1 DEF Words
  <2>4. 2 \in Nat /\ 4 \in Nat /\ 1 \in 1 .. 2 /\ 2 \in 1 .. 2
    OBVIOUS
  <2> HIDE DEF two, snr
  <2>5. /\ s \in Words(2 + 4)
        /\ \A j \in 1 .. 2 : s[j] = two[j]
        /\ \A j \in 1 .. 4 : s[2 + j] = snr[j]
    BY <2>2, <2>3, <2>4, JoinedAt, Zenon
  <2>6. s = entry(i)
    BY DEF two, snr
  <2> HIDE DEF s, entry
  <2>7. /\ entry(i) \in Words(2 + 4)
        /\ entry(i)[1] = two[1] /\ entry(i)[2] = two[2]
        /\ \A j \in 1 .. 4 : entry(i)[2 + j] = snr[j]
    BY <2>4, <2>5, <2>6, Zenon
  <2> QED
    BY <2>3, <2>7, Zenon DEF snr
<1> HIDE DEF entry
<1>3. \A k \in 1 .. 6 * n : at(k) \in 1 .. n /\ off(k) \in 1 .. 6
  BY <1>1
<1>4. \A i \in 1 .. n, j \in 1 .. 6 :
        /\ 6 * (i - 1) + j \in 1 .. 6 * n
        /\ at(6 * (i - 1) + j) = i /\ off(6 * (i - 1) + j) = j
  BY <1>1
<1> HIDE DEF at, off
<1>5. list \in Words(6 * n)
  <2>1. ASSUME NEW k \in 1 .. 6 * n PROVE entry(at(k))[off(k)] \in Byte
    <3>1. at(k) \in 1 .. n /\ off(k) \in 1 .. 6
      BY <1>3
    <3>2. entry(at(k)) \in Words(2 + 4)
      BY <1>2, <3>1, Zenon
    <3>3. 2 + 4 = 6 /\ 6 \in Nat
      OBVIOUS
    <3> QED
      BY <3>1, <3>2, <3>3, WordAt, Zenon
  <2>2. 6 * n \in Nat
    BY <1>1
  <2>3. list \in Seq(Byte)
    BY <2>1, <2>2, IsASeq
  <2>4. Len(list) = 6 * n
    BY <2>2
  <2> QED
    BY <2>3, <2>4 DEF Words
<1>6. ASSUME NEW i \in 1 .. n, NEW j \in 1 .. 6 PROVE list[6 * (i - 1) + j] = entry(i)[j]
  <2>1. /\ 6 * (i - 1) + j \in 1 .. 6 * n
        /\ at(6 * (i - 1) + j) = i /\ off(6 * (i - 1) + j) = j
    BY <1>4
  <2> QED
    BY <2>1
<1> HIDE DEF list
<1>7. front \in Words(17 + 2) /\ front[17 + 2] = n
  <2> DEFINE two == <<0, n>>
  <2>1. Position \in Words(17)
    <3>1. Position = [i \in 1 .. 17 |-> 7]
      BY DEF Position, MOBILE_REQUEST_SIZE
    <3>2. 17 \in Nat /\ 7 \in Byte
      BY DEF Byte
    <3>3. Position \in Seq(Byte)
      BY <3>1, <3>2, IsASeq
    <3>4. Len(Position) = 17
      BY <3>1
    <3> QED
      BY <3>3, <3>4 DEF Words
  <2>2. two \in Words(2) /\ two[2] = n
    <3> HIDE DEF n
    <3>1. 0 \in Byte
      BY DEF Byte
    <3> QED
      BY <1>1, <3>1 DEF Words
  <2>3. 17 \in Nat /\ 2 \in Nat /\ 2 \in 1 .. 2
    OBVIOUS
  <2> HIDE DEF two, n
  <2>4. /\ Position \o two \in Words(17 + 2)
        /\ \A i \in 1 .. 2 : (Position \o two)[17 + i] = two[i]
    BY <2>1, <2>2, <2>3, JoinedAt, Zenon
  <2>5. (Position \o two)[17 + 2] = two[2]
    BY <2>3, <2>4, Zenon
  <2> QED
    BY <2>2, <2>4, <2>5, Zenon DEF two
<1> HIDE DEF front
<1>8. /\ body \in Words(19 + 6 * n)
      /\ \A i \in 1 .. 19 : body[i] = front[i]
      /\ \A i \in 1 .. 6 * n : body[19 + i] = list[i]
  <2>1. 19 \in Nat /\ 6 * n \in Nat /\ 17 + 2 = 19
    BY <1>1
  <2>2. front \in Words(19)
    BY <1>7, <2>1, Zenon
  <2> HIDE DEF n
  <2> QED
    BY <1>5, <2>1, <2>2, JoinedAt, Zenon
<1>9. body = ReportBody(sates)
  BY DEF body, front, list, entry, at, off, ReportBody
<1> HIDE DEF body
<1>10. body \in Seq(Byte) /\ Len(body) = 19 + 6 * n /\ body[19] = n
  <2>1. 17 + 2 = 19 /\ 19 \in 1 .. 19
    OBVIOUS
  <2>2. body[19] = front[19]
    BY <1>8, <2>1
  <2>3. body[19] = n
    BY <1>7, <2>1, <2>2, Zenon
  <2> QED
    BY <1>8, <2>3 DEF Words
<1>11. ASSUME NEW i \in 1 .. n, NEW j \in 1 .. 6 PROVE body[19 + 6 * (i - 1) + j] = entry(i)[j]
  <2>1. 6 * (i - 1) + j \in 1 .. 6 * n /\ 19 + 6 * (i - 1) + j = 19 + (6 * (i - 1) + j)
    BY <1>1, <1>4
  <2> QED
    BY <1>6, <1>8, <2>1
<1>12. ASSUME NEW i \in 1 .. n
       PROVE  /\ body[19 + 6 * (i - 1) + 1] = sates[i].sate_id
              /\ body[19 + 6 * (i - 1) + 2] = sates[i].beam_id
              /\ \A j \in 1 .. 4 : body[19 + 6 * (i - 1) + 2 + j] = sates[i].snr[j]
  <2>1. 1 \in 1 .. 6 /\ 2 \in 1 .. 6
    OBVIOUS
  <2>2. ASSUME NEW j \in 1 .. 4 PROVE body[19 + 6 * (i - 1) + 2 + j] = sates[i].snr[j]
    <3>1. 2 + j \in 1 .. 6 /\ 19 + 6 * (i - 1) + 2 + j = 19 + 6 * (i - 1) + (2 + j)
      BY <1>1
    <3>2. body[19 + 6 * (i - 1) + (2 + j)] = entry(i)[2 + j]
      BY <1>11, <3>1
    <3> QED
      BY <1>2, <3>1, <3>2
  <2> QED
    BY <1>2, <1>11, <2>1, <2>2
<1> QED
  BY <1>9, <1>10, <1>12

\* A list of beams is decoded to what was reported.
LEMMA ReportIsDecoded ==
  ASSUME NEW sates \in Beamlists
  PROVE  SateParams(ReportBody(sates)) = sates
<1> DEFINE body == ReportBody(sates)
           n == Len(sates)
           R == [sate_id : Byte, beam_id : Byte, snr : Seq(Byte)]
           read(i) == [sate_id |-> body[19 + 6 * (i - 1) + 1], beam_id |-> body[19 + 6 * (i - 1) + 2],
                       snr |-> SubSeq(body, 19 + 6 * (i - 1) + 3, 19 + 6 * (i - 1) + 6)]
<1>1. /\ body \in Seq(Byte) /\ Len(body) = 19 + 6 * n /\ body[19] = n
      /\ \A i \in 1 .. n :
           /\ body[19 + 6 * (i - 1) + 1] = sates[i].sate_id
           /\ body[19 + 6 * (i - 1) + 2] = sates[i].beam_id
           /\ \A j \in 1 .. 4 : body[19 + 6 * (i - 1) + 2 + j] = sates[i].snr[j]
  BY ReportBytes, Zenon
<1> HIDE DEF body, R
<1>2. sates \in Seq(R) /\ n \in Nat /\ \A i \in 1 .. n : Len(sates[i].snr) = 4
  <2>1. sates \in Seq(R) /\ \A i \in DOMAIN sates : Len(sates[i].snr) = 4
    BY Zenon DEF Beamlists, R
  <2>2. DOMAIN sates = 1 .. n /\ n \in Nat
    BY <2>1
  <2> QED
    BY <2>1, <2>2, Zenon
<1>3. SateParams(body) = [i \in 1 .. n |-> read(i)]
  <2>1. MOBILE_REQUEST_SIZE + 2 = 19
    BY DEF MOBILE_REQUEST_SIZE
  <2> HIDE DEF n
  <2> QED
    BY <1>1, <2>1, Zenon DEF SateParams
<1>4. ASSUME NEW i \in 1 .. n PROVE read(i) = sates[i]
  <2> DEFINE k == 19 + 6 * (i - 1) + 2
             snr == sates[i].snr
  <2>1. sates[i] \in R
    BY <1>2
  <2>2. sates[i] = [sate_id |-> sates[i].sate_id, beam_id |-> sates[i].beam_id, snr |-> snr]
    BY <2>1 DEF R
  <2>3. snr \in Words(4)
    BY <1>2, <2>1 DEF R, Words
  <2>4. k \in Nat /\ k + 4 <= Len(body)
    BY <1>1, <1>2
  <2>5. \A j \in 1 .. 4 : body[k + j] = snr[j]
    BY <1>1
  <2>6. k + 1 = 19 + 6 * (i - 1) + 3 /\ k + 4 = 19 + 6 * (i - 1) + 6 /\ 4 \in Nat
    BY <1>2
  <2> HIDE DEF k, snr, n
  <2>7. SubSeq(body, k + 1, k + 4) = snr
    BY <1>1, <2>3, <2>4, <2>5, <2>6, SliceAt, Zenon
  <2>8. SubSeq(body, 19 + 6 * (i - 1) + 3, 19 + 6 * (i - 1) + 6) = snr
    BY <2>6, <2>7, Zenon
  <2> QED
    BY <1>1, <2>2, <2>8, Zenon
<1>5. sates = [i \in 1 .. n |-> sates[i]]
  BY <1>2
<1> HIDE DEF read, n
<1>6. SateParams(body) = sates
  BY <1>3, <1>4, <1>5
<1> QED
  BY <1>6 DEF body

\* A report: who sent it, and the list it carries.
LEMMA ReportedIsRead ==
  ASSUME NEW id \in Terminals, NEW type \in ReportTypes,
         NEW sates \in Reports
  PROVE  LET head == ControlHead(Reported(id, type, sates)) IN
           /\ head.from_id = id /\ head.to_id = ServerId /\ head.frame_id = <<0, 5>>
           /\ head.type = type /\ head.retain = 0
           /\ head.content = ReportBody(sates) /\ SateParams(head.content) = sates
<1> DEFINE s == Reported(id, type, sates)
           body == ReportBody(sates)
<1>1. sates \in Beamlists
  BY WireAssumption DEF WireAssumption, Beamlists
<1>2. body \in Seq(Byte) /\ SateParams(body) = sates
  BY <1>1, ReportBytes, ReportIsDecoded, Zenon
<1>3. s = Head12(id, ServerId, <<0, 5>>, type, 0) \o body
  BY DEF Reported
<1> HIDE DEF s, body
<1>4. Holds(s, id, ServerId, <<0, 5>>, type, 0, body)
  BY <1>2, <1>3, FixedWords, TerminalWords, HeadIsRead, Zenon
<1>5. LET head == ControlHead(s) IN
        /\ head.from_id = id /\ head.to_id = ServerId /\ head.frame_id = <<0, 5>>
        /\ head.type = type /\ head.retain = 0
        /\ head.content = body /\ SateParams(head.content) = sates
  BY <1>2, <1>4 DEF Holds, ControlHead
<1> QED
  BY <1>5 DEF s, body

----------------------------------------------------------------------------
(* What the encoders write.                                                *)

\* The first encoder, on the head of a request.
LEMMA HeadEncoding ==
  ASSUME NEW m \in Messages
  PROVE  MessageEncodeHead(ControlHead(Requested(m))) = Encoded(m, m.retain).content
<1> DEFINE head == ControlHead(Requested(m))
           h == Head12(m.to, m.from, m.frame, m.type, m.retain)
<1>1. /\ head.from_id = m.from /\ head.to_id = m.to /\ head.frame_id = m.frame
      /\ head.type = m.type /\ head.retain = m.retain
      /\ CString(head.content) = m.text
  BY RequestedIsRead, Zenon
<1>2. h \in Seq(Byte) /\ m.text \in Seq(Byte \ {0})
  BY MessageWords, HeadBytes, Zenon
<1> HIDE DEF head
<1>3. MessageEncodeHead(head) = (h \o m.text) \o <<0>>
  BY <1>1, Zenon DEF MessageEncodeHead, Head12
<1>4. (h \o m.text) \o <<0>> = h \o (m.text \o <<0>>)
  BY <1>2, BodyJoined, Zenon
<1> QED
  BY <1>3, <1>4 DEF head, Encoded

\* The second, on the item made from a row: the identifiers and the frame number have
\* been to the database and back.
LEMMA ItemEncoding ==
  ASSUME NEW m \in Messages
  PROVE  /\ MessageEncodeItem(ItemOf(RowOf(m))) = Encoded(m, 0).content
         /\ ItemOf(RowOf(m)).to_id = ntohl(m.to)
<1> DEFINE item == ItemOf(RowOf(m))
           h == Head12(m.to, m.from, m.frame, m.type, 0)
<1>0. 2 \in Nat /\ 4 \in Nat /\ 0 \in Byte
  BY DEF Byte
<1>1. /\ m.from \in Words(4) /\ m.to \in Words(4) /\ m.frame \in Words(2)
      /\ m.type \in Byte /\ m.text \in Seq(Byte \ {0})
  BY MessageWords, Zenon
<1>2. /\ item.to_id = ntohl(m.to) /\ item.from_id = ntohl(m.from) /\ item.frame_id = ntohs(m.frame)
      /\ item.type = m.type /\ item.retain = 0 /\ item.content = m.text
  BY DEF ItemOf, RowOf, GetInt, SetInt
<1>3. /\ htonl(ntohl(m.to)) = m.to /\ htonl(ntohl(m.from)) = m.from
      /\ htons(ntohs(m.frame)) = m.frame
  BY <1>0, <1>1, Reversed, Zenon DEF htonl, ntohl, htons, ntohs
<1>4. h \in Seq(Byte)
  BY <1>0, <1>1, HeadBytes, Zenon
<1> HIDE DEF item
<1>5. MessageEncodeItem(item) = (h \o m.text) \o <<0>>
  BY <1>2, <1>3, Zenon DEF MessageEncodeItem, Head12
<1>6. (h \o m.text) \o <<0>> = h \o (m.text \o <<0>>)
  BY <1>1, <1>4, BodyJoined, Zenon
<1>7. Encoded(m, 0).content = h \o (m.text \o <<0>>)
  BY DEF Encoded
<1> QED
  BY <1>2, <1>5, <1>6, <1>7 DEF item

\* The encoder of responses, which all come from the server.
ResponseOf(a, id, x, y) ==
  [to_id |-> a, from_id |-> ServerId, frame_id |-> id, type |-> RECEIPTE, retain |-> 0,
   receipt_type |-> x, receipt_indicate |-> y]

LEMMA ResponseEncoding ==
  ASSUME NEW a \in Words(4), NEW id \in Words(2), NEW x \in Byte, NEW y \in Byte
  PROVE  ResponseEncode(ResponseOf(a, id, x, y)) = Head12(a, ServerId, id, RECEIPTE, 0) \o <<x, y, 0>>
<1> DEFINE r == ResponseOf(a, id, x, y)
           abi == a \o ServerId \o id
           two == <<RECEIPTE, 0>>
           three == <<x, y, 0>>
           five == <<RECEIPTE, 0, x, y, 0>>
<1>1. abi \in Seq(Byte)
  <2>1. a \in Seq(Byte) /\ ServerId \in Seq(Byte) /\ id \in Seq(Byte)
    BY FixedWords DEF Words
  <2>2. a \o ServerId \in Seq(Byte)
    BY <2>1, Joined
  <2> QED
    BY <2>1, <2>2, Joined
<1>2. two \in Seq(Byte)
  BY FixedWords
<1>3. three \in Seq(Byte)
  <2>1. 0 \in Byte
    BY DEF Byte
  <2> QED
    BY <2>1
<1>4. five = two \o three
  OBVIOUS
<1>5. ResponseEncode(r) = abi \o five
  BY DEF ResponseEncode, ResponseOf
<1>6. Head12(a, ServerId, id, RECEIPTE, 0) = abi \o two
  BY DEF Head12
<1> HIDE DEF abi, two, three, five
<1>7. (abi \o two) \o three = abi \o (two \o three)
  BY <1>1, <1>2, <1>3, ConcatAssociative
<1>8. ResponseEncode(r) = (abi \o two) \o three
  BY <1>4, <1>5, <1>7
<1> HIDE DEF r
<1>9. ResponseEncode(r) = Head12(a, ServerId, id, RECEIPTE, 0) \o <<x, y, 0>>
  BY <1>6, <1>8, Zenon DEF three
<1> QED
  BY <1>9, Zenon DEF r

----------------------------------------------------------------------------
(* What the terminals read and write.                                      *)

\* Either encoding of a message is read as that message.
LEMMA EncodedIsRead ==
  ASSUME NEW m \in Messages, NEW retain \in Byte
  PROVE  LET got == Reads(Encoded(m, retain).content) IN
           /\ got.to = m.to /\ got.from = m.from /\ got.frame = m.frame
           /\ got.type = m.type /\ got.retain = retain /\ got.text = m.text
<1> DEFINE s == Encoded(m, retain).content
           body == m.text \o <<0>>
<1>1. /\ m.from \in Words(4) /\ m.to \in Words(4) /\ m.frame \in Words(2)
      /\ m.type \in Byte /\ m.text \in Seq(Byte \ {0})
  BY MessageWords, Zenon
<1>2. body \in Seq(Byte) /\ CString(body) = m.text
  <2>1. <<>> \in Seq(Byte)
    OBVIOUS
  <2> QED
    BY <1>1, <2>1, BodyJoined, CStringOfBody
<1>3. s = Head12(m.to, m.from, m.frame, m.type, retain) \o body
  BY DEF Encoded
<1> HIDE DEF s, body
<1>4. Holds(s, m.to, m.from, m.frame, m.type, retain, body)
  BY <1>1, <1>2, <1>3, HeadIsRead, Zenon
<1>5. LET got == Reads(s) IN
        /\ got.to = m.to /\ got.from = m.from /\ got.frame = m.frame
        /\ got.type = m.type /\ got.retain = retain /\ got.text = m.text
  BY <1>2, <1>4 DEF Holds, Reads
<1> QED
  BY <1>5 DEF s

\* A receipt from the server, or its answer to a report.
LEMMA ResponseHolds ==
  ASSUME NEW a \in Words(4), NEW id \in Words(2), NEW x \in Byte, NEW y \in Byte
  PROVE  Holds(Head12(a, ServerId, id, RECEIPTE, 0) \o <<x, y, 0>>, a, ServerId, id, RECEIPTE, 0, <<x, y, 0>>)
<1> DEFINE body == <<x, y, 0>>
<1>1. body \in Seq(Byte)
  BY FixedWords
<1> HIDE DEF body
<1>2. Holds(Head12(a, ServerId, id, RECEIPTE, 0) \o body, a, ServerId, id, RECEIPTE, 0, body)
  BY <1>1, FixedWords, HeadIsRead, Zenon
<1> QED
  BY <1>2 DEF body

LEMMA ResponseBytes ==
  ASSUME NEW s, NEW a, NEW id, NEW x, NEW y,
         Holds(s, a, ServerId, id, RECEIPTE, 0, <<x, y, 0>>)
  PROVE  s[13] = x /\ s[14] = y
<1> DEFINE body == <<x, y, 0>>
<1>1. Len(body) = 3 /\ body[1] = x /\ body[2] = y
  OBVIOUS
<1> HIDE DEF body
<1>2. Holds(s, a, ServerId, id, RECEIPTE, 0, body)
  BY DEF body
<1>3. \A i \in 1 .. 3 : s[12 + i] = body[i]
  BY <1>1, <1>2, Zenon DEF Holds
<1>4. 13 = 12 + 1 /\ 14 = 12 + 2
  OBVIOUS
<1> QED
  BY <1>1, <1>3, <1>4

\* A request of a terminal that begins with from_id.
LEMMA RequestsWritten ==
  ASSUME FromFirst, NEW m \in Messages
  PROVE  /\ RequestHead(m.from, m.to, m.frame, m.type, m.retain) \o m.text \o <<0>> = Requested(m)
         /\ RequestHead(m.to, m.from, <<0, 9>>, RECEIPTE, 0) \o m.frame \o <<COMPLETE_MESSAGE, 0>>
              = Receipted(m)
<1> DEFINE h == Head12(m.from, m.to, m.frame, m.type, m.retain)
           g == Head12(m.to, m.from, <<0, 9>>, RECEIPTE, 0)
           tail == <<COMPLETE_MESSAGE, 0>>
<1>1. h = RequestHead(m.from, m.to, m.frame, m.type, m.retain)
  BY DEF RequestHead, Head12
<1>2. g = RequestHead(m.to, m.from, <<0, 9>>, RECEIPTE, 0)
  BY DEF RequestHead, Head12
<1>3. h \in Seq(Byte) /\ g \in Seq(Byte)
  BY MessageWords, FixedWords, HeadBytes, Zenon
<1>4. m.text \in Seq(Byte \ {0}) /\ m.frame \in Seq(Byte)
  BY MessageWords, Zenon DEF Words
<1>5. tail \in Seq(Byte)
  BY FixedWords
<1> HIDE DEF h, g, tail
<1>6. (h \o m.text) \o <<0>> = h \o (m.text \o <<0>>)
  BY <1>3, <1>4, BodyJoined, Zenon
<1>7. (g \o m.frame) \o tail = g \o (m.frame \o tail)
  <2>1. \A s, t, u \in Seq(Byte) : (s \o t) \o u = s \o (t \o u)
    BY ConcatAssociative
  <2> QED
    BY <1>3, <1>4, <1>5, <2>1, Zenon
<1> QED
  BY <1>1, <1>2, <1>6, <1>7, Zenon DEF h, g, tail, Requested, Receipted

----------------------------------------------------------------------------
(* Rows and keys.                                                          *)

\* The row of a message holds its key, and no other.
LEMMA RowKeys ==
  ASSUME NEW m \in Messages, NEW p \in Messages
  PROVE  /\ KeyOfRow(RowOf(m)) = KeyOf(m)
         /\ RowKey(RowOf(m)) = Key(ntohl(p.from), ntohl(p.to), ntohs(p.frame))
              <=> KeyOf(m) = KeyOf(p)
<1>0. 2 \in Nat /\ 4 \in Nat
  OBVIOUS
<1>1. ASSUME NEW q \in Messages
      PROVE  /\ Reverse(Reverse(q.from)) = q.from /\ Reverse(Reverse(q.to)) = q.to
             /\ Reverse(Reverse(q.frame)) = q.frame
  BY <1>0, MessageWords, Reversed, Zenon
<1>2. KeyOfRow(RowOf(m)) = KeyOf(m)
  BY <1>1 DEF KeyOfRow, RowOf, KeyOf, SetInt, htonl, ntohl, htons, ntohs
<1>3. RowKey(RowOf(m)) = Key(ntohl(m.from), ntohl(m.to), ntohs(m.frame))
  BY DEF RowKey, RowOf, Key
<1>4. ASSUME Key(ntohl(m.from), ntohl(m.to), ntohs(m.frame))
               = Key(ntohl(p.from), ntohl(p.to), ntohs(p.frame))
      PROVE  KeyOf(m) = KeyOf(p)
  <2>1. /\ SetInt(ntohl(m.from)) = SetInt(ntohl(p.from)) /\ SetInt(ntohl(m.to)) = SetInt(ntohl(p.to))
        /\ ntohs(m.frame) = ntohs(p.frame)
    BY <1>4 DEF Key
  <2>2. \A v, w : SetInt(v) = SetInt(w) => v = w
    <3> TAKE v, w
    <3> HAVE SetInt(v) = SetInt(w)
    <3>1. SetInt(v).bits = SetInt(w).bits
      OBVIOUS
    <3> QED
      BY <3>1 DEF SetInt
  <2>3. Reverse(m.from) = Reverse(p.from) /\ Reverse(m.to) = Reverse(p.to) /\ Reverse(m.frame) = Reverse(p.frame)
    BY <2>1, <2>2, Zenon DEF ntohl, ntohs
  <2>4. m.from = p.from /\ m.to = p.to /\ m.frame = p.frame
    BY <1>1, <2>3, Zenon
  <2> QED
    BY <2>4 DEF KeyOf
<1>5. ASSUME KeyOf(m) = KeyOf(p)
      PROVE  Key(ntohl(m.from), ntohl(m.to), ntohs(m.frame))
               = Key(ntohl(p.from), ntohl(p.to), ntohs(p.frame))
  BY <1>5 DEF KeyOf
<1> QED
  BY <1>2, <1>3, <1>4, <1>5, Zenon

----------------------------------------------------------------------------
(* The steps.                                                              *)

LEMMA FramesOf ==
  ASSUME NEW user_id, NEW content, NEW sates
  PROVE  Frames(user_id, content, sates) \subseteq {[uid |-> user_id, content |-> content]}
BY DEF Frames

\* The facts about requests and frames outlive the growth of what was sent and taken.
LEMMA Kept ==
  ASSUME submitted \subseteq submitted', accepted \subseteq accepted'
  PROVE  /\ \A request : RequestOK(request) => RequestOK(request)'
         /\ \A frame : FrameOK(frame) => FrameOK(frame)'
<1>1. Complete \subseteq Complete'
  BY DEF Complete
<1> QED
  BY <1>1 DEF RequestOK, FrameOK

\* A step that only takes a request away and adds frames of the three kinds.
LEMMA SendStep ==
  ASSUME WireInv, inbox' \subseteq inbox, UNCHANGED <<message_cache, backlog, submitted, accepted, settled>>,
         \A frame \in sent' \ sent : FrameOK(frame), AnnouncedInv'
  PROVE  WireInv'
<1>1. submitted' = submitted /\ accepted' = accepted /\ settled' = settled
      /\ message_cache' = message_cache
  OBVIOUS
<1>2. Complete' = Complete
  BY <1>1 DEF Complete
<1>3. /\ \A request : RequestOK(request) => RequestOK(request)'
      /\ \A frame : FrameOK(frame) => FrameOK(frame)'
  BY <1>1, Kept
<1>4. InboxInv'
  BY <1>3 DEF WireInv, InboxInv
<1>5. SentInv'
  BY <1>3 DEF WireInv, SentInv
<1>6. CacheInv'
  BY <1>1, <1>2 DEF WireInv, CacheInv
<1>7. CacheIsUnsettled'
  BY <1>1 DEF WireInv, CacheIsUnsettled
<1> QED
  BY <1>1, <1>4, <1>5, <1>6, <1>7 DEF WireInv

LEMMA SimpleStep ==
  ASSUME WireInv, NEW m \in submitted, m.type = SIMPLE_MESSAGE, inbox' \subseteq inbox,
         ProcessSimpleMessage(ControlHead(Requested(m)))
  PROVE  WireInv'
<1> DEFINE head == ControlHead(Requested(m))
<1>1. m \in Messages
  BY DEF WireInv
<1>2. head.to_id = m.to /\ MessageEncodeHead(head) = Encoded(m, m.retain).content
  BY <1>1, RequestedIsRead, HeadEncoding, Zenon
<1> HIDE DEF head
<1>3. sent' = sent \cup Frames(ntohl(m.to), Encoded(m, m.retain).content, GetSateCover(ntohl(m.to)))
  BY <1>2 DEF ProcessSimpleMessage, head
<1>4. \A frame \in sent' \ sent : frame = Encoded(m, m.retain)
  BY <1>3, FramesOf DEF Encoded
<1>5. \A frame \in sent' \ sent : FrameOK(frame)
  BY <1>4 DEF FrameOK
<1>6. UNCHANGED <<message_cache, backlog, submitted, accepted, settled, announced>>
  BY DEF ProcessSimpleMessage, db, hist
<1>7. AnnouncedInv'
  BY <1>6 DEF WireInv, AnnouncedInv, AnnouncedIsWaiting, KeysUsedOnce
<1> QED
  BY <1>5, <1>6, <1>7, SendStep

LEMMA CompleteStep ==
  ASSUME WireInv, NEW m \in submitted, m.type = COMPLETE_MESSAGE, inbox' \subseteq inbox,
         ProcessCompleteMessage(ControlHead(Requested(m)))
  PROVE  WireInv'
<1> DEFINE head == ControlHead(Requested(m))
<1>1. m \in Messages /\ m \in Complete
  BY DEF WireInv, Complete
<1>2. /\ head.from_id = m.from /\ head.to_id = m.to /\ head.frame_id = m.frame
      /\ head.type = m.type /\ CString(head.content) = m.text
  BY <1>1, RequestedIsRead, Zenon
<1>3. MessageEncodeHead(head) = Encoded(m, m.retain).content
  BY <1>1, HeadEncoding, Zenon
<1>4. ResponseEncode(Receipt(head)) = Confirmed(KeyOf(m)).content
  <2>1. m.from \in Words(4) /\ m.frame \in Words(2)
    BY <1>1, MessageWords, Zenon
  <2>2. htonl(ntohl(m.from)) = m.from
    <3>1. 4 \in Nat
      OBVIOUS
    <3> QED
      BY <2>1, <3>1, Reversed, Zenon DEF htonl, ntohl
  <2> HIDE DEF head
  <2>3. Receipt(head) = ResponseOf(m.from, m.frame, 80, 0)
    BY <1>2, <2>2, Zenon DEF Receipt, ResponseOf
  <2>4. ResponseEncode(Receipt(head)) = Head12(m.from, ServerId, m.frame, RECEIPTE, 0) \o <<80, 0, 0>>
    <3>1. \A x, y \in Byte : ResponseEncode(ResponseOf(m.from, m.frame, x, y))
                               = Head12(m.from, ServerId, m.frame, RECEIPTE, 0) \o <<x, y, 0>>
      BY <2>1, ResponseEncoding, Zenon
    <3>2. 80 \in Byte /\ 0 \in Byte
      BY DEF Byte
    <3> QED
      BY <2>3, <3>1, <3>2
  <2>5. Confirmed(KeyOf(m)).content = Head12(m.from, ServerId, m.frame, RECEIPTE, 0) \o <<80, 0, 0>>
    BY DEF Confirmed, KeyOf
  <2> QED
    BY <2>4, <2>5
<1>5. OfflineRow(head) = RowOf(m)
  <2> HIDE DEF head
  <2> QED
    BY <1>2, Zenon DEF OfflineRow, RowOf
<1> HIDE DEF head
<1>6. /\ message_cache' = message_cache \cup {RowOf(m)}
      /\ accepted' = accepted \cup {KeyOf(m)}
      /\ settled' = settled \ {KeyOf(m)}
      /\ sent' = sent \cup Frames(ntohl(m.from), Confirmed(KeyOf(m)).content, GetSateCover(ntohl(m.from)))
                      \cup Frames(ntohl(m.to), Encoded(m, m.retain).content, GetSateCover(ntohl(m.to)))
      /\ backlog' = backlog /\ submitted' = submitted /\ announced' = announced
  BY <1>2, <1>3, <1>4, <1>5 DEF ProcessCompleteMessage, head, KeyOf
<1>7. Complete' = Complete
  BY <1>6 DEF Complete
<1>8. /\ \A request : RequestOK(request) => RequestOK(request)'
      /\ \A frame : FrameOK(frame) => FrameOK(frame)'
  BY <1>6, Kept
<1>9. InboxInv'
  BY <1>8 DEF WireInv, InboxInv
<1>10. SentInv'
  <2>1. ASSUME NEW frame \in sent' PROVE \/ frame \in sent
                                         \/ frame = Encoded(m, m.retain)
                                         \/ frame = Confirmed(KeyOf(m))
    <3>1. \/ frame \in sent
          \/ frame = [uid |-> ntohl(m.from), content |-> Confirmed(KeyOf(m)).content]
          \/ frame = [uid |-> ntohl(m.to), content |-> Encoded(m, m.retain).content]
      BY <1>6, FramesOf, Zenon
    <3> QED
      BY <3>1 DEF Encoded, Confirmed, KeyOf
  <2>2. FrameOK(Encoded(m, m.retain))'
    BY <1>6 DEF FrameOK
  <2>3. FrameOK(Confirmed(KeyOf(m)))'
    BY <1>6 DEF FrameOK
  <2> QED
    BY <1>8, <2>1, <2>2, <2>3 DEF WireInv, SentInv
<1>11. CacheInv'
  <2>1. IsFiniteSet(message_cache')
    <3>1. IsFiniteSet(message_cache)
      BY DEF WireInv, CacheInv
    <3>2. IsFiniteSet(message_cache \cup {RowOf(m)})
      BY <3>1, FS_AddElement
    <3> QED
      BY <1>6, <3>2, Zenon
  <2>2. \A row \in message_cache' : \E p \in Complete' : row = RowOf(p)
    BY <1>1, <1>6, <1>7 DEF WireInv, CacheInv
  <2>3. accepted' \subseteq {KeyOf(p) : p \in Complete'}
    BY <1>1, <1>6, <1>7 DEF WireInv, CacheInv
  <2> QED
    BY <2>1, <2>2, <2>3 DEF CacheInv
<1>12. CacheIsUnsettled'
  <2>1. {KeyOfRow(row) : row \in message_cache} = accepted \ settled
    BY DEF WireInv, CacheIsUnsettled, KeyOfRow
  <2>2. KeyOfRow(RowOf(m)) = KeyOf(m)
    BY <1>1, RowKeys, Zenon
  <2>3. {KeyOfRow(row) : row \in message_cache'} = {KeyOfRow(row) : row \in message_cache} \cup {KeyOf(m)}
    BY <1>6, <2>2
  <2>4. accepted' \ settled' = (accepted \ settled) \cup {KeyOf(m)}
    BY <1>6
  <2> QED
    BY <2>1, <2>3, <2>4 DEF CacheIsUnsettled, KeyOfRow
<1>13. AnnouncedInv'
  BY <1>6 DEF WireInv, AnnouncedInv, AnnouncedIsWaiting, KeysUsedOnce
<1> QED
  BY <1>6, <1>9, <1>10, <1>11, <1>12, <1>13 DEF WireInv

LEMMA ReceiptStep ==
  ASSUME WireInv, NEW m \in Complete, inbox' \subseteq inbox,
         ProcessReceipt(ControlHead(Receipted(m)))
  PROVE  WireInv'
<1> DEFINE head == ControlHead(Receipted(m))
<1>1. m \in Messages
  BY DEF WireInv, Complete
<1>2. /\ head.from_id = m.to /\ head.to_id = m.from
      /\ UserAckResponse(head.content).frame_id = m.frame
      /\ UserAckResponse(head.content).receipt_type = COMPLETE_MESSAGE
  BY <1>1, ReceiptedIsRead, Zenon
<1> HIDE DEF head
<1>3. ReceiptKey(head) = Key(ntohl(m.from), ntohl(m.to), ntohs(m.frame))
  BY <1>2, Zenon DEF ReceiptKey
<1>4. ProcessReceipt(head)
  BY DEF head
<1>5. /\ message_cache' = {row \in message_cache : RowKey(row) # ReceiptKey(head)}
      /\ settled' = settled \cup {KeyOf(m)}
      /\ backlog' = backlog /\ sent' = sent /\ submitted' = submitted /\ accepted' = accepted
      /\ announced' = announced
  BY <1>2, <1>4 DEF ProcessReceipt, KeyOf
<1>6. Complete' = Complete
  BY <1>5 DEF Complete
<1>7. /\ \A request : RequestOK(request) => RequestOK(request)'
      /\ \A frame : FrameOK(frame) => FrameOK(frame)'
  BY <1>5, Kept
<1>8. InboxInv' /\ SentInv' /\ AnnouncedInv'
  BY <1>5, <1>7 DEF WireInv, InboxInv, SentInv, AnnouncedInv, AnnouncedIsWaiting, KeysUsedOnce
<1>9. CacheInv'
  <2>1. message_cache' \subseteq message_cache
    BY <1>5
  <2>2. IsFiniteSet(message_cache')
    <3>1. IsFiniteSet(message_cache)
      BY DEF WireInv, CacheInv
    <3> QED
      BY <2>1, <3>1, FS_Subset, Zenon
  <2> QED
    BY <1>5, <1>6, <2>1, <2>2 DEF WireInv, CacheInv
<1>10. CacheIsUnsettled'
  <2>1. {KeyOfRow(row) : row \in message_cache} = accepted \ settled
    BY DEF WireInv, CacheIsUnsettled, KeyOfRow
  <2>2. ASSUME NEW row \in message_cache
        PROVE  RowKey(row) = ReceiptKey(head) <=> KeyOfRow(row) = KeyOf(m)
    <3>1. PICK p \in Complete : row = RowOf(p)
      BY DEF WireInv, CacheInv
    <3>2. p \in Messages
      BY DEF WireInv, Complete
    <3> QED
      BY <1>1, <1>3, <3>1, <3>2, RowKeys, Zenon
  <2>3. {KeyOfRow(row) : row \in message_cache'} = {KeyOfRow(row) : row \in message_cache} \ {KeyOf(m)}
    BY <1>5, <2>2
  <2>4. accepted' \ settled' = (accepted \ settled) \ {KeyOf(m)}
    BY <1>5
  <2> QED
    BY <2>1, <2>3, <2>4 DEF CacheIsUnsettled, KeyOfRow
<1> QED
  BY <1>5, <1>8, <1>9, <1>10 DEF WireInv

\* The byte that tells the number of waiting messages.
LEMMA Indicated ==
  ASSUME NEW num \in Nat
  PROVE  Indicate(num) \in Byte /\ Indicate(num) = Told(num)
BY DEF Indicate, Told, Byte

LEMMA CountIsNumber ==
  ASSUME WireInv, NEW user_id
  PROVE  GetOfflineMessageNum(user_id) \in Nat
<1> DEFINE rows == {row \in message_cache : row.to_user = SetInt(user_id)}
<1>1. IsFiniteSet(message_cache) /\ backlog \in Nat
  BY DEF WireInv, CacheInv, AnnouncedInv
<1>2. IsFiniteSet(rows)
  <2>1. rows \in SUBSET message_cache
    OBVIOUS
  <2> QED
    BY <1>1, <2>1, FS_Subset, Zenon
<1> HIDE DEF rows
<1>3. Cardinality(rows) \in Nat
  BY <1>2, FS_CardinalityType
<1>4. Cardinality(rows) + backlog \in Nat
  BY <1>1, <1>3
<1> QED
  BY <1>4 DEF GetOfflineMessageNum, rows

\* The rows the COUNT finds are, one by one, the messages that wait for the terminal:
\* message_cache holds the unsettled keys, and no key has two rows.
LEMMA WaitingIsCounted ==
  ASSUME WireInv, KeysUsedOnce, NEW id \in Terminals
  PROVE  GetOfflineMessageNum(ntohl(id)) = Waiting(id)
<1> DEFINE rows == {row \in message_cache : row.to_user = SetInt(ntohl(id))}
           keys == {key \in accepted \ settled : key[2] = id}
           f == [row \in rows |-> KeyOfRow(row)]
           Of(row, m) == /\ row = RowOf(m) /\ KeyOfRow(row) = KeyOf(m)
                         /\ row.to_user = SetInt(ntohl(id)) <=> m.to = id
<1>1. ASSUME NEW row \in message_cache
      PROVE  \E m \in Complete : Of(row, m)
  <2>1. PICK m \in Complete : row = RowOf(m)
    BY DEF WireInv, CacheInv
  <2>2. m \in Messages
    BY DEF WireInv, Complete
  <2>3. KeyOfRow(row) = KeyOf(m)
    BY <2>1, <2>2, RowKeys, Zenon
  <2>4. row.to_user = SetInt(ntohl(m.to))
    BY <2>1 DEF RowOf
  <2>5. SetInt(ntohl(m.to)) = SetInt(ntohl(id)) => m.to = id
    <3>1. SetInt(ntohl(m.to)) = SetInt(ntohl(id)) => ntohl(m.to) = ntohl(id)
      <4> HAVE SetInt(ntohl(m.to)) = SetInt(ntohl(id))
      <4>1. SetInt(ntohl(m.to)).bits = SetInt(ntohl(id)).bits
        OBVIOUS
      <4> QED
        BY <4>1 DEF SetInt
    <3>2. 4 \in Nat /\ m.to \in Words(4) /\ id \in Words(4)
      BY <2>2, MessageWords, TerminalWords
    <3>3. Reverse(Reverse(m.to)) = m.to /\ Reverse(Reverse(id)) = id
      BY <3>2, Reversed, Zenon
    <3> QED
      BY <3>1, <3>3, Zenon DEF ntohl
  <2> QED
    BY <2>1, <2>2, <2>3, <2>4, <2>5, Zenon
<1> HIDE DEF Of
<1>2. {KeyOfRow(row) : row \in message_cache} = accepted \ settled
  BY DEF WireInv, CacheIsUnsettled, KeyOfRow
<1>3. \A m : KeyOf(m)[2] = m.to
  BY DEF KeyOf
<1>4. ASSUME NEW row \in rows PROVE KeyOfRow(row) \in keys
  <2>1. row \in message_cache /\ row.to_user = SetInt(ntohl(id))
    OBVIOUS
  <2>p. PICK m \in Complete : Of(row, m)
    BY <1>1, <2>1
  <2>2. KeyOfRow(row) = KeyOf(m) /\ m.to = id
    BY <2>1, <2>p DEF Of
  <2>3. KeyOfRow(row) \in accepted \ settled
    BY <1>2, <2>1
  <2>4. KeyOfRow(row)[2] = id
    BY <1>3, <2>2, Zenon
  <2> QED
    BY <2>3, <2>4
<1>5. ASSUME NEW key \in keys PROVE \E row \in rows : KeyOfRow(row) = key
  <2>1. key \in accepted \ settled /\ key[2] = id
    OBVIOUS
  <2>2. PICK row \in message_cache : key = KeyOfRow(row)
    BY <1>2, <2>1
  <2>3. PICK m \in Complete : Of(row, m)
    BY <1>1
  <2>4. m.to = id
    BY <1>3, <2>1, <2>2, <2>3 DEF Of
  <2> QED
    BY <2>2, <2>3, <2>4 DEF Of
<1>6. ASSUME NEW r1 \in rows, NEW r2 \in rows, KeyOfRow(r1) = KeyOfRow(r2)
      PROVE  r1 = r2
  <2>0. r1 \in message_cache /\ r2 \in message_cache
    OBVIOUS
  <2>1. PICK m \in Complete : Of(r1, m)
    BY <1>1, <2>0
  <2>2. PICK n \in Complete : Of(r2, n)
    BY <1>1, <2>0
  <2>3. KeyOf(m) = KeyOf(n)
    BY <1>6, <2>1, <2>2 DEF Of
  <2>4. m = n
    BY <2>3 DEF KeysUsedOnce, Complete, KeyOf
  <2> QED
    BY <2>1, <2>2, <2>4 DEF Of
<1>7. IsFiniteSet(rows)
  <2>1. rows \in SUBSET message_cache /\ IsFiniteSet(message_cache)
    BY DEF WireInv, CacheInv
  <2> QED
    BY <2>1, FS_Subset, Zenon
<1> HIDE DEF rows, keys
<1>8. f \in Bijection(rows, keys)
  <2>1. f \in [rows -> keys]
    BY <1>4
  <2>2. \A r1, r2 \in rows : f[r1] = f[r2] => r1 = r2
    BY <1>6
  <2>3. \A key \in keys : \E row \in rows : f[row] = key
    BY <1>5
  <2> HIDE DEF f
  <2> QED
    BY <2>1, <2>2, <2>3 DEF Bijection, Injection, Surjection, IsInjective
<1> HIDE DEF f
<1>9. ExistsBijection(rows, keys)
  BY <1>8 DEF ExistsBijection
<1>10. Cardinality(keys) = Cardinality(rows)
  BY <1>7, <1>9, FS_Bijection
<1> QED
  BY <1>10 DEF GetOfflineMessageNum, Waiting, rows, keys

\* The answer to a report, as its sender is given it.
LEMMA ReplyEncoding ==
  ASSUME NEW id \in Terminals, NEW type \in ReportTypes,
         NEW sates \in Reports, NEW x \in Byte, NEW y \in Byte
  PROVE  LET reply == ResponseEncode(MobileReply(ControlHead(Reported(id, type, sates)), x, y)) IN
           reply = Replied(id, x, y).content /\ reply[14] = y
<1> DEFINE head == ControlHead(Reported(id, type, sates))
           s == Head12(id, ServerId, <<0, 5>>, RECEIPTE, 0) \o <<x, y, 0>>
<1>1. head.from_id = id /\ head.to_id = ServerId /\ head.frame_id = <<0, 5>> /\ head.retain = 0
  BY ReportedIsRead
<1> HIDE DEF head
<1>2. MobileReply(head, x, y) = ResponseOf(id, <<0, 5>>, x, y)
  BY <1>1, Zenon DEF MobileReply, ResponseOf
<1>3. id \in Words(4) /\ <<0, 5>> \in Words(2)
  BY TerminalWords, FixedWords
<1>4. ResponseEncode(MobileReply(head, x, y)) = s
  BY <1>2, <1>3, ResponseEncoding, Zenon
<1>5. s[14] = y
  <2> HIDE DEF s
  <2>1. Holds(s, id, ServerId, <<0, 5>>, RECEIPTE, 0, <<x, y, 0>>)
    BY <1>3, ResponseHolds, Zenon DEF s
  <2> QED
    BY <2>1, ResponseBytes, Zenon
<1>6. Replied(id, x, y).content = s
  BY DEF Replied
<1> QED
  BY <1>4, <1>5, <1>6, Zenon DEF head

LEMMA ReportStep ==
  ASSUME WireInv, NEW id \in Terminals, NEW type \in ReportTypes,
         NEW sates \in Reports, inbox' \subseteq inbox,
         \/ ProcessLogin(ControlHead(Reported(id, type, sates)))
         \/ ProcessLogout(ControlHead(Reported(id, type, sates)))
         \/ ProcessMobileRequest(ControlHead(Reported(id, type, sates)))
  PROVE  WireInv'
<1> DEFINE head == ControlHead(Reported(id, type, sates))
           num(counted) == IF counted THEN GetOfflineMessageNum(ntohl(id)) ELSE 0
<1>1. /\ head.from_id = id /\ SateParams(head.content) = sates
  BY ReportedIsRead, Zenon
<1>2. ASSUME NEW x \in ReportTypes, NEW y \in Byte
      PROVE  /\ ResponseEncode(MobileReply(head, x, y)) = Replied(id, x, y).content
             /\ ResponseEncode(MobileReply(head, x, y))[14] = y
  <2>1. x \in Byte
    BY FixedWords, Zenon
  <2> QED
    BY <2>1, ReplyEncoding, Zenon
<1>3. \A counted \in BOOLEAN : num(counted) \in Nat
  BY CountIsNumber
<1>4. \A counted \in BOOLEAN : Indicate(num(counted)) \in Byte /\ 0 \in Byte
  BY <1>3, Indicated, FixedWords, Zenon
<1>5. /\ Login \in ReportTypes /\ Login = 0
      /\ Logout \in ReportTypes /\ Logout = 2
      /\ MOBILE_MANAGER_REQUEST \in ReportTypes
      /\ MOBILE_MANAGER_REQUEST = 3
  BY DEF ReportTypes, Login, Logout, MOBILE_MANAGER_REQUEST
<1>6. ProcessLogin(head) \/ ProcessLogout(head) \/ ProcessMobileRequest(head)
  OBVIOUS
<1> HIDE DEF head, num
<1>7. ASSUME NEW x \in ReportTypes, NEW y \in Byte, NEW S,
             sent' = sent \cup Frames(ntohl(id), Replied(id, x, y).content, S)
      PROVE  \A frame \in sent' \ sent : FrameOK(frame)
  <2>1. \A frame \in sent' \ sent : frame = Replied(id, x, y)
    BY <1>7, FramesOf DEF Replied
  <2> QED
    BY <2>1 DEF FrameOK
<1>8. CASE ProcessLogin(head)
  <2>1. CASE sates = <<>>
    <3>1. UNCHANGED <<db, sent, hist>>
      BY <1>1, <1>8, <2>1 DEF ProcessLogin
    <3>2. UNCHANGED <<message_cache, backlog, submitted, accepted, settled, announced, sent>>
      BY <3>1 DEF db, hist
    <3>3. AnnouncedInv'
      BY <3>2 DEF WireInv, AnnouncedInv, AnnouncedIsWaiting, KeysUsedOnce
    <3> QED
      BY <3>2, <3>3, SendStep
  <2>2. CASE sates # <<>>
    <3> DEFINE reply(counted) == ResponseEncode(MobileReply(head, 0, Indicate(num(counted))))
    <3>1. PICK counted \in BOOLEAN :
            /\ sent' = sent \cup Frames(ntohl(id), reply(counted), BeamsOf(sates))
            /\ announced' = announced \cup
                 {[byte |-> reply(counted)[14], waiting |-> Waiting(id), counted |-> counted]}
            /\ UNCHANGED <<message_cache, backlog, submitted, accepted, settled>>
      BY <1>1, <1>8, <2>2 DEF ProcessLogin, num
    <3> DEFINE byte == Indicate(num(counted))
    <3>b. byte \in Byte
      BY <1>4
    <3>2. reply(counted) = Replied(id, Login, byte).content /\ reply(counted)[14] = byte
      BY <1>2, <1>5, <3>b, Zenon
    <3>a. announced' = announced \cup {[byte |-> byte, waiting |-> Waiting(id), counted |-> counted]}
      BY <3>1, <3>2, Zenon
    <3>s. sent' = sent \cup Frames(ntohl(id), Replied(id, Login, byte).content, BeamsOf(sates))
      BY <3>1, <3>2, Zenon
    <3>c. ASSUME counted, KeysUsedOnce PROVE byte = Told(Waiting(id))
      <4>1. num(counted) = Waiting(id)
        BY <3>c, WaitingIsCounted DEF num
      <4> QED
        BY <1>3, <4>1, Indicated
    <3> HIDE DEF reply, byte
    <3>3. \A frame \in sent' \ sent : FrameOK(frame)
      BY <1>5, <1>7, <3>b, <3>s, Zenon
    <3>4. AnnouncedInv'
      <4>1. KeysUsedOnce' = KeysUsedOnce /\ backlog' = backlog
        BY <3>1 DEF KeysUsedOnce
      <4>2. backlog \in Nat /\ AnnouncedIsWaiting
        BY DEF WireInv, AnnouncedInv
      <4>3. ASSUME KeysUsedOnce, NEW told \in announced', told.counted
            PROVE  told.byte = Told(told.waiting)
        <5>1. CASE told \in announced
          BY <4>2, <4>3, <5>1 DEF AnnouncedIsWaiting
        <5>2. CASE told = [byte |-> byte, waiting |-> Waiting(id), counted |-> counted]
          <6>1. told.byte = byte /\ told.waiting = Waiting(id) /\ told.counted = counted
            BY <5>2
          <6> QED
            BY <3>c, <4>3, <6>1
        <5> QED
          BY <3>a, <5>1, <5>2
      <4>4. AnnouncedIsWaiting'
        BY <4>1, <4>3 DEF AnnouncedIsWaiting
      <4> QED
        BY <4>1, <4>2, <4>4 DEF AnnouncedInv
    <3> QED
      BY <3>1, <3>3, <3>4, SendStep
  <2> QED
    BY <2>1, <2>2
<1>9. CASE ProcessLogout(head)
  <2>1. /\ sent' = sent \cup Frames(ntohl(id), ResponseEncode(MobileReply(head, 2, 0)), GetSateCover(ntohl(id)))
        /\ UNCHANGED <<message_cache, backlog, submitted, accepted, settled, announced>>
    BY <1>1, <1>9 DEF ProcessLogout
  <2>2. ResponseEncode(MobileReply(head, 2, 0)) = Replied(id, Logout, 0).content
    BY <1>2, <1>4, <1>5, Zenon
  <2>3. \A frame \in sent' \ sent : FrameOK(frame)
    <3>1. sent' = sent \cup Frames(ntohl(id), Replied(id, Logout, 0).content, GetSateCover(ntohl(id)))
      BY <2>1, <2>2, Zenon
    <3> QED
      BY <1>4, <1>5, <1>7, <3>1, Zenon
  <2>4. AnnouncedInv'
    BY <2>1 DEF WireInv, AnnouncedInv, AnnouncedIsWaiting, KeysUsedOnce
  <2> QED
    BY <2>1, <2>3, <2>4, SendStep
<1>10. CASE ProcessMobileRequest(head)
  <2>1. CASE sates = <<>>
    <3>1. UNCHANGED <<db, sent, hist>>
      BY <1>1, <1>10, <2>1 DEF ProcessMobileRequest
    <3>2. UNCHANGED <<message_cache, backlog, submitted, accepted, settled, announced, sent>>
      BY <3>1 DEF db, hist
    <3>3. AnnouncedInv'
      BY <3>2 DEF WireInv, AnnouncedInv, AnnouncedIsWaiting, KeysUsedOnce
    <3> QED
      BY <3>2, <3>3, SendStep
  <2>2. CASE sates # <<>>
    <3>1. /\ sent' = sent \cup Frames(ntohl(id), ResponseEncode(MobileReply(head, 3, 0)), BeamsOf(sates))
          /\ UNCHANGED <<message_cache, backlog, submitted, accepted, settled, announced>>
      BY <1>1, <1>10, <2>2 DEF ProcessMobileRequest
    <3>2. ResponseEncode(MobileReply(head, 3, 0)) = Replied(id, MOBILE_MANAGER_REQUEST, 0).content
      BY <1>2, <1>4, <1>5, Zenon
    <3>3. \A frame \in sent' \ sent : FrameOK(frame)
      <4>1. sent' = sent \cup Frames(ntohl(id), Replied(id, MOBILE_MANAGER_REQUEST, 0).content, BeamsOf(sates))
        BY <3>1, <3>2, Zenon
      <4> QED
        BY <1>4, <1>5, <1>7, <4>1, Zenon
    <3>4. AnnouncedInv'
      BY <3>1 DEF WireInv, AnnouncedInv, AnnouncedIsWaiting, KeysUsedOnce
    <3> QED
      BY <3>1, <3>3, <3>4, SendStep
  <2> QED
    BY <2>1, <2>2
<1> QED
  BY <1>6, <1>8, <1>9, <1>10

LEMMA AccessStep ==
  ASSUME WireInv, NEW request \in inbox, AccessToLogic(request)
  PROVE  WireInv'
<1> DEFINE head == ControlHead(request)
<1>1. inbox' \subseteq inbox
  BY DEF AccessToLogic
<1>2. \/ head.type = Login                  /\ ProcessLogin(head)
      \/ head.type = Logout                 /\ ProcessLogout(head)
      \/ head.type = MOBILE_MANAGER_REQUEST /\ ProcessMobileRequest(head)
      \/ head.type = SIMPLE_MESSAGE         /\ ProcessSimpleMessage(head)
      \/ head.type = COMPLETE_MESSAGE       /\ ProcessCompleteMessage(head)
      \/ head.type = RECEIPTE               /\ ProcessReceipt(head)
      \/ UNCHANGED <<db, sent, hist>>
  BY DEF AccessToLogic
<1>3. RequestOK(request)
  BY DEF WireInv, InboxInv
<1>4. CASE UNCHANGED <<db, sent, hist>>
  <2>1. UNCHANGED <<message_cache, backlog, submitted, accepted, settled, announced, sent>>
    BY <1>4 DEF db, hist
  <2>2. AnnouncedInv'
    BY <2>1 DEF WireInv, AnnouncedInv, AnnouncedIsWaiting, KeysUsedOnce
  <2> QED
    BY <1>1, <2>1, <2>2, SendStep
<1> HIDE DEF head
<1>5. ASSUME NEW m \in submitted, request = Requested(m) PROVE WireInv'
  <2>1. m \in Messages
    BY DEF WireInv
  <2>2. head.type = m.type
    BY <1>5, <2>1, RequestedIsRead, Zenon DEF head
  <2>3. m.type \in {SIMPLE_MESSAGE, COMPLETE_MESSAGE, INQUIRE_MESSAGE_REQUEST}
    BY <2>1, MessageWords, Zenon
  <2>4. \/ m.type = SIMPLE_MESSAGE /\ ProcessSimpleMessage(head)
        \/ m.type = COMPLETE_MESSAGE /\ ProcessCompleteMessage(head)
        \/ UNCHANGED <<db, sent, hist>>
    BY <1>2, <2>2, <2>3 DEF SIMPLE_MESSAGE, COMPLETE_MESSAGE, INQUIRE_MESSAGE_REQUEST,
                           Login, Logout, MOBILE_MANAGER_REQUEST, RECEIPTE
  <2> QED
    BY <1>1, <1>4, <1>5, <2>4, SimpleStep, CompleteStep, Zenon DEF head
<1>6. ASSUME NEW m \in Complete, request = Receipted(m) PROVE WireInv'
  <2>1. m \in Messages
    BY DEF WireInv, Complete
  <2>2. head.type = RECEIPTE
    BY <1>6, <2>1, ReceiptedIsRead, Zenon DEF head
  <2>3. ProcessReceipt(head) \/ UNCHANGED <<db, sent, hist>>
    BY <1>2, <2>2 DEF SIMPLE_MESSAGE, COMPLETE_MESSAGE,
                      Login, Logout, MOBILE_MANAGER_REQUEST, RECEIPTE
  <2> QED
    BY <1>1, <1>4, <1>6, <2>3, ReceiptStep, Zenon DEF head
<1>7. ASSUME NEW id \in Terminals, NEW type \in ReportTypes, NEW sates \in Reports,
             request = Reported(id, type, sates)
      PROVE  WireInv'
  <2>1. head.type = type
    BY <1>7, ReportedIsRead, Zenon DEF head
  <2>2. \/ ProcessLogin(head) \/ ProcessLogout(head) \/ ProcessMobileRequest(head)
        \/ UNCHANGED <<db, sent, hist>>
    BY <1>2, <2>1 DEF ReportTypes, SIMPLE_MESSAGE, COMPLETE_MESSAGE,
                      Login, Logout, MOBILE_MANAGER_REQUEST, RECEIPTE
  <2> QED
    BY <1>1, <1>4, <1>7, <2>2, ReportStep, Zenon DEF head
<1> QED
  BY <1>3, <1>5, <1>6, <1>7, Zenon DEF RequestOK

LEMMA RetransmitStep ==
  ASSUME WireInv, NEW row \in message_cache, Retransmit(row)
  PROVE  WireInv'
<1>1. PICK m \in Complete : row = RowOf(m)
  BY DEF WireInv, CacheInv
<1>2. m \in Messages /\ m \in submitted /\ m.type = COMPLETE_MESSAGE
  BY DEF WireInv, Complete
<1>3. /\ MessageEncodeItem(ItemOf(row)) = Encoded(m, 0).content
      /\ ItemOf(row).to_id = ntohl(m.to)
  BY <1>1, <1>2, ItemEncoding, Zenon
<1>4. sent' = sent \cup Frames(ntohl(m.to), Encoded(m, 0).content, GetSateCover(ntohl(m.to)))
  BY <1>3 DEF Retransmit
<1>5. \A frame \in sent' \ sent : frame = Encoded(m, 0)
  BY <1>4, FramesOf DEF Encoded
<1>6. \A frame \in sent' \ sent : FrameOK(frame)
  BY <1>2, <1>5 DEF FrameOK
<1>7. UNCHANGED <<inbox, message_cache, backlog, submitted, accepted, settled, announced>>
  BY DEF Retransmit, db, hist
<1>8. AnnouncedInv'
  BY <1>7 DEF WireInv, AnnouncedInv, AnnouncedIsWaiting, KeysUsedOnce
<1> QED
  BY <1>6, <1>7, <1>8, SendStep

\* A step of a terminal: one more request, of one of the three kinds.
LEMMA RequestStep ==
  ASSUME WireInv, submitted \subseteq submitted', submitted' \subseteq Messages,
         UNCHANGED <<message_cache, backlog, sent, accepted, settled, announced>>,
         \A request \in inbox' \ inbox : RequestOK(request)'
  PROVE  WireInv'
<1>1. Complete \subseteq Complete'
  BY DEF Complete
<1>2. /\ \A request : RequestOK(request) => RequestOK(request)'
      /\ \A frame : FrameOK(frame) => FrameOK(frame)'
  BY Kept
<1>3. InboxInv'
  BY <1>2 DEF WireInv, InboxInv
<1>4. SentInv'
  BY <1>2 DEF WireInv, SentInv
<1>5. CacheInv'
  BY <1>1 DEF WireInv, CacheInv
<1>6. CacheIsUnsettled'
  BY DEF WireInv, CacheIsUnsettled
<1>7. AnnouncedInv'
  <2>1. KeysUsedOnce' => KeysUsedOnce
    BY DEF KeysUsedOnce
  <2> QED
    BY <2>1 DEF WireInv, AnnouncedInv, AnnouncedIsWaiting
<1> QED
  BY <1>3, <1>4, <1>5, <1>6, <1>7 DEF WireInv

LEMMA SubmitStep ==
  ASSUME FromFirst, WireInv, NEW m \in Messages, Submit(m)
  PROVE  WireInv'
<1>1. /\ submitted' = submitted \cup {m}
      /\ inbox' = inbox \cup {RequestHead(m.from, m.to, m.frame, m.type, m.retain) \o m.text \o <<0>>}
      /\ UNCHANGED <<message_cache, backlog, sent, accepted, settled, announced>>
  BY DEF Submit, db
<1>2. inbox' = inbox \cup {Requested(m)}
  BY <1>1, RequestsWritten, Zenon
<1>3. RequestOK(Requested(m))'
  BY <1>1 DEF RequestOK
<1>4. submitted' \subseteq Messages
  BY <1>1 DEF WireInv
<1>5. \A request \in inbox' \ inbox : RequestOK(request)'
  BY <1>2, <1>3, Zenon
<1> QED
  BY <1>1, <1>4, <1>5, RequestStep

LEMMA RepliedHolds ==
  ASSUME NEW id \in Terminals, NEW x \in ReportTypes, NEW y \in Byte
  PROVE  Holds(Replied(id, x, y).content, id, ServerId, <<0, 5>>, RECEIPTE, 0, <<x, y, 0>>)
<1>1. id \in Words(4) /\ <<0, 5>> \in Words(2) /\ x \in Byte
  BY TerminalWords, FixedWords, Zenon
<1>2. Replied(id, x, y).content = Head12(id, ServerId, <<0, 5>>, RECEIPTE, 0) \o <<x, y, 0>>
  BY DEF Replied
<1> QED
  BY <1>1, <1>2, ResponseHolds, Zenon

\* What a terminal takes for a message is an encoding of one.
LEMMA ReadAsComplete ==
  ASSUME WireInv, NEW frame \in sent,
         Reads(frame.content).type \in {SIMPLE_MESSAGE, COMPLETE_MESSAGE}
  PROVE  \E m \in submitted :
           /\ m.type \in {SIMPLE_MESSAGE, COMPLETE_MESSAGE}
           /\ frame = Encoded(m, m.retain) \/ frame = Encoded(m, 0)
<1>1. FrameOK(frame)
  BY DEF WireInv, SentInv
<1>2. ASSUME NEW key \in accepted, frame = Confirmed(key) PROVE FALSE
  <2>1. PICK m \in Complete : key = KeyOf(m)
    BY DEF WireInv, CacheInv
  <2>2. key[1] = m.from /\ key[3] = m.frame /\ m \in Messages
    BY <2>1 DEF KeyOf, WireInv, Complete
  <2>3. key[1] \in Words(4) /\ key[3] \in Words(2)
    BY <2>2, MessageWords, Zenon
  <2>4. 80 \in Byte /\ 0 \in Byte
    BY DEF Byte
  <2>5. \A x, y \in Byte : Holds(Head12(key[1], ServerId, key[3], RECEIPTE, 0) \o <<x, y, 0>>,
                                 key[1], ServerId, key[3], RECEIPTE, 0, <<x, y, 0>>)
    BY <2>3, ResponseHolds, Zenon
  <2>6. frame.content = Head12(key[1], ServerId, key[3], RECEIPTE, 0) \o <<80, 0, 0>>
    BY <1>2 DEF Confirmed
  <2>7. Holds(frame.content, key[1], ServerId, key[3], RECEIPTE, 0, <<80, 0, 0>>)
    BY <2>4, <2>5, <2>6
  <2>8. Reads(frame.content).type = RECEIPTE
    BY <2>7 DEF Holds, Reads
  <2> QED
    BY <2>8 DEF RECEIPTE, SIMPLE_MESSAGE, COMPLETE_MESSAGE
<1>3. ASSUME NEW id \in Terminals, NEW x \in ReportTypes, NEW y \in Byte,
             frame = Replied(id, x, y)
      PROVE  FALSE
  <2>3. Holds(frame.content, id, ServerId, <<0, 5>>, RECEIPTE, 0, <<x, y, 0>>)
    BY <1>3, RepliedHolds
  <2>4. Reads(frame.content).type = RECEIPTE
    BY <2>3 DEF Holds, Reads
  <2> QED
    BY <2>4 DEF RECEIPTE, SIMPLE_MESSAGE, COMPLETE_MESSAGE
<1> QED
  BY <1>1, <1>2, <1>3, Zenon DEF FrameOK

LEMMA AnswerStep ==
  ASSUME FromFirst, WireInv, NEW frame \in sent, Answer(frame)
  PROVE  WireInv'
<1> DEFINE got == Reads(frame.content)
<1>1. /\ got.type = COMPLETE_MESSAGE
      /\ inbox' = inbox \cup
           {RequestHead(got.to, got.from, <<0, 9>>, RECEIPTE, 0) \o got.frame \o <<COMPLETE_MESSAGE, 0>>}
      /\ UNCHANGED <<message_cache, backlog, sent, submitted, accepted, settled, announced>>
  BY DEF Answer, db, hist
<1>2. PICK m \in submitted : frame = Encoded(m, m.retain) \/ frame = Encoded(m, 0)
  BY <1>1, ReadAsComplete, Zenon
<1>3. m \in Messages /\ m.retain \in Byte /\ 0 \in Byte
  BY MessageWords, FixedWords DEF WireInv
<1>4. got.to = m.to /\ got.from = m.from /\ got.frame = m.frame /\ got.type = m.type
  <2>1. ASSUME NEW retain \in Byte, frame = Encoded(m, retain)
        PROVE  got.to = m.to /\ got.from = m.from /\ got.frame = m.frame /\ got.type = m.type
    BY <1>3, <2>1, EncodedIsRead
  <2> QED
    BY <1>2, <1>3, <2>1, Zenon
<1> HIDE DEF got
<1>5. inbox' = inbox \cup {Receipted(m)}
  <2>1. inbox' = inbox \cup
           {RequestHead(m.to, m.from, <<0, 9>>, RECEIPTE, 0) \o m.frame \o <<COMPLETE_MESSAGE, 0>>}
    BY <1>1, <1>4
  <2> QED
    BY <1>3, <2>1, RequestsWritten
<1>6. m \in Complete'
  BY <1>1, <1>4 DEF Complete
<1>7. RequestOK(Receipted(m))'
  BY <1>6 DEF RequestOK
<1>8. \A request \in inbox' \ inbox : RequestOK(request)'
  BY <1>5, <1>7, Zenon
<1>9. submitted' \subseteq Messages
  BY <1>1 DEF WireInv
<1> QED
  BY <1>1, <1>8, <1>9, RequestStep

LEMMA ReportSent ==
  ASSUME FromFirst, WireInv, NEW id \in Terminals, NEW type \in ReportTypes, NEW sates \in Reports,
         Report(id, type, sates)
  PROVE  WireInv'
<1>1. /\ inbox' = inbox \cup {RequestHead(id, ServerId, <<0, 5>>, type, 0) \o ReportBody(sates)}
      /\ UNCHANGED <<message_cache, backlog, sent, submitted, accepted, settled, announced>>
  BY DEF Report, db
<1>2. inbox' = inbox \cup {Reported(id, type, sates)}
  BY <1>1 DEF RequestHead, Reported, Head12
<1>3. RequestOK(Reported(id, type, sates))'
  BY DEF RequestOK
<1>4. \A request \in inbox' \ inbox : RequestOK(request)'
  BY <1>2, <1>3, Zenon
<1>5. submitted' \subseteq Messages
  BY <1>1 DEF WireInv
<1> QED
  BY <1>1, <1>4, <1>5, RequestStep

LEMMA WireInit ==
  ASSUME Init
  PROVE  WireInv
<1>1. /\ inbox = {} /\ message_cache = {} /\ backlog \in Backlogs /\ sent = {} /\ submitted = {}
      /\ accepted = {} /\ settled = {} /\ announced = {}
  BY DEF Init
<1>2. IsFiniteSet(message_cache)
  BY <1>1, FS_EmptySet
<1>3. AnnouncedInv
  BY <1>1, WireAssumption DEF WireAssumption, AnnouncedInv, AnnouncedIsWaiting
<1>4. CacheInv
  BY <1>1, <1>2 DEF CacheInv
<1>5. CacheIsUnsettled
  BY <1>1 DEF CacheIsUnsettled
<1>6. InboxInv /\ SentInv /\ submitted \subseteq Messages
  BY <1>1 DEF InboxInv, SentInv
<1> QED
  BY <1>3, <1>4, <1>5, <1>6 DEF WireInv

LEMMA WireNext ==
  ASSUME FromFirst, WireInv, [Next]_vars
  PROVE  WireInv'
<1>1. ASSUME NEW request \in inbox, AccessToLogic(request) PROVE WireInv'
  BY <1>1, AccessStep, Zenon
<1>2. ASSUME NEW row \in message_cache, Retransmit(row) PROVE WireInv'
  BY <1>2, RetransmitStep, Zenon
<1>3. ASSUME NEW message \in Messages, Submit(message) PROVE WireInv'
  BY <1>3, SubmitStep, Zenon
<1>4. ASSUME NEW frame \in sent, Answer(frame) PROVE WireInv'
  BY <1>4, AnswerStep, Zenon
<1>5. ASSUME NEW id \in Terminals, NEW type \in {Login, Logout, MOBILE_MANAGER_REQUEST},
             NEW sates \in Reports, Report(id, type, sates)
      PROVE  WireInv'
  <2>1. type \in ReportTypes
    BY DEF ReportTypes
  <2> QED
    BY <1>5, <2>1, ReportSent, Zenon
<1>6. CASE UNCHANGED vars
  <2>1. UNCHANGED <<inbox, message_cache, backlog, submitted, accepted, settled, announced, sent>>
    BY <1>6 DEF vars, db, hist
  <2>2. AnnouncedInv'
    BY <2>1 DEF WireInv, AnnouncedInv, AnnouncedIsWaiting, KeysUsedOnce
  <2> QED
    BY <2>1, <2>2, SendStep
<1> QED
  BY <1>1, <1>2, <1>3, <1>4, <1>5, <1>6, Zenon DEF Next

LEMMA WireInvariant ==
  ASSUME FromFirst
  PROVE  Spec => []WireInv
<1>1. Init => WireInv
  BY WireInit
<1>2. WireInv /\ [Next]_vars => WireInv'
  BY WireNext
<1> QED
  BY <1>1, <1>2, PTL DEF Spec

\* message_cache holds exactly the complete messages that were taken and not yet
\* settled, in the terminals' own terms, for identifiers of any bytes: the receipt a
\* terminal makes from either encoding finds the row ProcessCompleteMessage made.
THEOREM CacheHoldsTheUnsettled ==
  ASSUME FromFirst
  PROVE  Spec => []CacheIsUnsettled
<1>1. WireInv => CacheIsUnsettled
  BY DEF WireInv
<1> QED
  BY <1>1, WireInvariant, PTL

\* Every message frame either encoder makes is for the terminal it names, and carries
\* a message that was sent to it, whole.
THEOREM MessagesArriveAsSubmitted ==
  ASSUME FromFirst
  PROVE  Spec => []DeliveredAsSubmitted
<1>1. ASSUME WireInv PROVE DeliveredAsSubmitted
  <2> SUFFICES ASSUME NEW frame \in sent,
                      Reads(frame.content).type \in {SIMPLE_MESSAGE, COMPLETE_MESSAGE}
               PROVE  LET got == Reads(frame.content) IN
                        /\ frame.uid = ntohl(got.to)
                        /\ \E message \in submitted :
                             /\ message.from = got.from
                             /\ message.to = got.to
                             /\ message.frame = got.frame
                             /\ message.type = got.type
                             /\ message.text = got.text
                             /\ got.retain \in {message.retain, 0}
    BY Zenon DEF DeliveredAsSubmitted
  <2>1. PICK m \in submitted : frame = Encoded(m, m.retain) \/ frame = Encoded(m, 0)
    BY <1>1, ReadAsComplete, Zenon
  <2>2. m \in Messages
    BY <1>1 DEF WireInv
  <2>3. m.retain \in Byte /\ 0 \in Byte
    BY <2>2, MessageWords, FixedWords, Zenon
  <2>4. PICK retain \in {m.retain, 0} : frame = Encoded(m, retain)
    BY <2>1
  <2>5. retain \in Byte
    BY <2>3, <2>4
  <2> DEFINE got == Reads(frame.content)
  <2>6. /\ got.to = m.to /\ got.from = m.from /\ got.frame = m.frame
        /\ got.type = m.type /\ got.retain = retain /\ got.text = m.text
    BY <2>2, <2>4, <2>5, EncodedIsRead
  <2>7. frame.uid = ntohl(m.to)
    BY <2>4 DEF Encoded
  <2> HIDE DEF got
  <2>8. /\ frame.uid = ntohl(got.to)
        /\ \E message \in submitted :
             /\ message.from = got.from
             /\ message.to = got.to
             /\ message.frame = got.frame
             /\ message.type = got.type
             /\ message.text = got.text
             /\ got.retain \in {message.retain, 0}
    BY <2>4, <2>6, <2>7, Zenon
  <2> QED
    BY <2>8, Zenon DEF got
<1> QED
  BY <1>1, WireInvariant, PTL

\* The receipt ProcessCompleteMessage sends names a complete message of the terminal it
\* is for, under the frame number that terminal gave it.
THEOREM ReceiptsNameMessages ==
  ASSUME FromFirst
  PROVE  Spec => []ReceiptNamesMessage
<1>1. ASSUME WireInv PROVE ReceiptNamesMessage
  <2> SUFFICES ASSUME NEW frame \in sent,
                      Reads(frame.content).type = RECEIPTE, frame.content[13] = 80
               PROVE  LET got == Reads(frame.content) IN
                        /\ frame.uid = ntohl(got.to)
                        /\ \E key \in accepted : key[1] = got.to /\ key[3] = got.frame
    BY Zenon DEF ReceiptNamesMessage
  <2>1. FrameOK(frame)
    BY <1>1 DEF WireInv, SentInv
  <2>2. ASSUME NEW m \in submitted, NEW retain \in {m.retain, 0},
               m.type \in {SIMPLE_MESSAGE, COMPLETE_MESSAGE}, frame = Encoded(m, retain)
        PROVE  FALSE
    <3>1. m \in Messages
      BY <1>1 DEF WireInv
    <3>2. retain \in Byte
      BY <3>1, MessageWords, FixedWords
    <3>3. Reads(frame.content).type = m.type
      BY <2>2, <3>1, <3>2, EncodedIsRead
    <3> QED
      BY <2>2, <3>3 DEF RECEIPTE, SIMPLE_MESSAGE, COMPLETE_MESSAGE
  <2>3. ASSUME NEW id \in Terminals, NEW x \in ReportTypes, NEW y \in Byte,
               frame = Replied(id, x, y)
        PROVE  FALSE
    <3>3. Holds(frame.content, id, ServerId, <<0, 5>>, RECEIPTE, 0, <<x, y, 0>>)
      BY <2>3, RepliedHolds
    <3>4. frame.content[13] = x
      BY <3>3, ResponseBytes, Zenon
    <3> QED
      BY <3>4 DEF ReportTypes, Login, Logout, MOBILE_MANAGER_REQUEST
  <2>4. PICK key \in accepted : frame = Confirmed(key)
    BY <2>1, <2>2, <2>3, Zenon DEF FrameOK
  <2>5. PICK m \in Complete : key = KeyOf(m)
    BY <1>1 DEF WireInv, CacheInv
  <2>6. key[1] = m.from /\ key[3] = m.frame /\ m \in Messages
    BY <1>1, <2>5 DEF KeyOf, WireInv, Complete
  <2>7. key[1] \in Words(4) /\ key[3] \in Words(2)
    BY <2>6, MessageWords, Zenon
  <2>8. 80 \in Byte /\ 0 \in Byte
    BY DEF Byte
  <2>9. \A x, y \in Byte : Holds(Head12(key[1], ServerId, key[3], RECEIPTE, 0) \o <<x, y, 0>>,
                                 key[1], ServerId, key[3], RECEIPTE, 0, <<x, y, 0>>)
    BY <2>7, ResponseHolds, Zenon
  <2>10. frame.uid = ntohl(key[1])
         /\ frame.content = Head12(key[1], ServerId, key[3], RECEIPTE, 0) \o <<80, 0, 0>>
    BY <2>4 DEF Confirmed
  <2>11. Holds(frame.content, key[1], ServerId, key[3], RECEIPTE, 0, <<80, 0, 0>>)
    BY <2>8, <2>9, <2>10
  <2>12. Reads(frame.content).to = key[1] /\ Reads(frame.content).frame = key[3]
    BY <2>11 DEF Holds, Reads
  <2> QED
    BY <2>4, <2>10, <2>12, Zenon
<1> QED
  BY <1>1, WireInvariant, PTL

\* A terminal that logs in is told how many messages wait for it, up to 255, whatever
\* was submitted, taken, repeated and settled before: for all identifiers and backlogs the
\* rows the COUNT finds are the messages in custody for the terminal.  Frame numbers are
\* not reused, and the COUNT has not failed.
THEOREM WaitingIsAnnounced ==
  ASSUME FromFirst
  PROVE  Spec => []AnnouncedIsWaiting
<1>1. WireInv => AnnouncedIsWaiting
  BY DEF WireInv, AnnouncedInv
<1> QED
  BY <1>1, WireInvariant, PTL

----------------------------------------------------------------------------
(* Coverage.                                                               *)

\* Identifiers below 2^31 are the same number in a bound parameter and in the text of a
\* statement.
LowIds == \A id \in Terminals : id[1] < 128

\* A report names beams that have a column, each of them once.
BeamsOnce ==
  \A sates \in Reports : \A i \in DOMAIN sates :
    /\ sates[i].beam_id \in Beams
    /\ \A j \in DOMAIN sates : sates[j].beam_id = sates[i].beam_id => j = i

LEMMA SameNumber ==
  ASSUME LowIds, NEW id \in Terminals
  PROVE  SetInt(ntohl(id)) = to_string(ntohl(id))
<1> DEFINE w == ntohl(id)
<1>1. id \in Seq(Byte) /\ Len(id) = 4 /\ id[1] < 128
  BY WireAssumption DEF WireAssumption, LowIds
<1>2. w = [i \in 1 .. 4 |-> id[4 - i + 1]]
  BY <1>1 DEF ntohl, Reverse
<1>3. Len(w) = 4 /\ w[4] = id[1]
  BY <1>2
<1> HIDE DEF w
<1>4. id[1] \in Byte
  BY <1>1
<1>5. (w[Len(w)] >= 128) = FALSE
  <2>1. \A x \in Byte : x < 128 => (x >= 128) = FALSE
    BY DEF Byte
  <2>2. (id[1] >= 128) = FALSE
    BY <1>1, <1>4, <2>1, Zenon
  <2> QED
    BY <1>3, <2>2, Zenon
<1>6. SetInt(w) = to_string(w)
  BY <1>5 DEF SetInt, to_string
<1> QED
  BY <1>6 DEF w

LEMMA DistinctNumbers ==
  ASSUME NEW id \in Terminals, NEW other \in Terminals, to_string(ntohl(id)) = to_string(ntohl(other))
  PROVE  id = other
<1>1. to_string(ntohl(id)).bits = to_string(ntohl(other)).bits
  OBVIOUS
<1>2. Reverse(id) = Reverse(other)
  BY <1>1 DEF to_string, ntohl
<1>3. 4 \in Nat /\ id \in Words(4) /\ other \in Words(4)
  BY TerminalWords
<1>4. Reverse(Reverse(id)) = id /\ Reverse(Reverse(other)) = other
  BY <1>3, Reversed, Zenon
<1> QED
  BY <1>2, <1>4, Zenon

\* A statement that finds its row fills in all its columns.
LEMMA RowIsFilled ==
  ASSUME NEW user_id, to_string(user_id) \in DOMAIN sate_cover, NEW sates
  PROVE  UpdateSateCover(user_id, sates)
           = [sate_cover EXCEPT ![to_string(user_id)] = Columns(sates)]
BY DEF UpdateSateCover, Columns

\* What is stored for a terminal replaces what its row held, and no other row.
LEMMA StoreStep ==
  ASSUME CoverInv, NEW id \in Terminals, NEW body, NEW sates,
         sate_cover' = UpdateSateCover(ntohl(id), sates),
         known' = [known EXCEPT ![id] = body],
         \/ body = <<>> /\ sates = <<>>
         \/ sates \in Reports /\ body = ReportBody(sates)
  PROVE  CoverInv'
<1> DEFINE number(t) == to_string(ntohl(t))
           stored(t, k, c) == \/ k = NoReport
                              \/ k = <<>> /\ c = Columns(<<>>)
                              \/ \E s \in Reports : k = ReportBody(s) /\ c = Columns(s)
<1>1. /\ DOMAIN known = Terminals
      /\ DOMAIN sate_cover = {number(t) : t \in Terminals}
      /\ \A t \in Terminals : stored(t, known[t], sate_cover[number(t)])
  BY DEF CoverInv
<1>2. \A t \in Terminals : number(t) = number(id) => t = id
  BY DistinctNumbers
<1> HIDE DEF number
<1>3. number(id) \in DOMAIN sate_cover
  BY <1>1
<1>4. sate_cover' = [sate_cover EXCEPT ![number(id)] = Columns(sates)]
  BY <1>3, RowIsFilled DEF number
<1>5. DOMAIN known' = Terminals /\ DOMAIN sate_cover' = {number(t) : t \in Terminals}
  BY <1>1, <1>4
<1>6. ASSUME NEW t \in Terminals PROVE stored(t, known'[t], sate_cover'[number(t)])
  <2>1. CASE t = id
    <3>1. known'[t] = body /\ sate_cover'[number(t)] = Columns(sates)
      BY <1>1, <1>3, <1>4, <2>1
    <3> QED
      BY <3>1
  <2>2. CASE t # id
    <3>1. number(t) # number(id)
      BY <1>2, <2>2
    <3>2. number(t) \in DOMAIN sate_cover
      BY <1>1
    <3>3. known'[t] = known[t] /\ sate_cover'[number(t)] = sate_cover[number(t)]
      BY <1>1, <1>4, <2>2, <3>1, <3>2
    <3> QED
      BY <1>1, <3>3
  <2> QED
    BY <2>1, <2>2
<1> QED
  BY <1>5, <1>6 DEF CoverInv, number

LEMMA CoverInit ==
  ASSUME LowIds, Init
  PROVE  CoverInv
<1> DEFINE C == [id \in Terminals |-> SetInt(ntohl(id))]
           D == [id \in Terminals |-> to_string(ntohl(id))]
<1>1. PICK Column \in {C, D} :
        sate_cover = [number \in {Column[id] : id \in Terminals} |->
                        [b \in Beams |-> IF b = 1 THEN <<0, 0, 32, 65>> ELSE NoSnr]]
  BY DEF Init
<1>2. \A id \in Terminals : Column[id] = to_string(ntohl(id))
  BY <1>1, SameNumber
<1>3. DOMAIN sate_cover = {Column[id] : id \in Terminals}
  BY <1>1
<1>4. DOMAIN sate_cover = {to_string(ntohl(id)) : id \in Terminals}
  BY <1>2, <1>3
<1>5. known = [id \in Terminals |-> NoReport]
  BY DEF Init
<1> QED
  BY <1>4, <1>5 DEF CoverInv

LEMMA CoverNext ==
  ASSUME WireInv, CoverInv, [Next]_vars
  PROVE  CoverInv'
<1>0. ASSUME UNCHANGED <<sate_cover, known>> PROVE CoverInv'
  BY <1>0 DEF CoverInv
<1>1. ASSUME NEW request \in inbox, AccessToLogic(request) PROVE CoverInv'
  <2> DEFINE head == ControlHead(request)
  <2>1. \/ head.type = Login                  /\ ProcessLogin(head)
        \/ head.type = Logout                 /\ ProcessLogout(head)
        \/ head.type = MOBILE_MANAGER_REQUEST /\ ProcessMobileRequest(head)
        \/ UNCHANGED <<sate_cover, known>>
    BY <1>1 DEF AccessToLogic, ProcessSimpleMessage, ProcessCompleteMessage, ProcessReceipt, db, hist
  <2>2. RequestOK(request)
    BY DEF WireInv, InboxInv
  <2> HIDE DEF head
  <2>3. ASSUME NEW m \in submitted, request = Requested(m) PROVE UNCHANGED <<sate_cover, known>>
    <3>1. m \in Messages
      BY DEF WireInv
    <3>2. head.type = m.type
      BY <2>3, <3>1, RequestedIsRead, Zenon DEF head
    <3>3. m.type \in {SIMPLE_MESSAGE, COMPLETE_MESSAGE, INQUIRE_MESSAGE_REQUEST}
      BY <3>1, MessageWords, Zenon
    <3> QED
      BY <2>1, <3>2, <3>3 DEF SIMPLE_MESSAGE, COMPLETE_MESSAGE, INQUIRE_MESSAGE_REQUEST,
                              Login, Logout, MOBILE_MANAGER_REQUEST
  <2>4. ASSUME NEW m \in Complete, request = Receipted(m) PROVE UNCHANGED <<sate_cover, known>>
    <3>1. m \in Messages
      BY DEF WireInv, Complete
    <3>2. head.type = RECEIPTE
      BY <2>4, <3>1, ReceiptedIsRead, Zenon DEF head
    <3> QED
      BY <2>1, <3>2 DEF RECEIPTE, Login, Logout, MOBILE_MANAGER_REQUEST
  <2>5. ASSUME NEW id \in Terminals, NEW type \in ReportTypes, NEW sates \in Reports,
               request = Reported(id, type, sates)
        PROVE  CoverInv'
    <3>1. head.from_id = id /\ head.content = ReportBody(sates) /\ SateParams(head.content) = sates
      BY <2>5, ReportedIsRead, Zenon DEF head
    <3>2. \/ /\ sate_cover' = UpdateSateCover(ntohl(id), sates)
             /\ known' = [known EXCEPT ![id] = ReportBody(sates)]
          \/ /\ sate_cover' = UpdateSateCover(ntohl(id), <<>>)
             /\ known' = [known EXCEPT ![id] = <<>>]
          \/ UNCHANGED <<sate_cover, known>>
      <4>1. CASE ProcessLogin(head)
        BY <3>1, <4>1 DEF ProcessLogin, db, hist
      <4>2. CASE ProcessLogout(head)
        BY <3>1, <4>2 DEF ProcessLogout
      <4>3. CASE ProcessMobileRequest(head)
        BY <3>1, <4>3 DEF ProcessMobileRequest, db, hist
      <4> QED
        BY <2>1, <4>1, <4>2, <4>3
    <3> QED
      BY <1>0, <3>2, StoreStep, Zenon
  <2> QED
    BY <1>0, <2>2, <2>3, <2>4, <2>5, Zenon DEF RequestOK
<1>2. ASSUME NEW row \in message_cache, Retransmit(row) PROVE UNCHANGED <<sate_cover, known>>
  BY <1>2 DEF Retransmit, db, hist
<1>3. ASSUME NEW message \in Messages, Submit(message) PROVE UNCHANGED <<sate_cover, known>>
  BY <1>3 DEF Submit, db
<1>4. ASSUME NEW frame \in sent, Answer(frame) PROVE UNCHANGED <<sate_cover, known>>
  BY <1>4 DEF Answer, db, hist
<1>5. ASSUME NEW id \in Terminals, NEW type \in {Login, Logout, MOBILE_MANAGER_REQUEST},
             NEW sates \in Reports, Report(id, type, sates)
      PROVE  UNCHANGED <<sate_cover, known>>
  BY <1>5 DEF Report, db
<1>6. CASE UNCHANGED vars
  BY <1>0, <1>6 DEF vars, db, hist
<1> QED
  BY <1>0, <1>1, <1>2, <1>3, <1>4, <1>5, <1>6, Zenon DEF Next

\* The columns a report fills in give back its beams.
LEMMA ColumnsAreRead ==
  ASSUME BeamsOnce, NEW sates \in Reports
  PROVE  {b \in Beams : Positive(Columns(sates)[b])} = Heard(sates)
<1> DEFINE heard(b) == {i \in DOMAIN sates : sates[i].beam_id = b}
           last(b)  == CHOOSE i \in heard(b) : \A j \in heard(b) : j <= i
<1>1. Columns(sates) = [b \in Beams |-> IF heard(b) = {} THEN NoSnr ELSE PrintSnr(sates[last(b)].snr)]
  BY DEF Columns
<1>2. ~Positive(NoSnr)
  BY DEF Positive, NoSnr
<1>3. \A i \in DOMAIN sates : i \in Int
  BY WireAssumption DEF WireAssumption
<1>4. ASSUME NEW i \in DOMAIN sates
      PROVE  /\ sates[i].beam_id \in Beams
             /\ Columns(sates)[sates[i].beam_id] = PrintSnr(sates[i].snr)
  <2> DEFINE b == sates[i].beam_id
  <2>1. b \in Beams /\ heard(b) = {i}
    BY DEF BeamsOnce
  <2>2. last(b) = i
    BY <1>3, <2>1
  <2> HIDE DEF b, heard, last
  <2>3. Columns(sates)[b] = PrintSnr(sates[i].snr)
    BY <1>1, <2>1, <2>2
  <2> QED
    BY <2>1, <2>3 DEF b
<1>5. ASSUME NEW b \in Beams, heard(b) = {} PROVE ~Positive(Columns(sates)[b])
  BY <1>1, <1>2, <1>5
<1>6. ASSUME NEW b \in Beams, Positive(Columns(sates)[b]) PROVE b \in Heard(sates)
  <2>1. PICK i \in DOMAIN sates : sates[i].beam_id = b
    BY <1>5, <1>6
  <2>2. Positive(PrintSnr(sates[i].snr))
    BY <1>4, <1>6, <2>1
  <2> QED
    BY <2>1, <2>2 DEF Heard
<1>7. ASSUME NEW b \in Heard(sates) PROVE b \in Beams /\ Positive(Columns(sates)[b])
  <2>1. PICK i \in DOMAIN sates : sates[i].beam_id = b /\ Positive(PrintSnr(sates[i].snr))
    BY DEF Heard
  <2> QED
    BY <1>4, <2>1
<1> QED
  BY <1>6, <1>7

\* A report that was stored is what messages are routed by: with identifiers below
\* 2^31 and reports that name each of the ten beams at most once, UpdateSateCover and
\* GetSateCover name the same row and the same columns.
THEOREM ReportsAreReadBack ==
  ASSUME FromFirst, LowIds, BeamsOnce
  PROVE  Spec => []ReportIsReadBack
<1>1. Init => CoverInv
  BY CoverInit
<1>2. WireInv /\ CoverInv /\ [Next]_vars => CoverInv'
  BY CoverNext
<1>3. ASSUME CoverInv PROVE ReportIsReadBack
  <2> SUFFICES ASSUME NEW id \in Terminals
               PROVE  /\ known[id] = <<>> => GetSateCover(ntohl(id)) = {}
                      /\ \A sates \in Reports :
                           known[id] = ReportBody(sates) => GetSateCover(ntohl(id)) = Heard(sates)
    BY Zenon DEF ReportIsReadBack
  <2> DEFINE columns == sate_cover[to_string(ntohl(id))]
  <2>1. \/ known[id] = NoReport
        \/ known[id] = <<>> /\ columns = Columns(<<>>)
        \/ \E sates \in Reports : known[id] = ReportBody(sates) /\ columns = Columns(sates)
    BY <1>3 DEF CoverInv
  <2>2. GetSateCover(ntohl(id)) = {b \in Beams : Positive(columns[b])}
    <3>1. SetInt(ntohl(id)) = to_string(ntohl(id))
      BY SameNumber, Zenon
    <3>2. to_string(ntohl(id)) \in DOMAIN sate_cover
      BY <1>3 DEF CoverInv
    <3> QED
      BY <3>1, <3>2 DEF GetSateCover
  <2> HIDE DEF columns
  <2>3. \A sates \in Reports : sates \in Beamlists
    BY WireAssumption DEF WireAssumption, Beamlists
  <2>4. ASSUME NEW sates \in Reports
        PROVE  ReportBody(sates) # <<>> /\ ReportBody(sates) # NoReport
    <3> DEFINE body == ReportBody(sates)
    <3>1. sates \in Beamlists
      BY <2>3
    <3>2. Len(body) = 19 + 6 * Len(sates)
      BY <3>1, ReportBytes, Zenon
    <3>3. Len(sates) \in Nat
      BY <3>1 DEF Beamlists
    <3> HIDE DEF body
    <3>4. body # <<>>
      BY <3>2, <3>3
    <3>5. body # NoReport
      <4>1. Len(NoReport) = 1
        BY DEF NoReport
      <4>2. Len(body) # 1
        BY <3>2, <3>3
      <4> QED
        BY <4>1, <4>2, Zenon
    <3> QED
      BY <3>4, <3>5 DEF body
  <2>5. NoReport # <<>>
    BY DEF NoReport
  <2>6. ASSUME known[id] = <<>> PROVE GetSateCover(ntohl(id)) = {}
    <3>1. columns = Columns(<<>>)
      BY <2>1, <2>4, <2>5, <2>6
    <3>2. \A b \in Beams : Columns(<<>>)[b] = NoSnr
      BY DEF Columns
    <3>3. ~Positive(NoSnr)
      BY DEF Positive, NoSnr
    <3> QED
      BY <2>2, <3>1, <3>2, <3>3
  <2>7. ASSUME NEW sates \in Reports, known[id] = ReportBody(sates)
        PROVE  GetSateCover(ntohl(id)) = Heard(sates)
    <3>1. PICK s \in Reports : ReportBody(s) = ReportBody(sates) /\ columns = Columns(s)
      BY <2>1, <2>4, <2>7
    <3>2. s = sates
      <4>1. SateParams(ReportBody(s)) = s /\ SateParams(ReportBody(sates)) = sates
        BY <2>3, ReportIsDecoded, Zenon
      <4> QED
        BY <3>1, <4>1, Zenon
    <3> QED
      BY <2>2, <3>1, <3>2, ColumnsAreRead
  <2> QED
    BY <2>6, <2>7
<1> QED
  BY <1>1, <1>2, <1>3, WireInvariant, PTL DEF Spec
============================================================================
