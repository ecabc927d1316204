-------------------------- MODULE ShortMessageProofs --------------------------
(***************************************************************************)
(* The logic server, for every set of users, workers and messages and      *)
(* every value of the parameters: its types; the custody of messages, that *)
(* is, what a sender was told, what went out, what was archived and what   *)
(* was deleted; and the custody service it implements.  The argument for   *)
(* custody: a step never gives up a message that is held (StepKeeps), so a *)
(* worker or the daemon that saw a message in the table may act on it much *)
(* later.                                                                  *)
(***************************************************************************)
EXTENDS ShortMessage, FiniteSetTheorems, SequenceTheorems, TLAPS

-----------------------------------------------------------------------------
(* The operators of Database and SendHelper.                               *)

\* GetSateCover returns a list of beams, whatever the user.
LEMMA CoverType ==
  ASSUME NEW user_id, TablesOK
  PROVE  IsSates(GetSateCover(sate_cover, user_id))
<1> DEFINE heard == {x \in Beams : user_id \in CoverRows /\ sate_cover[user_id][x] > 0}
           param(b) == [sate_id |-> (b + 1) \div 2, beam_id |-> b,
                        snr |-> Truncate(sate_cover[user_id][b])]
<1>1. heard \subseteq Nat
  BY ProtocolAssumption DEF Beams
<1>2. ASSUME NEW b \in heard PROVE param(b) \in SateParam
  <2>1. b \in Int /\ sate_cover[user_id][b] \in Int
    BY DatabaseAssumption, <1>1 DEF TablesOK
  <2> DEFINE snr == sate_cover[user_id][b]
  <2>2. (b + 1) \div 2 \in Int
    BY <2>1
  <2>3. Truncate(snr) \in Int
    BY <2>1 DEF Truncate
  <2> QED BY <2>1, <2>2, <2>3 DEF SateParam
<1>3. GetSateCover(sate_cover, user_id) = [b \in heard |-> param(b)]
  BY DEF GetSateCover
<1> HIDE DEF heard, param
<1> QED
  BY <1>1, <1>2, <1>3 DEF IsSates

\* The empty list and a reported list are lists of beams.
LEMMA SequenceIsSates ==
  /\ IsSates(<<>>)
  /\ \A s \in Seq(SateParam) : IsSates(s)
<1>1. IsSates(<<>>)
  BY DEF IsSates
<1>2. ASSUME NEW s \in Seq(SateParam) PROVE IsSates(s)
  <2>1. s \in [1 .. Len(s) -> SateParam] /\ Len(s) \in Nat
    BY LenProperties
  <2> QED BY <2>1 DEF IsSates
<1> QED BY <1>1, <1>2

\* A frame handed to an access server has the fields of its beam and its content.
LEMMA FramesType ==
  ASSUME NEW user_id \in Parties, NEW content \in Content, NEW sates, IsSates(sates),
         NEW level \in Nat
  PROVE  Frames(user_id, content, sates, level) \subseteq AccessMessage
<1> QED BY DEF Frames, IsSates, SateParam, AccessMessage

\* A coverage report turns into a row of SNR values.
LEMMA UpdateCoverType ==
  ASSUME NEW user_id, NEW sates, IsSates(sates), TablesOK
  PROVE  UpdateSateCover(sate_cover, user_id, sates) \in [Users -> [Beams -> Int]]
<1>1. \A i \in DOMAIN sates : sates[i].snr \in Int
  BY DEF IsSates, SateParam
<1>2. TempSnr(sates) \in [Beams -> Int]
  <2> SUFFICES ASSUME NEW b \in Beams PROVE TempSnr(sates)[b] \in Int
    BY DEF TempSnr
  <2> DEFINE last == {i \in DOMAIN sates :
                        /\ sates[i].beam_id = b
                        /\ \A j \in DOMAIN sates : j > i => sates[j].beam_id # b}
  <2>1. CASE last = {}
    BY <2>1 DEF TempSnr, NO_SNR
  <2>2. CASE last # {}
    <3>1. (CHOOSE i \in last : TRUE) \in DOMAIN sates
      BY <2>2
    <3> QED BY <2>2, <3>1, <1>1 DEF TempSnr
  <2> QED BY <2>1, <2>2
<1> QED BY <1>2 DEF UpdateSateCover, TablesOK

\* The UPDATE of the daemon rewrites rows, it adds none.
LEMMA UpdateRetryType ==
  ASSUME TablesOK, NEW row \in CacheRow, NEW now \in Nat
  PROVE  /\ UpdateRetry(message_cache, row, now, msg_interval) \subseteq CacheRow
         /\ IsFiniteSet(UpdateRetry(message_cache, row, now, msg_interval))
         /\ \A r \in UpdateRetry(message_cache, row, now, msg_interval) :
              \E s \in message_cache : r.rid = s.rid /\ RowKey(r) = RowKey(s) /\ r.type = s.type
<1> DEFINE New(r) == IF RowKey(r) = RowKey(row)
                     THEN [r EXCEPT !.retry_num = row.retry_num + 1,
                                    !.retry_time = now + (row.retry_num + 1) * msg_interval]
                     ELSE r
           T == {New(r) : r \in message_cache}
           f == [r \in message_cache |-> New(r)]
<1>1. UpdateRetry(message_cache, row, now, msg_interval) = T
  BY DEF UpdateRetry
<1>2. row.retry_num + 1 \in Nat /\ now + (row.retry_num + 1) * msg_interval \in Nat
  BY ServerAssumption DEF CacheRow
<1>3. \A r \in message_cache :
        New(r) \in CacheRow /\ New(r).rid = r.rid /\ RowKey(New(r)) = RowKey(r) /\ New(r).type = r.type
  BY <1>2 DEF TablesOK, CacheRow, RowKey
<1>4. f \in Surjection(message_cache, T)
  BY DEF Surjection
<1>5. IsFiniteSet(T)
  BY <1>4, FS_Surjection, IsFiniteSet(message_cache) DEF TablesOK
<1> QED BY <1>1, <1>3, <1>5

-----------------------------------------------------------------------------
(* The steps every handler is made of.                                     *)

\* A jump keeps the program counters in range.
LEMMA GotoType ==
  ASSUME ThreadsOK, NEW w \in Workers, NEW label \in Labels, Goto(w, label)
  PROVE  pc' \in [Workers -> Labels]
BY DEF ThreadsOK, Goto

\* The locals of an idle worker are well typed.
LEMMA NoLocalsType == LocalsOK(NoLocals)
<1>1. NoHead \in ControlHead
  <2>1. <<>> \in Seq(SateParam)
    BY EmptySeq
  <2> QED
    BY <2>1 DEF NoHead, ControlHead, Parties, NoAck, UserAckResponse, Login
<1>2. UnfilledItem(Uninit) \in MessageItem
  BY DEF UnfilledItem, MessageItem
<1> QED BY <1>1, <1>2, SequenceIsSates DEF LocalsOK, NoLocals, NoReply

\* Replacing the locals of one worker.
LEMMA LocalsStep ==
  ASSUME ThreadsOK, NEW w \in Workers, NEW l, LocalsOK(l), loc' = [loc EXCEPT ![w] = l]
  PROVE  loc' = [v \in Workers |-> loc'[v]] /\ \A v \in Workers : LocalsOK(loc'[v])
BY DEF ThreadsOK

\* A return resets the locals of its worker.
LEMMA ReturnType ==
  ASSUME ThreadsOK, NEW w \in Workers, Return(w)
  PROVE  ThreadsOK'
<1>1. "idle" \in Labels
  BY DEF Labels
<1>2. pc' \in [Workers -> Labels]
  BY <1>1, GotoType DEF Return
<1>3. loc' = [v \in Workers |-> loc'[v]] /\ \A v \in Workers : LocalsOK(loc'[v])
  BY NoLocalsType, LocalsStep DEF Return
<1> QED BY <1>2, <1>3 DEF ThreadsOK, LocalsOK

\* Assigning one of the locals.
LEMMA AssignType ==
  ASSUME ThreadsOK, NEW w \in Workers
  PROVE  /\ \A x : IsSates(x) =>
              /\ LocalsOK([loc[w] EXCEPT !.sates = x])
              /\ LocalsOK([loc[w] EXCEPT !.sates_from = x])
         /\ \A x \in ControlHead : LocalsOK([loc[w] EXCEPT !.head = x])
         /\ \A x \in MessageItem : LocalsOK([loc[w] EXCEPT !.item = x])
         /\ \A x \in [receipt_type : Nat, receipt_indicate : Nat] :
              LocalsOK([loc[w] EXCEPT !.reply = x])
<1> DEFINE l == loc[w]
<1>1. LocalsOK(l)
  BY DEF ThreadsOK
<1> HIDE DEF l
<1> SUFFICES
         /\ \A x : IsSates(x) =>
              /\ LocalsOK([l EXCEPT !.sates = x])
              /\ LocalsOK([l EXCEPT !.sates_from = x])
         /\ \A x \in ControlHead : LocalsOK([l EXCEPT !.head = x])
         /\ \A x \in MessageItem : LocalsOK([l EXCEPT !.item = x])
         /\ \A x \in [receipt_type : Nat, receipt_indicate : Nat] :
              LocalsOK([l EXCEPT !.reply = x])
  BY DEF l
<1> QED BY <1>1 DEF LocalsOK

\* The operations of the pool.
LEMMA PoolType ==
  ASSUME PoolOK, NEW t \in Workers \cup {Daemon},
         GetConnection(t) \/ Connection_close(t) \/ Connection_clear(t)
  PROVE  PoolOK'
BY DEF PoolOK, GetConnection, Connection_close, Connection_clear

\* A failed statement uses up one unit of the budget.
LEMMA FaultType ==
  ASSUME EnvOK, SQLException
  PROVE  left' \in [BudgetKinds -> Nat]
BY DEF EnvOK, SQLException, BudgetKinds

\* What the two encoders produce is a Content.
LEMMA EncodeType ==
  /\ \A head \in ControlHead : MessageEncode(head) \in Content
  /\ \A item \in FilledItem : MessageEncode(item) \in Content
  /\ \A to_id \in Parties, from_id \in Parties, frame_id \in Nat,
        receipt_type \in Nat, receipt_indicate \in Nat :
       ResponseEncode(to_id, from_id, frame_id, receipt_type, receipt_indicate) \in Content
<1>1. RECEIPTE \in Nat
  BY DEF RECEIPTE
<1> QED
  BY <1>1 DEF ControlHead, FilledItem, Content, MessageEncode, ResponseEncode

\* SendMessage puts only well-formed frames on the air.
LEMMA SendType ==
  ASSUME HistoryOK, NEW user_id \in Parties, NEW content \in Content, NEW sates,
         IsSates(sates), NEW level \in Nat, SendMessage(user_id, content, sates, level)
  PROVE  air' \subseteq AccessMessage
BY FramesType DEF HistoryOK, SendMessage
\* A jump that does not lead to the DELETE or the INSERT of ProcessReceipt, and a
\* return, leave nothing to check.
LEMMA GotoChecked ==
  ASSUME ThreadsOK, ItemsChecked, NEW w \in Workers, NEW label, Goto(w, label),
         label \notin {"DeleteOfflineMessage", "ArchiveMessage"},
         \A v \in Workers : v # w => loc'[v] = loc[v]
  PROVE  ItemsChecked'
BY DEF ThreadsOK, ItemsChecked, Goto

\* See GotoChecked.
LEMMA ReturnChecked ==
  ASSUME ThreadsOK, ItemsChecked, NEW w \in Workers, Return(w)
  PROVE  ItemsChecked'
BY GotoChecked DEF ThreadsOK, Return

-----------------------------------------------------------------------------
(* One lemma per component: its steps preserve TypeOK.                     *)

\* The steps of logic/message_manager.cpp.
LEMMA MessageStepType ==
  ASSUME TypeOK, NEW w \in Workers, MessageStep(w)
  PROVE  TypeOK'
<1> USE DEF TypeOK
<1>h. loc[w].head \in ControlHead /\ IsSates(loc[w].sates) /\ IsSates(loc[w].sates_from)
      /\ loc[w].item \in MessageItem
  BY DEF ThreadsOK, LocalsOK
<1>l. \A label \in {"SimpleCover", "SendMessage", "CoverTo", "CoverFrom", "SendReceipt",
                    "DeleteOfflineMessage", "ArchiveMessage"} : label \in Labels
  BY DEF Labels
<1>u. UNCHANGED pool => PoolOK'
  BY DEF pool, PoolOK
<1>t. UNCHANGED threads => ThreadsOK'
  BY DEF threads, ThreadsOK
<1>q. UNCHANGED qos => QosOK'
  BY DEF QosOK
<1>a. UNCHANGED history => HistoryOK'
  BY DEF history, HistoryOK
<1>b. UNCHANGED tables => TablesOK'
  BY DEF tables, TablesOK
<1>e. UNCHANGED <<up, clock>> /\ (UNCHANGED left \/ SQLException) => EnvOK'
  BY FaultType DEF EnvOK
<1>r. UNCHANGED <<tables, qos, picked>> => RowsInserted'
  BY DEF RowsInserted, tables
<1>1. CASE InsertStoreMessage(w)
  <2>1. StoreRowOfHead(loc[w].head) \in StoreRow
    BY <1>h DEF StoreRowOfHead, ControlHead, StoreRow
  <2>2. TablesOK'
    BY <1>1, <2>1 DEF InsertStoreMessage, TablesOK
  <2>3. PoolOK'
    BY <1>1, <1>u, PoolType DEF InsertStoreMessage, pool
  <2>4. ThreadsOK'
    <3>1. CASE Goto(w, "SimpleCover") /\ UNCHANGED loc
      BY <3>1, <1>l, GotoType DEF ThreadsOK
    <3> QED BY <1>1, <3>1, ReturnType DEF InsertStoreMessage
  <2>5. EnvOK'
    BY <1>1, <1>e DEF InsertStoreMessage
  <2>6. HistoryOK' /\ QosOK'
    BY <1>1, <1>a, <1>q DEF InsertStoreMessage
  <2>7. RowsInserted'
    BY <1>1 DEF InsertStoreMessage, RowsInserted, history
  <2>9. ItemsChecked'
    BY <1>1, GotoChecked, ReturnChecked DEF InsertStoreMessage, ThreadsOK
  <2> QED BY <2>9, <2>2, <2>3, <2>4, <2>5, <2>6, <2>7
<1>2. CASE SimpleCover(w)
  <2> DEFINE sates == GetSateCover(sate_cover, loc[w].head.to_id)
  <2>1. IsSates(sates)
    BY CoverType
  <2>2. ThreadsOK'
    <3>1. CASE loc' = [loc EXCEPT ![w].sates = sates] /\ Goto(w, "SendMessage")
      <4>1. loc' = [loc EXCEPT ![w] = [loc[w] EXCEPT !.sates = sates]]
        BY <3>1
      <4> QED BY <4>1, <2>1, <3>1, <1>l, GotoType, AssignType, LocalsStep DEF ThreadsOK
    <3> QED BY <1>2, <3>1, ReturnType DEF SimpleCover
  <2>3. PoolOK'
    BY <1>2, PoolType DEF SimpleCover
  <2>9. ItemsChecked'
    BY <1>2, GotoChecked, ReturnChecked DEF SimpleCover, ThreadsOK
  <2> QED BY <2>9, <1>2, <2>2, <2>3, <1>q, <1>a, <1>b, <1>e, <1>r DEF SimpleCover, history
<1>3. CASE InsertOfflineMessage(w)
  <2> DEFINE row == OfflineRow(loc[w].head, Len(picked) + 1, clock)
  <2>1. Len(picked) \in Nat /\ DOMAIN picked = 1 .. Len(picked)
    BY LenProperties DEF HistoryOK
  <2>2. row \in CacheRow /\ row.rid = Len(picked) + 1
    BY <1>h, <2>1, DatabaseAssumption DEF OfflineRow, ControlHead, CacheRow, EnvOK
  <2>3. TablesOK'
    BY <1>3, <2>2, FS_AddElement DEF InsertOfflineMessage, TablesOK
  <2>4. picked' \in Seq(Nat) /\ DOMAIN picked' = 1 .. Len(picked) + 1
    BY <1>3, <2>1 DEF InsertOfflineMessage, HistoryOK
  <2>5. HistoryOK'
    BY <1>3, <2>4 DEF InsertOfflineMessage, HistoryOK
  <2>6. RowsInserted'
    BY <1>3, <2>1, <2>2, <2>4 DEF InsertOfflineMessage, RowsInserted
  <2>7. ThreadsOK'
    BY <1>3, <1>l, GotoType DEF InsertOfflineMessage, ThreadsOK
  <2>8. EnvOK'
    BY <1>3, <1>e DEF InsertOfflineMessage, env
  <2>9. ItemsChecked'
    BY <1>3, GotoChecked DEF InsertOfflineMessage, ThreadsOK
  <2> QED BY <2>9, <1>3, <2>3, <2>5, <2>6, <2>7, <2>8, <1>u, <1>q DEF InsertOfflineMessage
<1>4. CASE InsertOfflineFails(w)
  <2>1. PoolOK' /\ ThreadsOK'
    BY <1>4, PoolType, ReturnType DEF InsertOfflineFails
  <2>9. ItemsChecked'
    BY <1>4, ReturnChecked DEF InsertOfflineFails, ThreadsOK
  <2> QED BY <2>9, <1>4, <2>1, <1>q, <1>a, <1>b, <1>e, <1>r DEF InsertOfflineFails, history
<1>5. CASE CoverTo(w)
  <2> DEFINE sates == GetSateCover(sate_cover, loc[w].head.to_id)
  <2>1. IsSates(sates)
    BY CoverType
  <2>2. ThreadsOK'
    <3>1. CASE loc' = [loc EXCEPT ![w].sates = sates]
      <4>1. loc' = [loc EXCEPT ![w] = [loc[w] EXCEPT !.sates = sates]]
        BY <3>1
      <4> QED BY <1>5, <4>1, <2>1, <1>l, GotoType, AssignType, LocalsStep DEF CoverTo, ThreadsOK
    <3>2. CASE UNCHANGED loc
      BY <1>5, <3>2, <1>l, GotoType DEF CoverTo, ThreadsOK
    <3> QED BY <1>5, <3>1, <3>2 DEF CoverTo
  <2>9. ItemsChecked'
    BY <1>5, GotoChecked DEF CoverTo, ThreadsOK
  <2> QED BY <2>9, <1>5, <2>2, <1>u, <1>q, <1>a, <1>b, <1>e, <1>r DEF CoverTo, history
<1>6. CASE CoverFrom(w)
  <2> DEFINE sates == GetSateCover(sate_cover, loc[w].head.from_id)
  <2>1. IsSates(sates)
    BY CoverType
  <2>2. ThreadsOK'
    <3>1. CASE loc' = [loc EXCEPT ![w].sates_from = sates]
      <4>1. loc' = [loc EXCEPT ![w] = [loc[w] EXCEPT !.sates_from = sates]]
        BY <3>1
      <4> QED BY <1>6, <4>1, <2>1, <1>l, GotoType, AssignType, LocalsStep DEF CoverFrom, ThreadsOK
    <3>2. CASE UNCHANGED loc
      BY <1>6, <3>2, <1>l, GotoType DEF CoverFrom, ThreadsOK
    <3> QED BY <1>6, <3>1, <3>2 DEF CoverFrom
  <2>3. PoolOK'
    BY <1>6, PoolType DEF CoverFrom
  <2>9. ItemsChecked'
    BY <1>6, GotoChecked DEF CoverFrom, ThreadsOK
  <2> QED BY <2>9, <1>6, <2>2, <2>3, <1>q, <1>a, <1>b, <1>e, <1>r DEF CoverFrom, history
<1>7. CASE SendReceipt(w)
  <2> DEFINE head == loc[w].head
             content == ResponseEncode(head.from_id, ServerId, head.frame_id, SENDER_RECEIPT, 0)
  <2>1. content \in Content /\ head.from_id \in Parties
    BY <1>h, EncodeType DEF ControlHead, Parties, ServerId, SENDER_RECEIPT
  <2>2. air' \subseteq AccessMessage
    BY <1>7, <2>1, <1>h, SendType DEF SendReceipt
  <2>3. HistoryOK'
    BY <1>7, <2>2 DEF SendReceipt, HistoryOK
  <2>4. ThreadsOK'
    <3>1. CASE Goto(w, "SendMessage") /\ UNCHANGED loc
      BY <3>1, <1>l, GotoType DEF ThreadsOK
    <3> QED BY <1>7, <3>1, ReturnType DEF SendReceipt
  <2>9. ItemsChecked'
    BY <1>7, GotoChecked, ReturnChecked DEF SendReceipt, ThreadsOK
  <2> QED BY <2>9, <1>7, <2>3, <2>4, <1>u, <1>q, <1>b, <1>e, <1>r DEF SendReceipt, env
<1>8. CASE SendToRecipient(w)
  <2>1. loc[w].head.to_id \in Parties /\ MessageEncode(loc[w].head) \in Content
    BY <1>h, EncodeType DEF ControlHead
  <2>2. air' \subseteq AccessMessage
    BY <1>8, <2>1, <1>h, SendType DEF SendToRecipient
  <2>3. HistoryOK' /\ ThreadsOK'
    BY <1>8, <2>2, ReturnType DEF SendToRecipient, HistoryOK
  <2>9. ItemsChecked'
    BY <1>8, ReturnChecked DEF SendToRecipient, ThreadsOK
  <2> QED BY <2>9, <1>8, <2>3, <1>u, <1>q, <1>b, <1>e, <1>r DEF SendToRecipient, env
<1>9. CASE GetOffline(w)
  <2>1. ASSUME NEW item \in GetOfflineMessage(message_cache, ReceiptKey(loc[w].head))
        PROVE  item \in MessageItem
    <3>1. \A type \in {COMPLETE_MESSAGE, Uninit} : UnfilledItem(type) \in MessageItem
      BY DEF UnfilledItem, MessageItem, COMPLETE_MESSAGE
    <3>2. \A row \in CacheRow : ItemOf(row) \in MessageItem
      BY DEF ItemOf, CacheRow, MessageItem
    <3> QED BY <2>1, <3>1, <3>2 DEF GetOfflineMessage, RowsOf, TablesOK
  <2>2. ThreadsOK' /\ PoolOK' /\ EnvOK'
    <3>1. CASE \E item \in GetOfflineMessage(message_cache, ReceiptKey(loc[w].head)) :
                 /\ loc' = [loc EXCEPT ![w].item = item]
                 /\ Goto(w, "DeleteOfflineMessage")
                 /\ UNCHANGED <<conn, leaked, left>>
      <4>1. PICK item \in GetOfflineMessage(message_cache, ReceiptKey(loc[w].head)) :
                 /\ loc' = [loc EXCEPT ![w].item = item]
                 /\ Goto(w, "DeleteOfflineMessage")
                 /\ UNCHANGED <<conn, leaked, left>>
        BY <3>1
      <4>2. loc' = [loc EXCEPT ![w] = [loc[w] EXCEPT !.item = item]]
        BY <4>1
      <4>3. ThreadsOK'
        BY <4>1, <4>2, <2>1, <1>l, GotoType, AssignType, LocalsStep DEF ThreadsOK
      <4> QED BY <1>9, <4>1, <4>3, <1>u, <1>e DEF GetOffline, pool
    <3>2. CASE (UNCHANGED left \/ SQLException) /\ Connection_close(w) /\ Return(w)
      BY <1>9, <3>2, <1>e, PoolType, ReturnType DEF GetOffline
    <3> QED BY <1>9, <3>1, <3>2 DEF GetOffline
  <2>9. ItemsChecked'
    <3>1. ASSUME NEW item, item.type = COMPLETE_MESSAGE,
                 loc' = [loc EXCEPT ![w].item = item], Goto(w, "DeleteOfflineMessage")
          PROVE  ItemsChecked'
      <4>1. loc'[w].item = item
        BY <3>1 DEF ThreadsOK, LocalsOK
      <4>2. \A v \in Workers : v # w => pc'[v] = pc[v] /\ loc'[v] = loc[v]
        BY <3>1 DEF ThreadsOK, Goto
      <4> QED BY <3>1, <4>1, <4>2 DEF ItemsChecked
    <3> QED BY <1>9, <3>1, ReturnChecked DEF GetOffline
  <2> QED BY <2>9, <1>9, <2>2, <1>q, <1>a, <1>b, <1>r DEF GetOffline, history
<1>10. CASE DeleteOffline(w)
  <2>1. TablesOK' /\ RowsInserted'
    <3>1. message_cache' \subseteq message_cache
      BY <1>10 DEF DeleteOffline, DeleteOfflineMessage
    <3>2. IsFiniteSet(message_cache')
      BY <3>1, FS_Subset DEF TablesOK
    <3> QED BY <1>10, <3>1, <3>2 DEF DeleteOffline, TablesOK, RowsInserted, history
  <2>2. ThreadsOK'
    BY <1>10, <1>l, GotoType DEF DeleteOffline, ThreadsOK
  <2>9. ItemsChecked'
    BY <1>10 DEF DeleteOffline, ThreadsOK, ItemsChecked, Goto
  <2> QED BY <2>9, <1>10, <2>1, <2>2, <1>u, <1>q, <1>a, <1>e DEF DeleteOffline
<1>11. CASE ArchiveMessage(w)
  <2>1. PoolOK' /\ ThreadsOK'
    BY <1>11, PoolType, ReturnType DEF ArchiveMessage
  <2>2. StoreRowOfItem(loc[w].item) \in StoreRow
    BY <1>11, <1>h DEF ArchiveMessage, ItemsChecked, StoreRowOfItem, MessageItem, StoreRow, COMPLETE_MESSAGE
  <2>3. TablesOK' /\ RowsInserted'
    BY <1>11, <2>2 DEF ArchiveMessage, TablesOK, RowsInserted, history
  <2>4. ItemsChecked'
    BY <1>11, ReturnChecked DEF ArchiveMessage
  <2> QED BY <1>11, <2>1, <2>3, <2>4, <1>q, <1>a, <1>e DEF ArchiveMessage
<1> QED BY <1>1, <1>2, <1>3, <1>4, <1>5, <1>6, <1>7, <1>8, <1>9, <1>10, <1>11 DEF MessageStep

\* The steps of logic/mobile_manager.cpp.
LEMMA MobileStepType ==
  ASSUME TypeOK, NEW w \in Workers, MobileStep(w)
  PROVE  TypeOK'
<1> USE DEF TypeOK
<1>h. /\ loc[w].head \in ControlHead /\ IsSates(loc[w].sates) /\ IsSates(loc[w].head.sates)
      /\ loc[w].reply \in [receipt_type : Nat, receipt_indicate : Nat]
  BY SequenceIsSates DEF ThreadsOK, LocalsOK, ControlHead
<1>l. \A label \in {"LoginUpdate", "GetOfflineMessageNum", "LogoutUpdate", "SendReply"} :
        label \in Labels /\ label \notin {"DeleteOfflineMessage", "ArchiveMessage"}
  BY DEF Labels
<1>u. UNCHANGED pool => PoolOK'
  BY DEF pool, PoolOK
<1>q. UNCHANGED qos => QosOK'
  BY DEF QosOK
<1>a. UNCHANGED history => HistoryOK'
  BY DEF history, HistoryOK
<1>b. UNCHANGED tables => TablesOK'
  BY DEF tables, TablesOK
<1>e. UNCHANGED <<up, clock>> /\ (UNCHANGED left \/ SQLException) => EnvOK'
  BY FaultType DEF EnvOK
<1>r. UNCHANGED <<message_cache, qos, picked>> => RowsInserted'
  BY DEF RowsInserted
\* A jump with the locals unchanged, and one with an answer prepared.
<1>g. ASSUME NEW label \in {"LoginUpdate", "GetOfflineMessageNum", "LogoutUpdate", "SendReply"},
             Goto(w, label), UNCHANGED loc
      PROVE  ThreadsOK' /\ ItemsChecked'
  BY <1>g, <1>l, GotoType, GotoChecked DEF ThreadsOK
<1>y. ASSUME NEW label \in {"LogoutUpdate", "SendReply"}, Goto(w, label),
             NEW receipt_type \in Nat, NEW receipt_indicate \in Nat,
             Reply(w, receipt_type, receipt_indicate)
      PROVE  ThreadsOK' /\ ItemsChecked'
  <2> DEFINE r == [receipt_type |-> receipt_type, receipt_indicate |-> receipt_indicate]
  <2>1. loc' = [loc EXCEPT ![w] = [loc[w] EXCEPT !.reply = r]]
    BY <1>y DEF Reply
  <2>2. LocalsOK([loc[w] EXCEPT !.reply = r])
    BY AssignType
  <2>3. loc' = [v \in Workers |-> loc'[v]] /\ \A v \in Workers : LocalsOK(loc'[v])
    BY <2>1, <2>2, LocalsStep
  <2>4. \A v \in Workers : v # w => loc'[v] = loc[v]
    BY <2>1 DEF ThreadsOK
  <2> QED BY <1>y, <2>3, <2>4, <1>l, GotoType, GotoChecked DEF ThreadsOK
<1>c. Answer(w) => PoolOK' /\ Goto(w, "SendReply")
  BY PoolType DEF Answer
<1>n. {LOGIN_OK, LOGIN_FAILED, LOGOUT_DONE, MOBILE_DONE, 0} \subseteq Nat
  BY DEF LOGIN_OK, LOGIN_FAILED, LOGOUT_DONE, MOBILE_DONE
<1>1. CASE CheckUser(w)
  <2>1. PoolOK' /\ ThreadsOK' /\ ItemsChecked'
    BY <1>1, <1>u, <1>g, <1>y, <1>c, <1>n DEF CheckUser
  <2> QED BY <1>1, <2>1, <1>q, <1>a, <1>b, <1>e, <1>r DEF CheckUser, tables, history
<1>2. CASE LoginUpdate(w)
  <2>1. PoolOK' /\ ThreadsOK' /\ ItemsChecked'
    BY <1>2, <1>u, <1>g, <1>y, <1>c, <1>n DEF LoginUpdate
  <2>2. TablesOK'
    BY <1>2, <1>h, UpdateCoverType DEF LoginUpdate, TablesOK
  <2> QED BY <1>2, <2>1, <2>2, <1>q, <1>a, <1>e, <1>r DEF LoginUpdate, history
<1>3. CASE LoginCount(w)
  <2>1. GetOfflineMessageNum(message_cache, loc[w].head.from_id) \in Nat
    BY FS_Subset, FS_CardinalityType DEF TablesOK, GetOfflineMessageNum
  <2>2. Indicate(GetOfflineMessageNum(message_cache, loc[w].head.from_id)) \in Nat
    BY <2>1, DatabaseAssumption DEF Indicate
  <2>3. PoolOK' /\ ThreadsOK' /\ ItemsChecked'
    BY <1>3, <2>2, <1>y, <1>c, <1>n DEF LoginCount
  <2> QED BY <1>3, <2>3, <1>q, <1>a, <1>b, <1>e, <1>r DEF LoginCount, tables, history
<1>4. CASE LogoutCover(w)
  <2> DEFINE sates == GetSateCover(sate_cover, loc[w].head.from_id)
             r == [receipt_type |-> LOGOUT_DONE, receipt_indicate |-> 0]
  <2>1. ThreadsOK' /\ ItemsChecked'
    <3>1. CASE loc' = [loc EXCEPT ![w].sates = sates, ![w].reply = r]
      <4> DEFINE l == [[loc[w] EXCEPT !.sates = sates] EXCEPT !.reply = r]
      <4>1. loc' = [loc EXCEPT ![w] = l]
        BY <3>1 DEF ThreadsOK
      <4>2. IsSates(sates) /\ r \in [receipt_type : Nat, receipt_indicate : Nat]
        BY CoverType, <1>n
      <4>3. LocalsOK(l)
        <5>1. LocalsOK([loc[w] EXCEPT !.sates = sates])
          BY <4>2, AssignType
        <5>2. \A m, x : LocalsOK(m) /\ x \in [receipt_type : Nat, receipt_indicate : Nat]
                       => LocalsOK([m EXCEPT !.reply = x])
          BY DEF LocalsOK
        <5> QED BY <5>1, <5>2, <4>2
      <4> HIDE DEF l
      <4>4. loc' = [v \in Workers |-> loc'[v]] /\ \A v \in Workers : LocalsOK(loc'[v])
        BY <4>1, <4>3, LocalsStep
      <4>5. \A v \in Workers : v # w => loc'[v] = loc[v]
        BY <4>1 DEF ThreadsOK
      <4> QED BY <1>4, <4>4, <4>5, <1>l, GotoType, GotoChecked DEF LogoutCover, ThreadsOK
    <3> QED BY <1>4, <3>1, <1>y, <1>n DEF LogoutCover
  <2> QED BY <1>4, <2>1, <1>u, <1>q, <1>a, <1>b, <1>e, <1>r DEF LogoutCover, tables, history
<1>5. CASE LogoutUpdate(w)
  <2>1. PoolOK' /\ ThreadsOK' /\ ItemsChecked'
    BY <1>5, <1>g, <1>c DEF LogoutUpdate
  <2>2. TablesOK'
    BY <1>5, SequenceIsSates, UpdateCoverType DEF LogoutUpdate, TablesOK
  <2> QED BY <1>5, <2>1, <2>2, <1>q, <1>a, <1>e, <1>r DEF LogoutUpdate, history
<1>6. CASE MobileUpdate(w)
  <2>1. PoolOK' /\ ThreadsOK' /\ ItemsChecked'
    BY <1>6, <1>y, <1>c, <1>n DEF MobileUpdate
  <2>2. TablesOK'
    BY <1>6, <1>h, UpdateCoverType DEF MobileUpdate, TablesOK
  <2> QED BY <1>6, <2>1, <2>2, <1>q, <1>a, <1>e, <1>r DEF MobileUpdate, history
<1>7. CASE SendReply(w)
  <2> DEFINE head == loc[w].head
             reply == loc[w].reply
             content == ResponseEncode(head.from_id, head.to_id, head.frame_id,
                                       reply.receipt_type, reply.receipt_indicate)
             sates == IF head.type = Logout THEN loc[w].sates ELSE head.sates
  <2>1. content \in Content /\ head.from_id \in Parties
    BY <1>h, EncodeType DEF ControlHead
  <2>2. IsSates(sates)
    BY <1>h
  <2>3. SendMessage(head.from_id, content, sates, 10)
    BY <1>7 DEF SendReply
  <2>4. air' \subseteq AccessMessage
    BY <2>1, <2>2, <2>3, SendType
  <2>5. HistoryOK'
    BY <1>7, <2>4 DEF SendReply, HistoryOK
  <2>6. ThreadsOK' /\ ItemsChecked'
    BY <1>7, ReturnType, ReturnChecked DEF SendReply
  <2> QED BY <1>7, <2>5, <2>6, <1>u, <1>q, <1>b, <1>e, <1>r DEF SendReply, env, tables
<1> QED BY <1>1, <1>2, <1>3, <1>4, <1>5, <1>6, <1>7 DEF MobileStep

\* The steps of tools/qos_send_daemon.cpp.
LEMMA QosStepType ==
  ASSUME TypeOK, QosStep
  PROVE  TypeOK'
<1> USE DEF TypeOK
<1>u. UNCHANGED pool => PoolOK'
  BY DEF pool, PoolOK
<1>t. UNCHANGED threads => ThreadsOK' /\ ItemsChecked'
  BY DEF threads, ThreadsOK, ItemsChecked
<1>a. UNCHANGED history => HistoryOK'
  BY DEF history, HistoryOK
<1>b. UNCHANGED tables => TablesOK'
  BY DEF tables, TablesOK
<1>e. UNCHANGED <<up, clock>> /\ (UNCHANGED left \/ SQLException) => EnvOK'
  BY FaultType DEF EnvOK
<1>r. UNCHANGED <<message_cache, picked>> /\ qos'.rows \subseteq message_cache \cup qos.rows
        => RowsInserted'
  BY DEF RowsInserted
<1>1. CASE QosGetConnection
  <2>1. QosOK' /\ qos'.rows = qos.rows
    BY <1>1 DEF QosGetConnection, QosOK, QosLabels
  <2>2. PoolOK'
    BY <1>1, PoolType DEF QosGetConnection
  <2> QED BY <1>1, <2>1, <2>2, <1>t, <1>a, <1>b, <1>e, <1>r
      DEF QosGetConnection, tables, history, env
<1>2. CASE QosSelect
  <2> DEFINE due == DueRows(message_cache, max_retry_count, clock)
  <2>1. due \subseteq message_cache /\ due \subseteq CacheRow
    BY DEF DueRows, TablesOK
  <2>2. QosOK' /\ qos'.rows \subseteq message_cache \cup qos.rows
    <3> HIDE DEF due
    <3>1. CASE qos' = [qos EXCEPT !.pc = IF due = {} THEN "Cover" ELSE "Update",
                                  !.rows = due, !.now = clock]
      BY <3>1, <2>1 DEF QosOK, QosLabels, EnvOK
    <3>2. CASE qos' = [qos EXCEPT !.pc = "Cover"]
      BY <3>2 DEF QosOK, QosLabels
    <3> QED BY <1>2, <3>1, <3>2 DEF QosSelect, due
  <2> QED BY <1>2, <2>2, <1>u, <1>t, <1>a, <1>b, <1>e, <1>r DEF QosSelect, tables, history
<1>3. ASSUME NEW row \in qos.rows, QosUpdate(row)
      PROVE  TypeOK'
  <2>1. row \in CacheRow /\ row.rid \in DOMAIN picked /\ ItemOf(row) \in FilledItem
    BY DEF QosOK, RowsInserted, CacheRow, ItemOf, FilledItem
  <2>2. QosOK' /\ qos'.rows \subseteq qos.rows
    <3>1. Append(qos.messages, ItemOf(row)) \in Seq(FilledItem)
      BY <2>1 DEF QosOK
    <3>2. PICK label \in {"Cover", "Update"}, rows \in SUBSET qos.rows :
            \/ qos' = [qos EXCEPT !.pc = label, !.rows = rows,
                                  !.messages = Append(qos.messages, ItemOf(row))]
            \/ qos' = [qos EXCEPT !.pc = label, !.rows = rows]
      BY <1>3 DEF QosUpdate
    <3> QED BY <3>1, <3>2 DEF QosOK, QosLabels
  <2>3. /\ TablesOK'
        /\ \A r \in message_cache' : \E s \in message_cache : r.rid = s.rid
    <3>1. qos.now \in Nat
      BY DEF QosOK
    <3> QED BY <1>3, <2>1, <3>1, UpdateRetryType DEF QosUpdate, TablesOK
  <2>4. picked' \in Seq(Nat) /\ DOMAIN picked' = DOMAIN picked
    <3>1. picked \in [1 .. Len(picked) -> Nat] /\ Len(picked) \in Nat
      BY LenProperties DEF HistoryOK
    <3>2. picked[row.rid] + 1 \in Nat
      BY <2>1, <3>1
    <3>3. CASE picked' = [picked EXCEPT ![row.rid] = @ + 1]
      BY <2>1, <3>1, <3>2, <3>3, ExceptSeq DEF HistoryOK
    <3>4. CASE UNCHANGED picked
      BY <3>4 DEF HistoryOK
    <3> QED BY <1>3, <3>3, <3>4 DEF QosUpdate
  <2>5. HistoryOK'
    BY <1>3, <2>4 DEF QosUpdate, HistoryOK
  <2>6. RowsInserted'
    BY <2>2, <2>3, <2>4 DEF RowsInserted
  <2> QED BY <1>3, <2>2, <2>3, <2>5, <2>6, <1>u, <1>t, <1>e DEF QosUpdate
<1>4. CASE QosCover
  <2> DEFINE sates == GetSateCover(sate_cover, Head(qos.messages).to_id)
  <2>1. IsSates(sates)
    BY CoverType
  <2>2. Tail(qos.messages) \in Seq(FilledItem)
    BY <1>4, HeadTailProperties DEF QosCover, QosOK
  <2>3. QosOK' /\ qos'.rows = qos.rows
    <3> HIDE DEF sates
    <3>1. CASE qos' = [qos EXCEPT !.pc = "Send", !.sates = sates]
      BY <1>4, <3>1, <2>1 DEF QosCover, QosOK, QosLabels
    <3>2. CASE qos' = [qos EXCEPT !.messages = Tail(qos.messages)]
      BY <1>4, <3>2, <2>2 DEF QosCover, QosOK, QosLabels
    <3> QED BY <1>4, <3>1, <3>2 DEF QosCover, sates
  <2> QED BY <1>4, <2>3, <1>u, <1>t, <1>a, <1>b, <1>e, <1>r DEF QosCover, tables, history
<1>5. CASE QosSend
  <2> DEFINE message == Head(qos.messages)
  <2>1. message \in FilledItem /\ Tail(qos.messages) \in Seq(FilledItem)
    BY <1>5, HeadTailProperties DEF QosSend, QosOK
  <2>2. message.to_id \in Parties /\ MessageEncode(message) \in Content
    BY <2>1, EncodeType DEF FilledItem
  <2>3. air' \subseteq AccessMessage
    BY <1>5, <2>2, SendType DEF QosSend, QosOK
  <2>4. HistoryOK'
    BY <1>5, <2>3 DEF QosSend, HistoryOK
  <2>5. QosOK' /\ qos'.rows = qos.rows
    BY <1>5, <2>1, SequenceIsSates DEF QosSend, QosOK, QosLabels
  <2> QED BY <1>5, <2>4, <2>5, <1>u, <1>t, <1>b, <1>e, <1>r DEF QosSend, tables, env
<1>6. CASE QosEndRound \/ QosWake
  <2>1. QosOK' /\ qos'.rows = {}
    <3>1. <<>> \in Seq(FilledItem)
      BY EmptySeq
    <3>2. PICK label \in {"Sleep", "GetConnection"} :
            qos' = [pc |-> label, rows |-> {}, messages |-> <<>>, sates |-> <<>>, now |-> 0]
      BY <1>6 DEF QosEndRound, QosWake, QosIdle
    <3>3. qos'.messages = <<>> /\ qos'.sates = <<>> /\ qos'.rows = {} /\ qos'.now = 0
          /\ qos'.pc = label
      BY <3>2
    <3>4. label \in QosLabels /\ label # "Send"
      BY DEF QosLabels
    <3>5. IsSates(qos'.sates)
      BY <3>3, SequenceIsSates
    <3> QED BY <3>1, <3>2, <3>3, <3>4, <3>5 DEF QosOK, IsSates
  <2>2. PoolOK'
    BY <1>6, <1>u, PoolType DEF QosEndRound, QosWake
  <2> QED BY <1>6, <2>1, <2>2, <1>t, <1>a, <1>b, <1>e, <1>r
      DEF QosEndRound, QosWake, tables, history, env
<1> QED BY <1>1, <1>2, <1>3, <1>4, <1>5, <1>6 DEF QosStep

\* The start of a handler, and the requests of the terminals.
LEMMA RequestType ==
  ASSUME TypeOK, NEW w \in Workers, StartHandler(w) \/ Request(w)
  PROVE  TypeOK'
<1> USE DEF TypeOK
<1>q. UNCHANGED qos => QosOK'
  BY DEF QosOK
<1>b. UNCHANGED tables => TablesOK'
  BY DEF tables, TablesOK
<1>u. UNCHANGED pool => PoolOK'
  BY DEF pool, PoolOK
<1>r. UNCHANGED <<message_cache, qos, picked>> => RowsInserted'
  BY DEF RowsInserted
<1>1. CASE StartHandler(w)
  <2>1. FirstStep(loc[w].head) \in Labels
        /\ FirstStep(loc[w].head) \notin {"DeleteOfflineMessage", "ArchiveMessage"}
    BY DEF FirstStep, Labels
  <2>2. ThreadsOK' /\ ItemsChecked'
    BY <1>1, <2>1, GotoType, GotoChecked DEF StartHandler, ThreadsOK
  <2>3. PoolOK'
    BY <1>1, PoolType DEF StartHandler
  <2>4. HistoryOK' /\ EnvOK'
    BY <1>1 DEF StartHandler, history, env, HistoryOK, EnvOK
  <2> QED BY <1>1, <2>2, <2>3, <2>4, <1>q, <1>b, <1>r DEF StartHandler, tables, history
\* What the three kinds of request have in common.
<1>2. ASSUME NEW head \in ControlHead, AccessToLogic(w, head), NEW kind \in BudgetKinds,
             Spend(kind)
      PROVE  TablesOK' /\ PoolOK' /\ ThreadsOK' /\ QosOK' /\ EnvOK' /\ RowsInserted' /\ ItemsChecked'
  <2>1. ThreadsOK' /\ ItemsChecked'
    <3>1. CASE UNCHANGED threads
      BY <3>1 DEF threads, ThreadsOK, ItemsChecked
    <3>2. CASE Goto(w, "GetConnection") /\ loc' = [loc EXCEPT ![w].head = head]
      <4>1. loc' = [loc EXCEPT ![w] = [loc[w] EXCEPT !.head = head]]
        BY <3>2
      <4>2. LocalsOK([loc[w] EXCEPT !.head = head])
        BY AssignType
      <4>3. "GetConnection" \in Labels
        BY DEF Labels
      <4>4. loc' = [v \in Workers |-> loc'[v]] /\ \A v \in Workers : LocalsOK(loc'[v])
        BY <4>1, <4>2, LocalsStep
      <4>5. \A v \in Workers : v # w => loc'[v] = loc[v]
        BY <4>1 DEF ThreadsOK
      <4> QED BY <3>2, <4>3, <4>4, <4>5, GotoType, GotoChecked DEF ThreadsOK
    <3> QED BY <1>2, <3>1, <3>2 DEF AccessToLogic
  <2>2. EnvOK'
    BY <1>2 DEF AccessToLogic, Spend, EnvOK
  <2> QED BY <1>2, <2>1, <2>2, <1>q, <1>b, <1>u, <1>r DEF AccessToLogic, tables
<1>k. {"submit", "receipt", "mobile"} \subseteq BudgetKinds
  BY DEF BudgetKinds
<1>n. NoAck \in UserAckResponse /\ <<>> \in Seq(SateParam)
      /\ {Login, Logout, MOBILE_MANAGER_REQUEST, RECEIPTE, COMPLETE_MESSAGE, SENDER_RECEIPT} \subseteq Nat
  BY EmptySeq DEF NoAck, UserAckResponse, Login, Logout, MOBILE_MANAGER_REQUEST, RECEIPTE,
                  COMPLETE_MESSAGE, SENDER_RECEIPT
<1>3. ASSUME NEW m \in Messages, SubmitMessage(w, m)
      PROVE  TypeOK'
  <2>1. MessageHead(m) \in ControlHead
    BY <1>n, EnvironmentAssumption DEF MessageHead, ControlHead, Parties
  <2>2. HistoryOK'
    BY <1>3 DEF SubmitMessage, AccessToLogic, HistoryOK
  <2> QED BY <1>3, <2>1, <2>2, <1>2, <1>k DEF SubmitMessage
<1>4. ASSUME NEW a \in air, NEW receipt_type \in {COMPLETE_MESSAGE, SENDER_RECEIPT},
             SubmitReceipt(w, a, receipt_type)
      PROVE  TypeOK'
  <2>0. a.content \in Content
    BY DEF HistoryOK, AccessMessage
  <2>1. ReceiptHead(a.content, receipt_type) \in ControlHead
    BY <2>0, <1>n DEF ReceiptHead, ControlHead, Content, UserAckResponse
  <2>2. ContentKey(a.content) \in Parties \X Parties \X Nat
    BY <2>0 DEF ContentKey, Key, Content
  <2>3. HistoryOK'
    BY <1>4, <2>2 DEF SubmitReceipt, AccessToLogic, HistoryOK
  <2> QED BY <1>4, <2>1, <2>3, <1>2, <1>k DEF SubmitReceipt
<1>5. ASSUME NEW u \in Users, NEW type \in {Login, MOBILE_MANAGER_REQUEST, Logout},
             NEW sates \in Seq(SateParam), SubmitMobile(w, u, type, sates)
      PROVE  TypeOK'
  <2>1. MobileHead(u, type, sates) \in ControlHead
    BY <1>n DEF MobileHead, ControlHead, Parties
  <2>2. {sates[i].beam_id : i \in DOMAIN sates} \subseteq Int
    BY SequenceIsSates DEF IsSates, SateParam
  <2>3. HistoryOK'
    BY <1>5, <2>2 DEF SubmitMobile, AccessToLogic, HistoryOK
  <2> QED BY <1>5, <2>1, <2>3, <1>2, <1>k DEF SubmitMobile
<1>6. Covers \subseteq Seq(SateParam)
  BY EnvironmentAssumption
<1> QED BY <1>1, <1>3, <1>4, <1>5, <1>6, <1>n DEF Request

\* Time, crashes and restarts.
LEMMA EnvironmentStepType ==
  ASSUME TypeOK, Tick \/ Crash \/ Restart \/ \E w \in Workers : Abort(w)
  PROVE  TypeOK'
<1> USE DEF TypeOK
<1>b. UNCHANGED tables => TablesOK'
  BY DEF tables, TablesOK
<1>a. UNCHANGED history => HistoryOK'
  BY DEF history, HistoryOK
<1>1. CASE Tick \/ Restart
  <2>1. UNCHANGED <<tables, pool, threads, qos, history, left>>
    BY <1>1 DEF Tick, Restart
  <2>2. PoolOK' /\ ThreadsOK' /\ ItemsChecked'
    BY <2>1 DEF pool, threads, PoolOK, ThreadsOK, ItemsChecked
  <2>3. QosOK' /\ RowsInserted'
    BY <2>1 DEF tables, history, QosOK, RowsInserted
  <2>4. EnvOK'
    <3>1. up' \in BOOLEAN
      BY <1>1, Zenon DEF Tick, Restart, EnvOK
    <3>2. clock' \in Nat
      BY <1>1 DEF Tick, Restart, EnvOK
    <3> QED BY <2>1, <3>1, <3>2 DEF EnvOK
  <2> QED BY <2>1, <2>2, <2>3, <2>4, <1>a, <1>b
<1>2. ASSUME Die, left' \in [BudgetKinds -> Nat]
      PROVE  TypeOK'
  <2>1. PoolOK' /\ EnvOK'
    BY <1>2 DEF Die, PoolOK, EnvOK
  <2>2. ThreadsOK' /\ ItemsChecked'
    BY <1>2, NoLocalsType DEF Die, ThreadsOK, ItemsChecked, Labels
  <2>3. QosOK' /\ qos'.rows = {}
    <3>1. <<>> \in Seq(FilledItem)
      BY EmptySeq
    <3>2. qos' = [pc |-> "GetConnection", rows |-> {}, messages |-> <<>>, sates |-> <<>>, now |-> 0]
      BY <1>2 DEF Die, QosIdle
    <3>3. qos'.messages = <<>> /\ qos'.sates = <<>> /\ qos'.rows = {} /\ qos'.now = 0
          /\ qos'.pc = "GetConnection"
      BY <3>2
    <3>4. "GetConnection" \in QosLabels
      BY DEF QosLabels
    <3>5. IsSates(qos'.sates)
      BY <3>3, SequenceIsSates
    <3> QED BY <3>1, <3>2, <3>3, <3>4, <3>5 DEF QosOK, IsSates
  <2>4. RowsInserted'
    BY <1>2, <2>3 DEF Die, RowsInserted, tables, history
  <2> QED BY <1>2, <2>1, <2>2, <2>3, <2>4, <1>a, <1>b DEF Die
<1>3. CASE Crash
  BY <1>2, <1>3 DEF Crash, Spend, EnvOK, BudgetKinds
<1>4. CASE \E w \in Workers : Abort(w)
  BY <1>2, <1>4 DEF Abort, EnvOK
<1> QED BY <1>1, <1>3, <1>4

\* What a user had reported before the start is a list of beams.
LEMMA StoredReportType ==
  ASSUME NEW u \in Users
  PROVE  StoredReport(u) \in Seq(SateParam)
<1>1. MAX_BEAM_NUM \in Nat /\ Beams = 1 .. MAX_BEAM_NUM
  BY ProtocolAssumption DEF Beams
<1>2. InitCover[u] \in [Beams -> Int]
  BY ServerAssumption
<1>3. ASSUME NEW b \in Beams
      PROVE  [sate_id |-> (b + 1) \div 2, beam_id |-> b, snr |-> InitCover[u][b]] \in SateParam
  <2>1. b \in Int /\ (b + 1) \div 2 \in Int
    BY <1>1
  <2> QED BY <2>1, <1>2 DEF SateParam
<1>4. StoredReport(u) \in [1 .. MAX_BEAM_NUM -> SateParam]
  BY <1>1, <1>3 DEF StoredReport
<1> QED BY <1>1, <1>4

\* Type correctness: in every run every variable has its type; in particular no
\* uninitialised value reaches an access server or the type column of the archive.
THEOREM TypeCorrect == Spec => []TypeOK
<1>1. Init => TypeOK
  <2> SUFFICES ASSUME Init PROVE TypeOK
    OBVIOUS
  <2>1. TablesOK
    BY ServerAssumption, EmptySeq, FS_EmptySet DEF Init, TablesOK
  <2>2. PoolOK /\ EnvOK
    BY ServerAssumption DEF Init, PoolOK, EnvOK
  <2>3. ThreadsOK /\ ItemsChecked
    BY NoLocalsType DEF Init, ThreadsOK, ItemsChecked, Labels
  <2>4. QosOK /\ qos.rows = {}
    <3>1. <<>> \in Seq(FilledItem)
      BY EmptySeq
    <3>2. qos = [pc |-> "GetConnection", rows |-> {}, messages |-> <<>>, sates |-> <<>>, now |-> 0]
      BY DEF Init, QosIdle
    <3>3. "GetConnection" \in QosLabels
      BY DEF QosLabels
    <3>4. IsSates(qos.sates)
      BY <3>2, SequenceIsSates
    <3> QED BY <3>1, <3>2, <3>3, <3>4 DEF QosOK
  <2>5. HistoryOK
    <3>1. \A u \in Users : StoredReport(u) \in Seq(SateParam)
      BY StoredReportType
    <3> QED BY <3>1, EmptySeq DEF Init, HistoryOK
  <2>6. RowsInserted
    BY <2>4 DEF Init, RowsInserted
  <2> QED BY <2>1, <2>2, <2>3, <2>4, <2>5, <2>6 DEF TypeOK
<1>2. TypeOK /\ [Next]_vars => TypeOK'
  <2> SUFFICES ASSUME TypeOK, [Next]_vars PROVE TypeOK'
    OBVIOUS
  <2>1. CASE UNCHANGED vars
    BY <2>1 DEF vars, tables, pool, threads, history, env, TypeOK, TablesOK, PoolOK, ThreadsOK,
                QosOK, HistoryOK, EnvOK, RowsInserted, ItemsChecked
  <2>2. ASSUME NEW w \in Workers, Request(w) \/ WorkerStep(w)
        PROVE  TypeOK'
    BY <2>2, RequestType, MessageStepType, MobileStepType DEF WorkerStep
  <2> QED BY <2>1, <2>2, QosStepType, EnvironmentStepType DEF Next
<1> QED BY <1>1, <1>2, PTL DEF Spec

-----------------------------------------------------------------------------
(* Steps of one thread.                                                    *)

\* The frames of one SendMessage carry its addressee and its content.
LEMMA FrameFields ==
  ASSUME NEW user_id, NEW content, NEW sates, NEW level,
         NEW a \in Frames(user_id, content, sates, level)
  PROVE  a.uid = user_id /\ a.content = content
BY DEF Frames

\* A jump moves one program counter.
LEMMA JumpFacts ==
  ASSUME ThreadsOK, NEW w \in Workers, NEW label, Goto(w, label)
  PROVE  pc'[w] = label /\ \A v \in Workers : v # w => pc'[v] = pc[v]
BY DEF ThreadsOK, Goto

\* An assignment to one local leaves the others, and the other workers, alone.
LEMMA AssignFacts ==
  ASSUME ThreadsOK, NEW w \in Workers, NEW x,
         \/ loc' = [loc EXCEPT ![w].sates = x]
         \/ loc' = [loc EXCEPT ![w].sates_from = x]
         \/ loc' = [loc EXCEPT ![w].item = x]
         \/ loc' = [loc EXCEPT ![w].reply = x]
         \/ UNCHANGED loc
  PROVE  /\ loc'[w].head = loc[w].head
         /\ loc'[w].item = loc[w].item \/ loc'[w].item = x
         /\ loc'[w].reply = loc[w].reply \/ loc'[w].reply = x
         /\ \A v \in Workers : v # w => loc'[v] = loc[v]
<1>1. /\ loc = [v \in Workers |-> loc[v]]
      /\ loc[w] = [head |-> loc[w].head, sates |-> loc[w].sates, sates_from |-> loc[w].sates_from,
                   item |-> loc[w].item, reply |-> loc[w].reply]
  BY DEF ThreadsOK, LocalsOK
<1> QED BY <1>1

\* A return leaves the worker idle with fresh locals.
LEMMA ReturnFacts ==
  ASSUME ThreadsOK, NEW w \in Workers, Return(w)
  PROVE  /\ pc'[w] = "idle" /\ loc'[w] = NoLocals
         /\ \A v \in Workers : v # w => pc'[v] = pc[v] /\ loc'[v] = loc[v]
BY DEF ThreadsOK, Return, Goto

-----------------------------------------------------------------------------
(* Nothing that is held is given up.                                       *)

InStore(row) == \E i \in DOMAIN message_store : message_store[i] = row

InStoreNext(row) == \E i \in DOMAIN message_store' : message_store'[i] = row

Kept ==
  /\ receipted \subseteq receipted'
  /\ Held \subseteq Held'
  /\ \A row : InStore(row) => InStoreNext(row)
  /\ \A row \in message_cache :
       row.rid \in {r.rid : r \in message_cache'} \/ RowKey(row) \in receipted'

\* Which steps write message_cache, message_store and the history of receipts.
LEMMA Writers ==
  ASSUME TypeOK, Next
  PROVE  /\ \/ UNCHANGED message_cache
            \/ \E w \in Workers : InsertOfflineMessage(w) \/ DeleteOffline(w)
            \/ \E row \in qos.rows : QosUpdate(row)
         /\ \/ UNCHANGED message_store
            \/ \E row \in StoreRow : message_store' = Append(message_store, row)
         /\ receipted \subseteq receipted'
<1> DEFINE P == /\ \/ UNCHANGED message_cache
                   \/ \E w \in Workers : InsertOfflineMessage(w) \/ DeleteOffline(w)
                   \/ \E row \in qos.rows : QosUpdate(row)
                /\ \/ UNCHANGED message_store
                   \/ \E row \in StoreRow : message_store' = Append(message_store, row)
                /\ receipted \subseteq receipted'
<1>1. ASSUME NEW w \in Workers, MessageStep(w) PROVE P
  <2>1. loc[w].head \in ControlHead /\ loc[w].item \in MessageItem
    BY DEF TypeOK, ThreadsOK, LocalsOK
  <2>2. StoreRowOfHead(loc[w].head) \in StoreRow
    BY <2>1 DEF StoreRowOfHead, ControlHead, StoreRow
  <2>3. pc[w] = "ArchiveMessage" => StoreRowOfItem(loc[w].item) \in StoreRow
    BY <2>1 DEF TypeOK, ItemsChecked, StoreRowOfItem, MessageItem, StoreRow, COMPLETE_MESSAGE
  <2>4. CASE InsertStoreMessage(w)
    BY <2>2, <2>4 DEF InsertStoreMessage, history
  <2>5. CASE ArchiveMessage(w)
    BY <2>3, <2>5 DEF ArchiveMessage, history
  <2>6. CASE InsertOfflineMessage(w)
    BY <2>6 DEF InsertOfflineMessage
  <2>7. CASE DeleteOffline(w)
    BY <2>7 DEF DeleteOffline, history
  <2>8. CASE \/ SimpleCover(w) \/ InsertOfflineFails(w) \/ CoverTo(w) \/ CoverFrom(w)
             \/ SendReceipt(w) \/ SendToRecipient(w) \/ GetOffline(w)
    BY <2>8 DEF SimpleCover, InsertOfflineFails, CoverTo, CoverFrom, SendReceipt,
                SendToRecipient, GetOffline, tables, history
  <2> QED BY <1>1, <2>4, <2>5, <2>6, <2>7, <2>8 DEF MessageStep
<1>2. ASSUME NEW w \in Workers, MobileStep(w) \/ StartHandler(w) PROVE P
  BY <1>2 DEF MobileStep, CheckUser, LoginUpdate, LoginCount, LogoutCover, LogoutUpdate,
              MobileUpdate, SendReply, StartHandler, tables, history
<1>3. ASSUME NEW w \in Workers, Request(w) PROVE P
  BY <1>3 DEF Request, SubmitMessage, SubmitReceipt, SubmitMobile, AccessToLogic, tables
<1>4. CASE QosStep
  <2>1. CASE QosGetConnection \/ QosSelect \/ QosCover \/ QosSend \/ QosEndRound \/ QosWake
    BY <2>1 DEF QosGetConnection, QosSelect, QosCover, QosSend, QosEndRound, QosWake,
                tables, history
  <2>2. ASSUME NEW row \in qos.rows, QosUpdate(row) PROVE P
    BY <2>2 DEF QosUpdate
  <2> QED BY <1>4, <2>1, <2>2 DEF QosStep
<1>5. CASE Tick \/ Crash \/ Restart \/ \E w \in Workers : Abort(w)
  BY <1>5 DEF Tick, Crash, Restart, Abort, Die, tables, history
<1>6. ASSUME NEW w \in Workers, Request(w) \/ WorkerStep(w) \/ Abort(w) PROVE P
  BY <1>1, <1>2, <1>3, <1>5, <1>6, Zenon DEF WorkerStep
<1> QED BY <1>4, <1>5, <1>6, Zenon DEF Next

\* Custody is never given up: a row leaves the table only when its recipient has
\* sent a receipt, and the archive only grows.
LEMMA StepKeeps ==
  ASSUME TypeOK, CustodyInv, Next
  PROVE  Kept
<1>1. receipted \subseteq receipted'
  BY Writers
<1>2. \A row : InStore(row) => InStoreNext(row)
  <2>1. CASE UNCHANGED message_store
    BY <2>1 DEF InStore, InStoreNext
  <2>2. CASE \E row \in StoreRow : message_store' = Append(message_store, row)
    <3>1. PICK new \in StoreRow : message_store' = Append(message_store, new)
      BY <2>2
    <3>2. message_store \in Seq(StoreRow)
      BY DEF TypeOK, TablesOK
    <3>3. /\ Len(message_store) \in Nat
          /\ DOMAIN message_store = 1 .. Len(message_store)
          /\ DOMAIN message_store' = 1 .. Len(message_store) + 1
          /\ \A i \in 1 .. Len(message_store) : message_store'[i] = message_store[i]
      BY <3>1, <3>2, LenProperties
    <3> QED BY <3>3 DEF InStore, InStoreNext
  <2> QED BY <2>1, <2>2, Writers
<1>3. /\ CachedKeys \subseteq Held'
      /\ \A row \in message_cache :
           row.rid \in {r.rid : r \in message_cache'} \/ RowKey(row) \in receipted'
  <2>1. CASE UNCHANGED message_cache
    BY <2>1 DEF CachedKeys, Held
  <2>2. ASSUME NEW w \in Workers, InsertOfflineMessage(w)
        PROVE  <1>3!1 /\ <1>3!2
    BY <2>2 DEF InsertOfflineMessage, CachedKeys, Held
  <2>3. ASSUME NEW w \in Workers, DeleteOffline(w)
        PROVE  <1>3!1 /\ <1>3!2
    <3>1. ReceiptKey(loc[w].head) \in receipted
      BY <2>3 DEF CustodyInv, RightHandler, Ensured, DeleteOffline
    <3>2. \A row \in message_cache : row \in message_cache' \/ RowKey(row) \in receipted
      BY <2>3, <3>1 DEF DeleteOffline, DeleteOfflineMessage, RowsOf
    <3> QED BY <3>2, <1>1 DEF CachedKeys, Held
  <2>4. ASSUME NEW row \in qos.rows, QosUpdate(row)
        PROVE  <1>3!1 /\ <1>3!2
    <3>1. \A s \in message_cache : \E r \in message_cache' : r.rid = s.rid /\ RowKey(r) = RowKey(s)
      <4>1. CASE message_cache' = UpdateRetry(message_cache, row, qos.now, msg_interval)
        <5> SUFFICES ASSUME NEW s \in message_cache
                     PROVE  \E r \in message_cache' : r.rid = s.rid /\ RowKey(r) = RowKey(s)
          OBVIOUS
        <5> DEFINE r == IF RowKey(s) = RowKey(row)
                        THEN [s EXCEPT !.retry_num = row.retry_num + 1,
                                       !.retry_time = qos.now + (row.retry_num + 1) * msg_interval]
                        ELSE s
        <5>1. r \in message_cache'
          BY <4>1 DEF UpdateRetry
        <5>2. s \in CacheRow
          BY DEF TypeOK, TablesOK
        <5>3. r.rid = s.rid /\ RowKey(r) = RowKey(s)
          BY <5>2 DEF CacheRow, RowKey
        <5> QED BY <5>1, <5>3
      <4>2. CASE UNCHANGED message_cache
        BY <4>2
      <4> QED BY <2>4, <4>1, <4>2 DEF QosUpdate
    <3> QED BY <3>1 DEF CachedKeys, Held
  <2> QED BY <2>1, <2>2, <2>3, <2>4, Writers
<1> QED BY <1>1, <1>2, <1>3 DEF Kept, Held

-----------------------------------------------------------------------------
(* What the threads have made sure of stays true.                          *)

\* A thread that does not move keeps what it has made sure of.
LEMMA Bystander ==
  ASSUME Kept, NEW v \in Workers, RightHandler(v), Ensured(v),
         pc'[v] = pc[v], loc'[v] = loc[v]
  PROVE  RightHandler(v)' /\ Ensured(v)'
<1>1. RightHandler(v)'
  BY DEF RightHandler
<1>2. Ensured(v)'
  <2>1. Stored(loc[v].head) => \E i \in DOMAIN message_store' :
                                  message_store'[i] = StoreRowOfHead(loc[v].head)
    BY DEF Kept, Stored, InStore, InStoreNext
  <2> QED BY <2>1 DEF Ensured, Kept, Stored
<1> QED BY <1>1, <1>2

\* An idle worker has nothing to be sure of.
LEMMA IdleEnsured ==
  ASSUME NEW w \in Workers, pc'[w] = "idle", loc'[w] = NoLocals
  PROVE  RightHandler(w)' /\ Ensured(w)'
BY DEF RightHandler, Ensured, NoLocals, NoReply, SENDER_RECEIPT

\* The steps of the message handlers.
LEMMA MessageCustody ==
  ASSUME TypeOK, CustodyInv, Kept, NEW w \in Workers, MessageStep(w)
  PROVE  \A v \in Workers : RightHandler(v)' /\ Ensured(v)'
<1>o. RightHandler(w) /\ Ensured(w) /\ ThreadsOK
  BY DEF CustodyInv, TypeOK
<1>b. ASSUME \A v \in Workers : v # w => pc'[v] = pc[v] /\ loc'[v] = loc[v],
             RightHandler(w)' /\ Ensured(w)'
      PROVE  \A v \in Workers : RightHandler(v)' /\ Ensured(v)'
  BY <1>b, Bystander DEF CustodyInv
<1>r. ASSUME Return(w)
      PROVE  \A v \in Workers : RightHandler(v)' /\ Ensured(v)'
  BY <1>r, <1>o, <1>b, ReturnFacts, IdleEnsured
\* A jump to a statement or a send of the same handler.
<1>k. ASSUME NEW label, Goto(w, label), loc'[w].head = loc[w].head,
             loc'[w].reply = loc[w].reply \/ loc'[w].reply.receipt_type # SENDER_RECEIPT,
             \A v \in Workers : v # w => loc'[v] = loc[v],
             \/ label \in {"SimpleCover", "SendMessage"} /\ loc[w].head.type = SIMPLE_MESSAGE
                /\ InStoreNext(StoreRowOfHead(loc[w].head))
             \/ label \in {"CoverTo", "CoverFrom", "SendReceipt", "SendMessage"}
                /\ loc[w].head.type = COMPLETE_MESSAGE
                /\ HeadKey(loc[w].head) \in Held'
      PROVE  \A v \in Workers : RightHandler(v)' /\ Ensured(v)'
  <2>1. pc'[w] = label /\ \A v \in Workers : v # w => pc'[v] = pc[v]
    BY <1>k, <1>o, JumpFacts
  <2>2. RightHandler(w)'
    BY <1>k, <1>o, <2>1 DEF RightHandler, SIMPLE_MESSAGE, COMPLETE_MESSAGE
  <2>3. Ensured(w)'
    BY <1>k, <2>1 DEF Ensured, Stored, InStoreNext, SIMPLE_MESSAGE, COMPLETE_MESSAGE, RECEIPTE
  <2> QED BY <1>k, <2>1, <2>2, <2>3, <1>b
<1>1. CASE InsertStoreMessage(w)
  <2>1. CASE /\ message_store' = Append(message_store, StoreRowOfHead(loc[w].head))
             /\ Goto(w, "SimpleCover") /\ UNCHANGED loc
    <3>1. loc[w].head.type = SIMPLE_MESSAGE
      BY <1>1, <1>o DEF InsertStoreMessage, RightHandler
    <3>2. InStoreNext(StoreRowOfHead(loc[w].head))
      <4>1. message_store \in Seq(StoreRow) /\ Len(message_store) \in Nat
        BY LenProperties DEF TypeOK, TablesOK
      <4>2. StoreRowOfHead(loc[w].head) \in StoreRow
        BY DEF TypeOK, ThreadsOK, LocalsOK, StoreRowOfHead, ControlHead, StoreRow
      <4>3. /\ Len(message_store) + 1 \in DOMAIN message_store'
            /\ message_store'[Len(message_store) + 1] = StoreRowOfHead(loc[w].head)
        BY <2>1, <4>1, <4>2
      <4> QED BY <4>3 DEF InStoreNext
    <3> QED BY <2>1, <3>1, <3>2, <1>k
  <2> QED BY <1>1, <2>1, <1>r DEF InsertStoreMessage
<1>2. CASE SimpleCover(w)
  <2> DEFINE sates == GetSateCover(sate_cover, loc[w].head.to_id)
  <2>1. CASE loc' = [loc EXCEPT ![w].sates = sates] /\ Goto(w, "SendMessage")
    <3>1. /\ loc'[w].head = loc[w].head
          /\ \A v \in Workers : v # w => loc'[v] = loc[v]
      BY <2>1, <1>o, AssignFacts
    <3>2. loc'[w].reply = loc[w].reply
      BY <2>1, <1>o DEF ThreadsOK, LocalsOK
    <3>3. /\ loc[w].head.type = SIMPLE_MESSAGE
          /\ InStoreNext(StoreRowOfHead(loc[w].head))
      BY <1>2, <1>o DEF SimpleCover, RightHandler, Ensured, Kept, Stored, InStore
    <3> QED BY <2>1, <3>1, <3>2, <3>3, <1>k
  <2> QED BY <1>2, <2>1, <1>r DEF SimpleCover
<1>3. CASE InsertOfflineMessage(w)
  <2>1. loc[w].head.type = COMPLETE_MESSAGE
    BY <1>3, <1>o DEF InsertOfflineMessage, RightHandler
  <2>2. HeadKey(loc[w].head) \in Held'
    <3> DEFINE row == OfflineRow(loc[w].head, Len(picked) + 1, clock)
    <3>1. row \in message_cache' /\ RowKey(row) = HeadKey(loc[w].head)
      BY <1>3 DEF InsertOfflineMessage, OfflineRow, RowKey, HeadKey, Key
    <3> HIDE DEF row
    <3> QED BY <3>1 DEF Held, CachedKeys
  <2> QED BY <1>3, <2>1, <2>2, <1>k DEF InsertOfflineMessage
<1>4. CASE InsertOfflineFails(w)
  BY <1>4, <1>r DEF InsertOfflineFails
<1>5. ASSUME CoverTo(w) \/ CoverFrom(w)
      PROVE  \A v \in Workers : RightHandler(v)' /\ Ensured(v)'
  <2>1. ASSUME NEW x, NEW label \in {"CoverFrom", "SendReceipt"}, Goto(w, label),
               \/ loc' = [loc EXCEPT ![w].sates = x]
               \/ loc' = [loc EXCEPT ![w].sates_from = x]
               \/ UNCHANGED loc
        PROVE  \A v \in Workers : RightHandler(v)' /\ Ensured(v)'
    <3>1. /\ loc'[w].head = loc[w].head
          /\ \A v \in Workers : v # w => loc'[v] = loc[v]
      BY <2>1, <1>o, AssignFacts
    <3>2. loc'[w].reply = loc[w].reply
      BY <2>1, <1>o DEF ThreadsOK, LocalsOK
    <3>3. loc[w].head.type = COMPLETE_MESSAGE /\ HeadKey(loc[w].head) \in Held'
      BY <1>5, <1>o DEF CoverTo, CoverFrom, RightHandler, Ensured, Kept
    <3> QED BY <2>1, <3>1, <3>2, <3>3, <1>k
  <2> QED BY <1>5, <2>1 DEF CoverTo, CoverFrom
<1>6. CASE SendReceipt(w)
  <2>1. loc[w].head.type = COMPLETE_MESSAGE /\ HeadKey(loc[w].head) \in Held'
    BY <1>6, <1>o DEF SendReceipt, RightHandler, Ensured, Kept
  <2> QED BY <1>6, <2>1, <1>k, <1>r DEF SendReceipt
<1>7. CASE SendToRecipient(w)
  BY <1>7, <1>r DEF SendToRecipient
<1>8. CASE GetOffline(w)
  <2>1. ASSUME NEW item \in GetOfflineMessage(message_cache, ReceiptKey(loc[w].head)),
               loc' = [loc EXCEPT ![w].item = item], Goto(w, "DeleteOfflineMessage")
        PROVE  \A v \in Workers : RightHandler(v)' /\ Ensured(v)'
    <3>1. /\ loc'[w].head = loc[w].head
          /\ \A v \in Workers : v # w => loc'[v] = loc[v]
      BY <2>1, <1>o, AssignFacts
    <3>2. loc'[w].reply = loc[w].reply /\ loc'[w].item = item
      BY <2>1, <1>o DEF ThreadsOK, LocalsOK
    <3>3. item.from_id = Uninit \/ ItemKey(item) = ReceiptKey(loc[w].head)
      BY <2>1 DEF GetOfflineMessage, RowsOf, UnfilledItem, ItemOf, ItemKey, RowKey, Key
    <3>4. pc'[w] = "DeleteOfflineMessage" /\ \A v \in Workers : v # w => pc'[v] = pc[v]
      BY <2>1, <1>o, JumpFacts
    <3>5. loc[w].head.type = RECEIPTE /\ ReceiptKey(loc[w].head) \in receipted'
      BY <1>8, <1>o DEF GetOffline, RightHandler, Ensured, Kept
    <3>6. RightHandler(w)' /\ Ensured(w)'
      BY <3>1, <3>2, <3>3, <3>4, <3>5, <1>o
      DEF RightHandler, Ensured, RECEIPTE, COMPLETE_MESSAGE, SIMPLE_MESSAGE
    <3> QED BY <3>1, <3>4, <3>6, <1>b
  <2> QED BY <1>8, <2>1, <1>r DEF GetOffline
<1>9. CASE DeleteOffline(w)
  <2>1. pc'[w] = "ArchiveMessage" /\ \A v \in Workers : v # w => pc'[v] = pc[v]
    BY <1>9, <1>o, JumpFacts DEF DeleteOffline
  <2>2. RightHandler(w)' /\ Ensured(w)'
    BY <1>9, <2>1, <1>o
    DEF DeleteOffline, RightHandler, Ensured, Kept, RECEIPTE, COMPLETE_MESSAGE, SIMPLE_MESSAGE
  <2> QED BY <1>9, <2>1, <2>2, <1>b DEF DeleteOffline
<1>10. CASE ArchiveMessage(w)
  BY <1>10, <1>r DEF ArchiveMessage
<1> QED BY <1>1, <1>2, <1>3, <1>4, <1>5, <1>6, <1>7, <1>8, <1>9, <1>10 DEF MessageStep

\* The steps of the mobility handlers.
LEMMA MobileCustody ==
  ASSUME TypeOK, CustodyInv, Kept, NEW w \in Workers, MobileStep(w)
  PROVE  \A v \in Workers : RightHandler(v)' /\ Ensured(v)'
<1>o. RightHandler(w) /\ Ensured(w) /\ ThreadsOK
  BY DEF CustodyInv, TypeOK
<1>b. ASSUME \A v \in Workers : v # w => pc'[v] = pc[v] /\ loc'[v] = loc[v],
             RightHandler(w)' /\ Ensured(w)'
      PROVE  \A v \in Workers : RightHandler(v)' /\ Ensured(v)'
  BY <1>b, Bystander DEF CustodyInv
<1>1. CASE SendReply(w)
  BY <1>1, <1>o, <1>b, ReturnFacts, IdleEnsured DEF SendReply
<1>2. CASE ~SendReply(w)
  <2>1. PICK label \in {"LoginUpdate", "GetOfflineMessageNum", "LogoutUpdate", "SendReply"} :
          Goto(w, label)
    BY <1>2 DEF MobileStep, CheckUser, LoginUpdate, LoginCount, LogoutCover, LogoutUpdate,
                MobileUpdate, Answer
  <2>2. /\ loc'[w].head = loc[w].head
        /\ loc'[w].reply = loc[w].reply \/ loc'[w].reply.receipt_type # SENDER_RECEIPT
        /\ \A v \in Workers : v # w => loc'[v] = loc[v]
    <3>1. ASSUME NEW receipt_type \in {LOGIN_OK, LOGIN_FAILED, LOGOUT_DONE, MOBILE_DONE},
                 NEW receipt_indicate, Reply(w, receipt_type, receipt_indicate)
          PROVE  <2>2!1 /\ <2>2!2 /\ <2>2!3
      <4>1. loc'[w].reply = [receipt_type |-> receipt_type, receipt_indicate |-> receipt_indicate]
        BY <3>1, <1>o DEF Reply, ThreadsOK, LocalsOK
      <4>2. receipt_type # SENDER_RECEIPT
        BY DEF LOGIN_OK, LOGIN_FAILED, LOGOUT_DONE, MOBILE_DONE, SENDER_RECEIPT
      <4> QED BY <3>1, <4>1, <4>2, <1>o, AssignFacts DEF Reply
    <3>2. CASE UNCHANGED loc
      BY <3>2
    <3>3. ASSUME NEW x, loc' = [loc EXCEPT ![w].sates = x,
                          ![w].reply = [receipt_type |-> LOGOUT_DONE, receipt_indicate |-> 0]]
          PROVE  <2>2!1 /\ <2>2!2 /\ <2>2!3
      <4>1. /\ loc'[w].reply = [receipt_type |-> LOGOUT_DONE, receipt_indicate |-> 0]
            /\ loc'[w].head = loc[w].head
            /\ \A v \in Workers : v # w => loc'[v] = loc[v]
        <5> DEFINE r == [receipt_type |-> LOGOUT_DONE, receipt_indicate |-> 0]
        <5>1. loc' = [loc EXCEPT ![w] = [[loc[w] EXCEPT !.sates = x] EXCEPT !.reply = r]]
          BY <3>3, <1>o DEF ThreadsOK
        <5>2. loc = [v \in Workers |-> loc[v]] /\ LocalsOK(loc[w])
          BY <1>o DEF ThreadsOK
        <5>3. loc'[w] = [[loc[w] EXCEPT !.sates = x] EXCEPT !.reply = r]
              /\ \A v \in Workers : v # w => loc'[v] = loc[v]
          BY <5>1, <5>2
        <5>4. \A l : LocalsOK(l) =>
                /\ [[l EXCEPT !.sates = x] EXCEPT !.reply = r].head = l.head
                /\ [[l EXCEPT !.sates = x] EXCEPT !.reply = r].reply = r
          BY DEF LocalsOK
        <5> QED BY <5>2, <5>3, <5>4
      <4> QED BY <4>1 DEF LOGOUT_DONE, SENDER_RECEIPT
    <3> QED BY <1>2, <3>1, <3>2, <3>3
        DEF MobileStep, CheckUser, LoginUpdate, LoginCount, LogoutCover, LogoutUpdate, MobileUpdate
  <2>3. pc'[w] = label /\ \A v \in Workers : v # w => pc'[v] = pc[v]
    BY <2>1, <1>o, JumpFacts
  <2>4. RightHandler(w)'
    BY <2>2, <2>3, <1>o DEF RightHandler
  <2>5. Ensured(w)'
    <3>1. pc[w] # "idle"
      BY <1>2 DEF MobileStep, CheckUser, LoginUpdate, LoginCount, LogoutCover, LogoutUpdate,
                  MobileUpdate
    <3> QED BY <2>2, <2>3, <3>1, <1>o DEF Ensured, Kept
  <2> QED BY <2>2, <2>3, <2>4, <2>5, <1>b
<1> QED BY <1>1, <1>2

\* The start of a handler and the requests.
LEMMA RequestCustody ==
  ASSUME TypeOK, CustodyInv, Kept, NEW w \in Workers, StartHandler(w) \/ Request(w)
  PROVE  \A v \in Workers : RightHandler(v)' /\ Ensured(v)'
<1>o. RightHandler(w) /\ Ensured(w) /\ ThreadsOK
  BY DEF CustodyInv, TypeOK
<1>b. ASSUME \A v \in Workers : v # w => pc'[v] = pc[v] /\ loc'[v] = loc[v],
             RightHandler(w)' /\ Ensured(w)'
      PROVE  \A v \in Workers : RightHandler(v)' /\ Ensured(v)'
  BY <1>b, Bystander DEF CustodyInv
<1>t. Login = 0 /\ Logout = 2 /\ MOBILE_MANAGER_REQUEST = 3 /\ SIMPLE_MESSAGE = 64
      /\ COMPLETE_MESSAGE = 96 /\ RECEIPTE = 128 /\ SENDER_RECEIPT = 80
  BY DEF Login, Logout, MOBILE_MANAGER_REQUEST, SIMPLE_MESSAGE, COMPLETE_MESSAGE, RECEIPTE,
         SENDER_RECEIPT
<1>1. CASE StartHandler(w)
  <2> DEFINE head == loc[w].head
             label == FirstStep(head)
  <2>1. ~Ignored(head) /\ pc[w] # "idle"
    BY <1>1, <1>o DEF StartHandler, RightHandler
  <2>2. pc'[w] = label /\ UNCHANGED loc /\ \A v \in Workers : v # w => pc'[v] = pc[v]
    BY <1>1, <1>o, JumpFacts DEF StartHandler
  <2>3. \/ head.type \in {Login, Logout, MOBILE_MANAGER_REQUEST}
           /\ label \in {"IsExistUser", "LogoutCover", "MobileUpdate"}
        \/ head.type = SIMPLE_MESSAGE /\ label = "InsertStoreMessage"
        \/ head.type = COMPLETE_MESSAGE /\ label = "InsertOfflineMessage"
        \/ head.type = RECEIPTE /\ label = "GetOfflineMessage"
    BY <2>1, <1>t DEF FirstStep, Ignored
  <2> HIDE DEF label
  <2>4. RightHandler(w)'
    BY <2>2, <2>3, <1>o DEF RightHandler
  <2>5. Ensured(w)'
    BY <2>1, <2>2, <2>3, <1>o DEF Ensured, Kept
  <2> QED BY <2>2, <2>4, <2>5, <1>b
<1>2. ASSUME NEW head, AccessToLogic(w, head),
             ~Ignored(head) /\ head.type = RECEIPTE => ReceiptKey(head) \in receipted'
      PROVE  \A v \in Workers : RightHandler(v)' /\ Ensured(v)'
  <2>1. CASE UNCHANGED threads
    BY <2>1, <1>o, <1>b, Bystander DEF threads
  <2>2. CASE ~Ignored(head) /\ Goto(w, "GetConnection") /\ loc' = [loc EXCEPT ![w].head = head]
    <3>1. /\ loc'[w].head = head /\ loc'[w].reply = loc[w].reply
          /\ \A v \in Workers : v # w => loc'[v] = loc[v]
      BY <2>2, <1>o DEF ThreadsOK, LocalsOK
    <3>2. pc'[w] = "GetConnection" /\ \A v \in Workers : v # w => pc'[v] = pc[v]
      BY <2>2, <1>o, JumpFacts
    <3>3. RightHandler(w)'
      BY <2>2, <3>1, <3>2, <1>o DEF RightHandler
    <3>4. Ensured(w)'
      BY <1>2, <2>2, <3>1, <3>2 DEF Ensured
    <3> QED BY <3>1, <3>2, <3>3, <3>4, <1>b
  <2> QED BY <1>2, <2>1, <2>2 DEF AccessToLogic
<1>3. ASSUME NEW m \in Messages, SubmitMessage(w, m)
      PROVE  \A v \in Workers : RightHandler(v)' /\ Ensured(v)'
  <2>1. ~Ignored(MessageHead(m)) => MessageHead(m).type # RECEIPTE
    BY <1>t DEF MessageHead, Ignored, NoAck
  <2> QED BY <1>3, <2>1, <1>2 DEF SubmitMessage
<1>4. ASSUME NEW a \in air, NEW receipt_type, SubmitReceipt(w, a, receipt_type)
      PROVE  \A v \in Workers : RightHandler(v)' /\ Ensured(v)'
  <2>1. ~Ignored(ReceiptHead(a.content, receipt_type)) => receipt_type = COMPLETE_MESSAGE
    BY DEF Ignored, ReceiptHead
  <2>2. ReceiptKey(ReceiptHead(a.content, receipt_type)) = ContentKey(a.content)
    BY DEF ReceiptKey, ReceiptHead, ContentKey, Key
  <2> QED BY <1>4, <2>1, <2>2, <1>2 DEF SubmitReceipt
<1>5. ASSUME NEW u, NEW type \in {Login, MOBILE_MANAGER_REQUEST, Logout}, NEW sates,
             SubmitMobile(w, u, type, sates)
      PROVE  \A v \in Workers : RightHandler(v)' /\ Ensured(v)'
  <2>1. MobileHead(u, type, sates).type # RECEIPTE
    BY <1>t DEF MobileHead
  <2> QED BY <1>5, <2>1, <1>2 DEF SubmitMobile
<1> QED BY <1>1, <1>3, <1>4, <1>5 DEF Request

-----------------------------------------------------------------------------
(* The daemon, the air and the archive.                                    *)

\* The daemon's copies stay copies of messages that are held.
LEMMA DaemonCustody ==
  ASSUME TypeOK, CustodyInv, Kept, Next
  PROVE  DaemonEnsured'
<1> DEFINE GoodRow(row) == row.type = COMPLETE_MESSAGE /\ RowKey(row) \in Held'
           GoodItem(item) == item.type = COMPLETE_MESSAGE /\ ItemKey(item) \in Held'
<1>1. /\ \A row \in message_cache : GoodRow(row)
      /\ \A row \in qos.rows : GoodRow(row)
      /\ \A i \in DOMAIN qos.messages : GoodItem(qos.messages[i])
  BY DEF CustodyInv, DaemonEnsured, Kept, Held, CachedKeys
<1>2. \A row \in message_cache' : row.type = COMPLETE_MESSAGE
  <2>1. CASE UNCHANGED message_cache
    BY <2>1, <1>1
  <2>2. ASSUME NEW w \in Workers, InsertOfflineMessage(w)
        PROVE  \A row \in message_cache' : row.type = COMPLETE_MESSAGE
    BY <2>2, <1>1 DEF InsertOfflineMessage, OfflineRow, CustodyInv, RightHandler
  <2>3. ASSUME NEW w \in Workers, DeleteOffline(w)
        PROVE  \A row \in message_cache' : row.type = COMPLETE_MESSAGE
    BY <2>3, <1>1 DEF DeleteOffline, DeleteOfflineMessage
  <2>4. ASSUME NEW row \in qos.rows, QosUpdate(row)
        PROVE  \A r \in message_cache' : r.type = COMPLETE_MESSAGE
    <3>1. row \in CacheRow /\ qos.now \in Nat /\ TablesOK
      BY DEF TypeOK, QosOK
    <3> QED BY <2>4, <3>1, <1>1, UpdateRetryType DEF QosUpdate
  <2> QED BY <2>1, <2>2, <2>3, <2>4, Writers
<1> HIDE DEF GoodRow, GoodItem
<1>3. /\ \A row \in qos'.rows : GoodRow(row)
      /\ \A i \in DOMAIN qos'.messages : GoodItem(qos'.messages[i])
  <2>q. /\ qos = [pc |-> qos.pc, rows |-> qos.rows, messages |-> qos.messages,
                  sates |-> qos.sates, now |-> qos.now]
        /\ qos.messages \in Seq(FilledItem)
    BY DEF TypeOK, QosOK
  <2>t. ASSUME qos.messages # <<>>
        PROVE  \A i \in DOMAIN Tail(qos.messages) : GoodItem(Tail(qos.messages)[i])
    <3>1. /\ Tail(qos.messages) \in Seq(FilledItem)
          /\ Len(Tail(qos.messages)) = Len(qos.messages) - 1
          /\ \A i \in 1 .. Len(Tail(qos.messages)) : Tail(qos.messages)[i] = qos.messages[i + 1]
      BY <2>t, <2>q, HeadTailProperties
    <3>2. /\ DOMAIN Tail(qos.messages) = 1 .. Len(Tail(qos.messages))
          /\ DOMAIN qos.messages = 1 .. Len(qos.messages) /\ Len(qos.messages) \in Nat
      BY <3>1, <2>q, LenProperties
    <3> QED BY <3>1, <3>2, <1>1
  <2>1. CASE UNCHANGED qos
    BY <2>1, <1>1
  <2>2. CASE QosGetConnection
    BY <2>2, <2>q, <1>1 DEF QosGetConnection
  <2>3. CASE QosSelect
    <3>1. DueRows(message_cache, max_retry_count, clock) \subseteq message_cache
      BY DEF DueRows
    <3>2. qos'.messages = qos.messages
          /\ (qos'.rows = DueRows(message_cache, max_retry_count, clock) \/ qos'.rows = qos.rows)
      BY <2>3, <2>q DEF QosSelect
    <3> QED BY <3>1, <3>2, <1>1
  <2>4. ASSUME NEW row \in qos.rows, QosUpdate(row)
        PROVE  <1>3!1 /\ <1>3!2
    <3>r. qos'.rows \subseteq qos.rows
      BY <2>4, <2>q DEF QosUpdate
    <3> SUFFICES ASSUME qos'.messages # qos.messages PROVE <1>3!1 /\ <1>3!2
      BY <3>r, <1>1
    <3>1. qos'.messages = Append(qos.messages, ItemOf(row)) /\ qos'.rows \subseteq qos.rows
      BY <2>4, <2>q DEF QosUpdate
    <3>2. GoodItem(ItemOf(row))
      BY <1>1 DEF GoodRow, GoodItem, ItemOf, ItemKey, RowKey, Key
    <3>3. ItemOf(row) \in FilledItem
      BY DEF TypeOK, QosOK, CacheRow, ItemOf, FilledItem
    <3>4. /\ Len(qos.messages) \in Nat
          /\ DOMAIN qos.messages = 1 .. Len(qos.messages)
          /\ DOMAIN qos'.messages = 1 .. Len(qos.messages) + 1
          /\ \A i \in 1 .. Len(qos.messages) : qos'.messages[i] = qos.messages[i]
          /\ qos'.messages[Len(qos.messages) + 1] = ItemOf(row)
      BY <3>1, <3>3, <2>q, LenProperties
    <3>5. \A i \in DOMAIN qos'.messages : i \in DOMAIN qos.messages \/ i = Len(qos.messages) + 1
      BY <3>4
    <3> QED BY <3>1, <3>2, <3>4, <3>5, <1>1
  <2>5. CASE QosCover
    <3>1. /\ qos'.messages = qos.messages \/ qos'.messages = Tail(qos.messages)
          /\ qos'.rows = qos.rows
      BY <2>5, <2>q DEF QosCover
    <3> QED BY <2>5, <3>1, <2>t, <1>1 DEF QosCover
  <2>6. CASE QosSend
    <3>1. qos'.messages = Tail(qos.messages) /\ qos'.rows = qos.rows
      BY <2>6, <2>q DEF QosSend
    <3>2. qos.messages # <<>>
      BY <2>6 DEF QosSend, TypeOK, QosOK
    <3> QED BY <3>1, <3>2, <2>t, <1>1
  <2>7. ASSUME qos'.rows = {}, qos'.messages = <<>> PROVE <1>3!1 /\ <1>3!2
    BY <2>7
  <2>8. CASE QosEndRound \/ QosWake \/ Crash \/ \E w \in Workers : Abort(w)
    <3>1. qos'.rows = {} /\ qos'.messages = <<>>
      BY <2>8 DEF QosEndRound, QosWake, Crash, Abort, Die, QosIdle
    <3> QED BY <3>1, <2>7
  <2>9. ASSUME NEW w \in Workers, Request(w) \/ WorkerStep(w) PROVE UNCHANGED qos
    BY <2>9 DEF Request, SubmitMessage, SubmitReceipt, SubmitMobile, AccessToLogic, WorkerStep,
      StartHandler, MessageStep, InsertStoreMessage, SimpleCover, InsertOfflineMessage,
      InsertOfflineFails, CoverTo, CoverFrom, SendReceipt, SendToRecipient, GetOffline,
      DeleteOffline, ArchiveMessage, MobileStep, CheckUser, LoginUpdate, LoginCount, LogoutCover,
      LogoutUpdate, MobileUpdate, SendReply
  <2>10. CASE Tick \/ Restart
    BY <2>10, <2>1 DEF Tick, Restart
  <2> QED BY <2>1, <2>2, <2>3, <2>4, <2>5, <2>6, <2>8, <2>9, <2>10 DEF Next, QosStep
<1> QED BY <1>2, <1>3 DEF DaemonEnsured, GoodRow, GoodItem

\* Frames on the air stay justified, and so is every frame that joins them.
LEMMA AirCustody ==
  ASSUME TypeOK, CustodyInv, Kept, Next
  PROVE  ReceiptImpliesCustody' /\ SentWasPersisted'
<1> DEFINE Good(a) ==
      /\ a.content.type = RECEIPTE /\ a.content.receipt_type = SENDER_RECEIPT =>
           \E key \in Held' : key[1] = a.uid /\ key[3] = a.content.frame_id
      /\ a.content.type = COMPLETE_MESSAGE => ContentKey(a.content) \in Held'
      /\ a.content.type = SIMPLE_MESSAGE => InStoreNext(StoreRowOfHead(a.content))
<1>t. SIMPLE_MESSAGE = 64 /\ COMPLETE_MESSAGE = 96 /\ RECEIPTE = 128
  BY DEF SIMPLE_MESSAGE, COMPLETE_MESSAGE, RECEIPTE
<1>1. \A a \in air : Good(a)
  BY DEF CustodyInv, ReceiptImpliesCustody, SentWasPersisted, Kept, InStore
<1>2. ASSUME NEW w \in Workers, SendReceipt(w)
      PROVE  \A a \in air' : Good(a)
  <2> DEFINE head == loc[w].head
             content == ResponseEncode(head.from_id, ServerId, head.frame_id, SENDER_RECEIPT, 0)
             frames == Frames(head.from_id, content, loc[w].sates_from, 10)
  <2>1. air' \subseteq air \cup frames
    BY <1>2 DEF SendReceipt, SendMessage
  <2>2. HeadKey(head) \in Held'
    BY <1>2 DEF SendReceipt, CustodyInv, RightHandler, Ensured, Kept
  <2>3. content.type = RECEIPTE /\ content.frame_id = head.frame_id
    BY DEF ResponseEncode
  <2>4. HeadKey(head)[1] = head.from_id /\ HeadKey(head)[3] = head.frame_id
    BY DEF HeadKey, Key
  <2>5. ASSUME NEW a \in frames PROVE Good(a)
    <3>1. a.uid = head.from_id /\ a.content = content
      BY FrameFields
    <3> HIDE DEF content
    <3> QED BY <3>1, <2>2, <2>3, <2>4, <1>t
  <2> QED BY <2>1, <2>5, <1>1
<1>3. ASSUME NEW w \in Workers, SendToRecipient(w)
      PROVE  \A a \in air' : Good(a)
  <2> DEFINE head == loc[w].head
             content == MessageEncode(head)
             frames == Frames(head.to_id, content, loc[w].sates, 5)
  <2>1. air' \subseteq air \cup frames
    BY <1>3 DEF SendToRecipient, SendMessage
  <2>2. /\ head.type = COMPLETE_MESSAGE => HeadKey(head) \in Held'
        /\ head.type = SIMPLE_MESSAGE => InStoreNext(StoreRowOfHead(head))
        /\ head.type \in {COMPLETE_MESSAGE, SIMPLE_MESSAGE}
    BY <1>3 DEF SendToRecipient, CustodyInv, RightHandler, Ensured, Kept, Stored, InStore
  <2>3. /\ content.type = head.type /\ ContentKey(content) = HeadKey(head)
        /\ StoreRowOfHead(content) = StoreRowOfHead(head)
    BY DEF MessageEncode, ContentKey, HeadKey, StoreRowOfHead
  <2>4. ASSUME NEW a \in frames PROVE Good(a)
    <3>1. a.content = content
      BY FrameFields
    <3> HIDE DEF content
    <3> QED BY <3>1, <2>2, <2>3, <1>t
  <2> QED BY <2>1, <2>4, <1>1
<1>4. ASSUME NEW w \in Workers, SendReply(w)
      PROVE  \A a \in air' : Good(a)
  <2> DEFINE head == loc[w].head
             reply == loc[w].reply
             content == ResponseEncode(head.from_id, head.to_id, head.frame_id,
                                       reply.receipt_type, reply.receipt_indicate)
             sates == IF head.type = Logout THEN loc[w].sates ELSE head.sates
             frames == Frames(head.from_id, content, sates, 10)
  <2>1. air' \subseteq air \cup frames
    BY <1>4 DEF SendReply, SendMessage
  <2>2. content.type = RECEIPTE /\ content.receipt_type # SENDER_RECEIPT
    BY DEF ResponseEncode, CustodyInv, RightHandler
  <2>3. ASSUME NEW a \in frames PROVE Good(a)
    <3>1. a.content = content
      BY FrameFields
    <3> HIDE DEF content
    <3> QED BY <3>1, <2>2, <1>t
  <2> QED BY <2>1, <2>3, <1>1
<1>5. ASSUME QosSend
      PROVE  \A a \in air' : Good(a)
  <2> DEFINE message == Head(qos.messages)
             content == MessageEncode(message)
             frames == Frames(message.to_id, content, qos.sates, 5)
  <2>1. air' \subseteq air \cup frames
    BY <1>5 DEF QosSend, SendMessage
  <2>2. message.type = COMPLETE_MESSAGE /\ ItemKey(message) \in Held'
    <3>1. qos.messages \in Seq(FilledItem) /\ qos.messages # <<>>
      BY <1>5 DEF QosSend, TypeOK, QosOK
    <3>2. 1 \in DOMAIN qos.messages /\ message = qos.messages[1]
      BY <3>1
    <3> QED BY <3>2 DEF CustodyInv, DaemonEnsured, Kept
  <2>3. content.type = message.type /\ ContentKey(content) = ItemKey(message)
    BY DEF MessageEncode, ContentKey, ItemKey
  <2>4. ASSUME NEW a \in frames PROVE Good(a)
    <3>1. a.content = content
      BY FrameFields
    <3> HIDE DEF content
    <3> QED BY <3>1, <2>2, <2>3, <1>t
  <2> QED BY <2>1, <2>4, <1>1
<1>6. ASSUME NEW w \in Workers, Request(w) \/ WorkerStep(w) \/ Abort(w),
             ~SendReceipt(w), ~SendToRecipient(w), ~SendReply(w)
      PROVE  UNCHANGED air
  BY <1>6 DEF Request, SubmitMessage, SubmitReceipt, SubmitMobile, AccessToLogic, WorkerStep,
      StartHandler, MessageStep, InsertStoreMessage, SimpleCover, InsertOfflineMessage,
      InsertOfflineFails, CoverTo, CoverFrom, GetOffline, DeleteOffline, ArchiveMessage,
      MobileStep, CheckUser, LoginUpdate, LoginCount, LogoutCover, LogoutUpdate, MobileUpdate,
      Abort, Die, history
<1>7. ASSUME QosStep, ~QosSend PROVE UNCHANGED air
  BY <1>7 DEF QosStep, QosGetConnection, QosSelect, QosUpdate, QosCover, QosEndRound, QosWake, history
<1>8. Tick \/ Crash \/ Restart => UNCHANGED air
  BY DEF Tick, Crash, Restart, Die, history
<1> HIDE DEF Good
<1>9. \A a \in air' : Good(a)
  <2>1. CASE UNCHANGED air
    BY <2>1, <1>1
  <2> QED BY <2>1, <1>2, <1>3, <1>4, <1>5, <1>6, <1>7, <1>8 DEF Next
<1> QED BY <1>9 DEF Good, ReceiptImpliesCustody, SentWasPersisted, InStoreNext

\* The archive receives complete messages only from ProcessReceipt.
LEMMA ArchiveCustody ==
  ASSUME TypeOK, CustodyInv, Kept, Next
  PROVE  ArchivedWasReceipted'
<1> DEFINE Good(row) == row.type = COMPLETE_MESSAGE /\ row.to_user # Uninit =>
                          Key(row.to_user, row.from_user, row.frame_id) \in receipted'
<1>1. \A i \in DOMAIN message_store : Good(message_store[i])
  BY DEF CustodyInv, ArchivedWasReceipted, Kept
<1>2. ASSUME NEW row \in StoreRow, Good(row), message_store' = Append(message_store, row)
      PROVE  ArchivedWasReceipted'
  <2>1. message_store \in Seq(StoreRow)
    BY DEF TypeOK, TablesOK
  <2>2. /\ Len(message_store) \in Nat
        /\ DOMAIN message_store = 1 .. Len(message_store)
        /\ DOMAIN message_store' = 1 .. Len(message_store) + 1
        /\ \A i \in 1 .. Len(message_store) : message_store'[i] = message_store[i]
        /\ message_store'[Len(message_store) + 1] = row
    BY <1>2, <2>1, LenProperties
  <2>3. \A i \in DOMAIN message_store' : i \in DOMAIN message_store \/ i = Len(message_store) + 1
    BY <2>2
  <2>4. \A i \in DOMAIN message_store' : Good(message_store'[i])
    BY <1>1, <1>2, <2>2, <2>3
  <2> QED BY <2>4 DEF ArchivedWasReceipted
<1>3. CASE UNCHANGED message_store
  BY <1>1, <1>3 DEF ArchivedWasReceipted
<1>4. ASSUME NEW w \in Workers, InsertStoreMessage(w)
      PROVE  ArchivedWasReceipted'
  <2>1. StoreRowOfHead(loc[w].head) \in StoreRow
    BY DEF TypeOK, ThreadsOK, LocalsOK, StoreRowOfHead, ControlHead, StoreRow
  <2>2. StoreRowOfHead(loc[w].head).type = SIMPLE_MESSAGE
    BY <1>4 DEF InsertStoreMessage, CustodyInv, RightHandler, StoreRowOfHead
  <2> QED BY <1>4, <2>1, <2>2, <1>2, <1>3 DEF InsertStoreMessage, SIMPLE_MESSAGE, COMPLETE_MESSAGE
<1>5. ASSUME NEW w \in Workers, ArchiveMessage(w)
      PROVE  ArchivedWasReceipted'
  <2> DEFINE row == StoreRowOfItem(loc[w].item)
  <2>1. row \in StoreRow
    BY <1>5 DEF ArchiveMessage, TypeOK, ThreadsOK, LocalsOK, ItemsChecked, StoreRowOfItem,
                MessageItem, StoreRow, COMPLETE_MESSAGE
  <2>2. Good(row)
    <3>1. ReceiptKey(loc[w].head) \in receipted'
      BY <1>5 DEF ArchiveMessage, CustodyInv, RightHandler, Ensured, Kept
    <3>2. loc[w].item.from_id = Uninit \/ ItemKey(loc[w].item) = ReceiptKey(loc[w].head)
      BY <1>5 DEF ArchiveMessage, CustodyInv, Ensured
    <3> QED BY <3>1, <3>2 DEF StoreRowOfItem, ItemKey
  <2> HIDE DEF row
  <2>3. message_store' = Append(message_store, row) \/ UNCHANGED message_store
    BY <1>5 DEF ArchiveMessage, row
  <2> QED BY <2>1, <2>2, <2>3, <1>2, <1>3
<1>6. ASSUME NEW w \in Workers, Request(w) \/ WorkerStep(w) \/ Abort(w),
             ~InsertStoreMessage(w), ~ArchiveMessage(w)
      PROVE  UNCHANGED message_store
  BY <1>6 DEF Request, SubmitMessage, SubmitReceipt, SubmitMobile, AccessToLogic, WorkerStep,
      StartHandler, MessageStep, SimpleCover, InsertOfflineMessage, InsertOfflineFails, CoverTo,
      CoverFrom, SendReceipt, SendToRecipient, GetOffline, DeleteOffline, MobileStep, CheckUser,
      LoginUpdate, LoginCount, LogoutCover, LogoutUpdate, MobileUpdate, SendReply, Abort, Die, tables
<1>7. QosStep \/ Tick \/ Crash \/ Restart => UNCHANGED message_store
  BY DEF QosStep, QosGetConnection, QosSelect, QosUpdate, QosCover, QosSend, QosEndRound, QosWake,
         Tick, Crash, Restart, Die, tables
<1> QED BY <1>3, <1>4, <1>5, <1>6, <1>7 DEF Next

-----------------------------------------------------------------------------
(* The theorems on custody.                                                *)

\* One step preserves the invariant.
LEMMA CustodyStep ==
  ASSUME TypeOK, CustodyInv, [Next]_vars
  PROVE  CustodyInv'
<1>1. CASE UNCHANGED vars
  BY <1>1 DEF vars, tables, pool, threads, history, env, CustodyInv, RightHandler, Ensured, Stored,
     DaemonEnsured, ReceiptImpliesCustody, SentWasPersisted, ArchivedWasReceipted, Held, CachedKeys
<1>2. CASE Next
  <2>1. Kept
    BY <1>2, StepKeeps
  <2>2. \A w \in Workers : RightHandler(w)' /\ Ensured(w)'
    <3>1. ASSUME NEW w \in Workers, Request(w) \/ WorkerStep(w)
          PROVE  \A v \in Workers : RightHandler(v)' /\ Ensured(v)'
      BY <3>1, <2>1, MessageCustody, MobileCustody, RequestCustody DEF WorkerStep
    <3>2. CASE UNCHANGED threads
      BY <3>2, <2>1, Bystander DEF threads, CustodyInv
    <3>3. CASE QosStep \/ Tick \/ Restart
      BY <3>3, <3>2 DEF QosStep, QosGetConnection, QosSelect, QosUpdate, QosCover, QosSend,
                        QosEndRound, QosWake, Tick, Restart
    <3>4. CASE Crash \/ \E w \in Workers : Abort(w)
      <4>1. \A w \in Workers : pc'[w] = "idle" /\ loc'[w] = NoLocals
        BY <3>4 DEF Crash, Abort, Die
      <4> QED BY <4>1, IdleEnsured
    <3> QED BY <1>2, <3>1, <3>3, <3>4 DEF Next
  <2> QED BY <1>2, <2>1, <2>2, DaemonCustody, AirCustody, ArchiveCustody DEF CustodyInv
<1> QED BY <1>1, <1>2

\* The invariant holds in every run.
THEOREM CustodyInvariant == Spec => []CustodyInv
<1>1. Init => CustodyInv
  BY DEF Init, CustodyInv, RightHandler, Ensured, DaemonEnsured, QosIdle, NoLocals, NoReply,
         ReceiptImpliesCustody, SentWasPersisted, ArchivedWasReceipted, SENDER_RECEIPT
<1>2. TypeOK /\ CustodyInv /\ [Next]_vars => CustodyInv'
  BY CustodyStep
<1> QED BY <1>1, <1>2, TypeCorrect, PTL DEF Spec

\* A sender that was sent the 0x50 receipt by ProcessCompleteMessage may forget its
\* message: the server has it in message_cache, or the recipient has sent a receipt.
THEOREM ReceiptMeansCustody == Spec => []ReceiptImpliesCustody
<1>1. CustodyInv => ReceiptImpliesCustody
  BY DEF CustodyInv
<1> QED BY <1>1, CustodyInvariant, PTL

\* Nothing goes out, first transmission or retransmission, that was not stored before.
THEOREM SendMeansPersisted == Spec => []SentWasPersisted
<1>1. CustodyInv => SentWasPersisted
  BY DEF CustodyInv
<1> QED BY <1>1, CustodyInvariant, PTL

\* ProcessReceipt archives a complete message only when its recipient has sent a receipt.
THEOREM ArchiveMeansReceipted == Spec => []ArchivedWasReceipted
<1>1. CustodyInv => ArchivedWasReceipted
  BY DEF CustodyInv
<1> QED BY <1>1, CustodyInvariant, PTL

\* A row leaves message_cache only when its recipient has sent a receipt.
THEOREM DeleteMeansReceipted == Spec => DeletesOnlyReceipted
<1> DEFINE A == \A row \in message_cache :
                  row.rid \in {r.rid : r \in message_cache'} \/ RowKey(row) \in receipted'
<1>1. TypeOK /\ CustodyInv /\ [Next]_vars => [A]_vars
  BY StepKeeps DEF Kept
<1> QED BY <1>1, TypeCorrect, CustodyInvariant, PTL DEF Spec, DeletesOnlyReceipted

-----------------------------------------------------------------------------
(* Where the messages come from.                                           *)

\* What a step does to the request a worker handles.
LEMMA HeadFacts ==
  ASSUME TypeOK, Next, NEW w \in Workers
  PROVE  \/ pc'[w] = "idle"
         \/ pc[w] # "idle" /\ loc'[w].head = loc[w].head
         \/ \E m \in Messages : loc'[w].head = MessageHead(m)
         \/ loc'[w].head.type # COMPLETE_MESSAGE
<1> DEFINE P(v) == \/ pc'[v] = "idle"
                   \/ pc[v] # "idle" /\ loc'[v].head = loc[v].head
                   \/ \E m \in Messages : loc'[v].head = MessageHead(m)
                   \/ loc'[v].head.type # COMPLETE_MESSAGE
<1>o. ThreadsOK
  BY DEF TypeOK
<1>s. ASSUME NEW v \in Workers, pc'[v] = pc[v], loc'[v] = loc[v] PROVE P(v)
  BY <1>s
<1>r. ASSUME NEW v \in Workers, Return(v) PROVE P(w)
  BY <1>r, <1>o, <1>s, ReturnFacts
<1>g. ASSUME NEW v \in Workers, NEW label, Goto(v, label), NEW x, pc[v] # "idle",
             \/ loc' = [loc EXCEPT ![v].sates = x]
             \/ loc' = [loc EXCEPT ![v].sates_from = x]
             \/ loc' = [loc EXCEPT ![v].item = x]
             \/ loc' = [loc EXCEPT ![v].reply = x]
             \/ UNCHANGED loc
      PROVE  P(w)
  BY <1>g, <1>o, <1>s, JumpFacts, AssignFacts
<1> HIDE DEF P
<1>1. ASSUME NEW v \in Workers, MessageStep(v) PROVE P(w)
  <2>1. CASE InsertStoreMessage(v) \/ SimpleCover(v)
    BY <2>1, <1>r, <1>g DEF InsertStoreMessage, SimpleCover
  <2>2. CASE InsertOfflineMessage(v) \/ InsertOfflineFails(v) \/ CoverTo(v) \/ CoverFrom(v)
    BY <2>2, <1>r, <1>g DEF InsertOfflineMessage, InsertOfflineFails, CoverTo, CoverFrom
  <2>3. CASE SendReceipt(v) \/ SendToRecipient(v)
    BY <2>3, <1>r, <1>g DEF SendReceipt, SendToRecipient
  <2>4. CASE GetOffline(v) \/ DeleteOffline(v) \/ ArchiveMessage(v)
    BY <2>4, <1>r, <1>g DEF GetOffline, DeleteOffline, ArchiveMessage
  <2> QED BY <1>1, <2>1, <2>2, <2>3, <2>4 DEF MessageStep
<1>2. ASSUME NEW v \in Workers, MobileStep(v) PROVE P(w)
  <2>1. CASE CheckUser(v) \/ LoginUpdate(v) \/ LoginCount(v)
    BY <2>1, <1>g DEF CheckUser, LoginUpdate, LoginCount, Reply, Answer
  <2>2. CASE LogoutUpdate(v) \/ MobileUpdate(v)
    BY <2>2, <1>g DEF LogoutUpdate, MobileUpdate, Reply, Answer
  <2>3. CASE SendReply(v)
    BY <2>3, <1>r DEF SendReply
  <2>4. CASE LogoutCover(v)
    <3>1. pc[v] # "idle" /\ Goto(v, "LogoutUpdate")
      BY <2>4 DEF LogoutCover
    <3>2. \A u \in Workers : u # v => pc'[u] = pc[u]
      BY <3>1, <1>o, JumpFacts
    <3>3. CASE Reply(v, LOGOUT_DONE, 0)
      BY <3>1, <3>3, <1>g DEF Reply
    <3>4. CASE loc' = [loc EXCEPT
                         ![v].sates = GetSateCover(sate_cover, loc[v].head.from_id),
                         ![v].reply = [receipt_type |-> LOGOUT_DONE, receipt_indicate |-> 0]]
      <4> DEFINE r == [receipt_type |-> LOGOUT_DONE, receipt_indicate |-> 0]
                 x == GetSateCover(sate_cover, loc[v].head.from_id)
      <4>1. loc = [u \in Workers |-> loc[u]] /\ LocalsOK(loc[v])
        BY <1>o DEF ThreadsOK
      <4>2. loc' = [loc EXCEPT ![v] = [[loc[v] EXCEPT !.sates = x] EXCEPT !.reply = r]]
        BY <3>4, <4>1
      <4>3. \A l : LocalsOK(l) => [[l EXCEPT !.sates = x] EXCEPT !.reply = r].head = l.head
        BY DEF LocalsOK
      <4>4. loc'[v].head = loc[v].head /\ \A u \in Workers : u # v => loc'[u] = loc[u]
        BY <4>1, <4>2, <4>3
      <4> QED BY <3>1, <3>2, <4>4, <1>s DEF P
    <3> QED BY <2>4, <3>3, <3>4 DEF LogoutCover
  <2> QED BY <1>2, <2>1, <2>2, <2>3, <2>4 DEF MobileStep
<1>3. ASSUME NEW v \in Workers, StartHandler(v) PROVE P(w)
  BY <1>3, <1>g DEF StartHandler
<1>4. ASSUME NEW v \in Workers, Request(v) PROVE P(w)
  <2>1. ASSUME NEW head, AccessToLogic(v, head),
               head.type # COMPLETE_MESSAGE \/ \E m \in Messages : head = MessageHead(m)
        PROVE  P(w)
    <3>1. CASE UNCHANGED threads
      BY <3>1, <1>s DEF threads
    <3>2. CASE Goto(v, "GetConnection") /\ loc' = [loc EXCEPT ![v].head = head]
      <4>1. loc'[v].head = head /\ \A u \in Workers : u # v => loc'[u] = loc[u]
        BY <3>2, <1>o DEF ThreadsOK, LocalsOK
      <4> QED BY <2>1, <3>2, <4>1, <1>o, <1>s, JumpFacts DEF P
    <3> QED BY <2>1, <3>1, <3>2 DEF AccessToLogic
  <2>2. ASSUME NEW m \in Messages, SubmitMessage(v, m) PROVE P(w)
    BY <2>1, <2>2 DEF SubmitMessage
  <2>3. ASSUME NEW a, NEW receipt_type, SubmitReceipt(v, a, receipt_type) PROVE P(w)
    BY <2>1, <2>3 DEF SubmitReceipt, ReceiptHead, RECEIPTE, COMPLETE_MESSAGE
  <2>4. ASSUME NEW u, NEW type \in {Login, MOBILE_MANAGER_REQUEST, Logout}, NEW sates,
               SubmitMobile(v, u, type, sates)
        PROVE  P(w)
    BY <2>1, <2>4 DEF SubmitMobile, MobileHead, Login, MOBILE_MANAGER_REQUEST, Logout,
                      COMPLETE_MESSAGE
  <2> QED BY <1>4, <2>2, <2>3, <2>4 DEF Request
<1>5. CASE QosStep \/ Tick \/ Restart
  <2>1. UNCHANGED threads
    BY <1>5 DEF QosStep, QosGetConnection, QosSelect, QosUpdate, QosCover, QosSend,
                QosEndRound, QosWake, Tick, Restart
  <2> QED BY <2>1, <1>s DEF threads, P
<1>6. CASE Crash \/ \E v \in Workers : Abort(v)
  BY <1>6 DEF Crash, Abort, Die, P
<1> QED BY <1>1, <1>2, <1>3, <1>4, <1>5, <1>6 DEF Next, WorkerStep, P

-----------------------------------------------------------------------------
(* What a step does to the keys of the cache.                              *)

\* The keys of the cache change in two statements only, and by one key.
LEMMA KeysStep ==
  ASSUME TypeOK, Next
  PROVE  \/ CachedKeys' = CachedKeys
         \/ \E w \in Workers : /\ InsertOfflineMessage(w)
                               /\ CachedKeys' = CachedKeys \cup {HeadKey(loc[w].head)}
         \/ \E w \in Workers : /\ DeleteOffline(w)
                               /\ CachedKeys' = CachedKeys \ {ReceiptKey(loc[w].head)}
<1>1. CASE UNCHANGED message_cache
  BY <1>1 DEF CachedKeys
<1>2. ASSUME NEW w \in Workers, InsertOfflineMessage(w)
      PROVE  CachedKeys' = CachedKeys \cup {HeadKey(loc[w].head)}
  <2> DEFINE new == OfflineRow(loc[w].head, Len(picked) + 1, clock)
  <2>1. message_cache' = message_cache \cup {new} /\ RowKey(new) = HeadKey(loc[w].head)
    BY <1>2 DEF InsertOfflineMessage, OfflineRow, RowKey, HeadKey, Key
  <2> HIDE DEF new
  <2> QED BY <2>1 DEF CachedKeys
<1>3. ASSUME NEW w \in Workers, DeleteOffline(w), ~UNCHANGED message_cache
      PROVE  CachedKeys' = CachedKeys \ {ReceiptKey(loc[w].head)}
  BY <1>3 DEF DeleteOffline, DeleteOfflineMessage, RowsOf, CachedKeys
<1>4. ASSUME NEW row \in qos.rows, QosUpdate(row)
      PROVE  CachedKeys' = CachedKeys
  <2>1. CASE message_cache' = UpdateRetry(message_cache, row, qos.now, msg_interval)
    <3> DEFINE Updated(s) ==
                 IF RowKey(s) = RowKey(row)
                 THEN [s EXCEPT !.retry_num = row.retry_num + 1,
                                !.retry_time = qos.now + (row.retry_num + 1) * msg_interval]
                 ELSE s
    <3>1. \A s \in CacheRow : RowKey(Updated(s)) = RowKey(s)
      BY DEF CacheRow, RowKey
    <3>2. message_cache' = {Updated(s) : s \in message_cache}
      BY <2>1 DEF UpdateRetry
    <3>3. message_cache \subseteq CacheRow
      BY DEF TypeOK, TablesOK
    <3>4. CachedKeys' = {RowKey(r) : r \in message_cache'}
      BY DEF CachedKeys
    <3> HIDE DEF Updated
    <3>5. \A k : k \in CachedKeys <=> \E s \in message_cache : k = RowKey(Updated(s))
      BY <3>1, <3>3 DEF CachedKeys
    <3>6. \A k : k \in CachedKeys' <=> \E s \in message_cache : k = RowKey(Updated(s))
      BY <3>2, <3>4, Zenon
    <3> QED BY <3>5, <3>6, Zenon
  <2>2. CASE UNCHANGED message_cache
    BY <2>2 DEF CachedKeys
  <2> QED BY <1>4, <2>1, <2>2 DEF QosUpdate
<1> QED BY <1>1, <1>2, <1>3, <1>4, Writers

\* A receipt is the only step that adds to receipted, and it answers a frame on the air.
LEMMA ReceiptStep ==
  ASSUME Next
  PROVE  \/ UNCHANGED receipted
         \/ \E a \in air : /\ a.content.type = COMPLETE_MESSAGE
                           /\ receipted' = receipted \cup {ContentKey(a.content)}
                           /\ UNCHANGED <<message_cache, air>>
<1> DEFINE P == \/ UNCHANGED receipted
                \/ \E a \in air : /\ a.content.type = COMPLETE_MESSAGE
                                  /\ receipted' = receipted \cup {ContentKey(a.content)}
                                  /\ UNCHANGED <<message_cache, air>>
<1>1. ASSUME NEW w \in Workers, Request(w) PROVE P
  <2>1. ASSUME NEW a \in air, NEW receipt_type, SubmitReceipt(w, a, receipt_type) PROVE P
    BY <2>1 DEF SubmitReceipt, AccessToLogic, tables
  <2>2. ASSUME NEW m \in Messages, SubmitMessage(w, m) PROVE P
    BY <2>2 DEF SubmitMessage
  <2>3. ASSUME NEW u, NEW type, NEW sates, SubmitMobile(w, u, type, sates) PROVE P
    BY <2>3 DEF SubmitMobile
  <2> HIDE DEF P
  <2> QED BY <1>1, <2>1, <2>2, <2>3 DEF Request
<1>2. ASSUME NEW w \in Workers, WorkerStep(w) \/ Abort(w) PROVE UNCHANGED receipted
  BY <1>2 DEF WorkerStep, StartHandler, MessageStep, InsertStoreMessage, SimpleCover,
      InsertOfflineMessage, InsertOfflineFails, CoverTo, CoverFrom, SendReceipt,
      SendToRecipient, GetOffline, DeleteOffline, ArchiveMessage, MobileStep, CheckUser,
      LoginUpdate, LoginCount, LogoutCover, LogoutUpdate, MobileUpdate, SendReply, Abort, Die,
      history
<1>3. CASE QosStep \/ Tick \/ Crash \/ Restart
  BY <1>3 DEF QosStep, QosGetConnection, QosSelect, QosUpdate, QosCover, QosSend, QosEndRound,
     QosWake, Tick, Crash, Restart, Die, history
<1> QED BY <1>1, <1>2, <1>3 DEF Next

\* No step invents a message.
LEMMA InventStep ==
  ASSUME TypeOK, CustodyInv, NothingInvented, [Next]_vars
  PROVE  NothingInvented'
<1>1. CASE UNCHANGED vars
  BY <1>1 DEF vars, tables, threads, history, NothingInvented, Held, CachedKeys
<1>2. CASE Next
  <2>1. receipted' \subseteq MessageKeys
    BY <1>2, ReceiptStep DEF NothingInvented, CustodyInv, SentWasPersisted, Held
  <2>2. CachedKeys' \subseteq MessageKeys
    <3>1. ASSUME NEW w \in Workers, InsertOfflineMessage(w)
          PROVE  HeadKey(loc[w].head) \in MessageKeys
      BY <3>1 DEF InsertOfflineMessage, NothingInvented, CustodyInv, RightHandler
    <3> QED BY <1>2, <3>1, KeysStep DEF NothingInvented, Held
  <2>3. ASSUME NEW w \in Workers, pc'[w] # "idle", loc'[w].head.type = COMPLETE_MESSAGE
        PROVE  HeadKey(loc'[w].head) \in MessageKeys
    <3>1. \A m \in Messages : HeadKey(MessageHead(m)) \in MessageKeys
      BY DEF MessageHead, HeadKey, MessageKeys
    <3> QED BY <1>2, <2>3, <3>1, HeadFacts DEF NothingInvented
  <2> QED BY <2>1, <2>2, <2>3 DEF NothingInvented, Held
<1> QED BY <1>1, <1>2

\* Every complete message the server holds, handles or has had answered was
\* submitted by a terminal.
THEOREM MessagesAreSubmitted == Spec => []NothingInvented
<1>1. Init => NothingInvented
  BY DEF Init, NothingInvented, Held, CachedKeys
<1>2. TypeOK /\ CustodyInv /\ NothingInvented /\ [Next]_vars => NothingInvented'
  BY InventStep
<1> QED BY <1>1, <1>2, TypeCorrect, CustodyInvariant, PTL DEF Spec

-----------------------------------------------------------------------------
(* The refinement.                                                         *)

\* What a successful SendMessage adds to the promises and to the deliveries.
LEMMA AirStep ==
  ASSUME NEW user_id, NEW content, NEW sates, NEW level,
         SendMessage(user_id, content, sates, level)
  PROVE  \/ UNCHANGED air
         \/ /\ content.type \notin {RECEIPTE, COMPLETE_MESSAGE}
            /\ PromisedFrames' = PromisedFrames /\ DeliveredKeys' = DeliveredKeys
         \/ /\ content.type = RECEIPTE /\ content.receipt_type # SENDER_RECEIPT
            /\ PromisedFrames' = PromisedFrames /\ DeliveredKeys' = DeliveredKeys
         \/ /\ content.type = RECEIPTE /\ content.receipt_type = SENDER_RECEIPT
            /\ PromisedFrames' = PromisedFrames \cup {<<user_id, content.frame_id>>}
            /\ DeliveredKeys' = DeliveredKeys
         \/ /\ content.type = COMPLETE_MESSAGE
            /\ PromisedFrames' = PromisedFrames
            /\ DeliveredKeys' = DeliveredKeys \cup {ContentKey(content)}
<1> DEFINE frames == Frames(user_id, content, sates, level)
<1>1. CASE UNCHANGED air
  BY <1>1
<1>2. CASE frames # {} /\ air' = air \cup frames
  <2>t. RECEIPTE # COMPLETE_MESSAGE
    BY DEF RECEIPTE, COMPLETE_MESSAGE
  <2>1. \A a \in frames : a.uid = user_id /\ a.content = content
    BY FrameFields
  <2> HIDE DEF frames
  <2>2. PICK b \in frames : b.uid = user_id /\ b.content = content
    BY <1>2, <2>1
  <2>3. CASE content.type = RECEIPTE /\ content.receipt_type = SENDER_RECEIPT
    <3>1. PromisedFrames' = PromisedFrames \cup {<<user_id, content.frame_id>>}
      BY <1>2, <2>1, <2>2, <2>3 DEF PromisedFrames
    <3>2. DeliveredKeys' = DeliveredKeys
      BY <1>2, <2>1, <2>3, <2>t DEF DeliveredKeys
    <3> QED BY <2>3, <3>1, <3>2
  <2>4. CASE content.type = COMPLETE_MESSAGE
    <3>1. DeliveredKeys' = DeliveredKeys \cup {ContentKey(content)}
      BY <1>2, <2>1, <2>2, <2>4 DEF DeliveredKeys
    <3>2. PromisedFrames' = PromisedFrames
      BY <1>2, <2>1, <2>4, <2>t DEF PromisedFrames
    <3> QED BY <2>4, <3>1, <3>2
  <2>5. CASE /\ content.type # COMPLETE_MESSAGE
             /\ content.type # RECEIPTE \/ content.receipt_type # SENDER_RECEIPT
    <3>1. PromisedFrames' = PromisedFrames
      BY <1>2, <2>1, <2>5 DEF PromisedFrames
    <3>2. DeliveredKeys' = DeliveredKeys
      BY <1>2, <2>1, <2>5 DEF DeliveredKeys
    <3> QED BY <2>5, <3>1, <3>2
  <2> QED BY <2>3, <2>4, <2>5
<1> QED BY <1>1, <1>2 DEF SendMessage

\* Steps that touch neither the air nor the receipts.
LEMMA QuietStep ==
  ASSUME Next,
         \A w \in Workers : ~SendReceipt(w) /\ ~SendToRecipient(w) /\ ~SendReply(w),
         ~QosSend
  PROVE  UNCHANGED air
<1>1. ASSUME NEW w \in Workers, Request(w) \/ WorkerStep(w) \/ Abort(w) PROVE UNCHANGED air
  BY <1>1 DEF Request, SubmitMessage, SubmitReceipt, SubmitMobile, AccessToLogic, WorkerStep,
      StartHandler, MessageStep, InsertStoreMessage, SimpleCover, InsertOfflineMessage,
      InsertOfflineFails, CoverTo, CoverFrom, GetOffline, DeleteOffline, ArchiveMessage,
      MobileStep, CheckUser, LoginUpdate, LoginCount, LogoutCover, LogoutUpdate, MobileUpdate,
      Abort, Die, history
<1>2. CASE QosStep
  BY <1>2 DEF QosStep, QosGetConnection, QosSelect, QosUpdate, QosCover, QosEndRound, QosWake,
              history
<1>3. CASE Tick \/ Crash \/ Restart
  BY <1>3 DEF Tick, Crash, Restart, Die, history
<1> QED BY <1>1, <1>2, <1>3 DEF Next

\* Every step of the server is a step of the custody service or a stutter.
LEMMA CustodyServiceStep ==
  ASSUME TypeOK, CustodyInv, NothingInvented, [Next]_vars
  PROVE  [Custody!Next]_Custody!vars
<1> DEFINE Stutter == UNCHANGED <<CachedKeys, receipted, PromisedFrames, DeliveredKeys>>
           Goal == Custody!Next \/ Stutter
<1>g. Goal => [Custody!Next]_Custody!vars
  BY DEF Custody!vars
<1>k. Held \subseteq MessageKeys
  BY DEF NothingInvented
<1>a. UNCHANGED air => PromisedFrames' = PromisedFrames /\ DeliveredKeys' = DeliveredKeys
  BY DEF PromisedFrames, DeliveredKeys
<1>1. CASE UNCHANGED vars
  BY <1>1, <1>a, <1>g DEF vars, tables, history, CachedKeys
<1>2. CASE Next
  <2>1. ASSUME NEW w \in Workers, SendReceipt(w) PROVE Goal
    <3> DEFINE head == loc[w].head
               content == ResponseEncode(head.from_id, ServerId, head.frame_id, SENDER_RECEIPT, 0)
    <3>1. SendMessage(head.from_id, content, loc[w].sates_from, 10)
      BY <2>1 DEF SendReceipt
    <3>2. CachedKeys' = CachedKeys /\ UNCHANGED receipted
      BY <2>1 DEF SendReceipt, tables, CachedKeys
    <3>3. content.type = RECEIPTE /\ content.frame_id = head.frame_id
      BY DEF ResponseEncode
    <3>4. HeadKey(head) \in Held
      BY <2>1 DEF SendReceipt, CustodyInv, RightHandler, Ensured
    <3>5. HeadKey(head)[1] = head.from_id /\ HeadKey(head)[3] = head.frame_id
      BY DEF HeadKey, Key
    <3>6. \/ Stutter
          \/ PromisedFrames' = PromisedFrames \cup {<<head.from_id, head.frame_id>>}
             /\ DeliveredKeys' = DeliveredKeys
      <4> HIDE DEF content
      <4> QED BY <3>1, <3>2, <3>3, <1>a, AirStep DEF RECEIPTE, COMPLETE_MESSAGE
    <3>7. CASE PromisedFrames' = PromisedFrames \cup {<<head.from_id, head.frame_id>>}
               /\ DeliveredKeys' = DeliveredKeys
      <4>1. Custody!Promise(HeadKey(head))
        BY <3>2, <3>4, <3>5, <3>7 DEF Custody!Promise, Custody!InCustody, Held
      <4> QED BY <3>4, <4>1, <1>k DEF Custody!Next
    <3> QED BY <3>6, <3>7
  <2>2. ASSUME NEW w \in Workers, SendToRecipient(w) PROVE Goal
    <3> DEFINE head == loc[w].head
               content == MessageEncode(head)
    <3>1. SendMessage(head.to_id, content, loc[w].sates, 5)
      BY <2>2 DEF SendToRecipient
    <3>2. CachedKeys' = CachedKeys /\ UNCHANGED receipted
      BY <2>2 DEF SendToRecipient, tables, CachedKeys
    <3>3. content.type = head.type /\ ContentKey(content) = HeadKey(head)
      BY DEF MessageEncode, ContentKey, HeadKey
    <3>4. /\ head.type = COMPLETE_MESSAGE => HeadKey(head) \in Held
          /\ head.type # RECEIPTE
      BY <2>2 DEF SendToRecipient, CustodyInv, RightHandler, Ensured, COMPLETE_MESSAGE,
                  SIMPLE_MESSAGE, RECEIPTE
    <3>5. \/ Stutter
          \/ /\ head.type = COMPLETE_MESSAGE /\ PromisedFrames' = PromisedFrames
             /\ DeliveredKeys' = DeliveredKeys \cup {HeadKey(head)}
      <4> HIDE DEF content
      <4> QED BY <3>1, <3>2, <3>3, <3>4, <1>a, AirStep
    <3>6. CASE /\ head.type = COMPLETE_MESSAGE /\ PromisedFrames' = PromisedFrames
               /\ DeliveredKeys' = DeliveredKeys \cup {HeadKey(head)}
      <4>1. Custody!Deliver(HeadKey(head))
        BY <3>2, <3>4, <3>6 DEF Custody!Deliver, Custody!InCustody, Held
      <4> QED BY <3>4, <3>6, <4>1, <1>k DEF Custody!Next
    <3> QED BY <3>5, <3>6
  <2>3. ASSUME NEW w \in Workers, SendReply(w) PROVE Goal
    <3> DEFINE head == loc[w].head
               reply == loc[w].reply
               content == ResponseEncode(head.from_id, head.to_id, head.frame_id,
                                         reply.receipt_type, reply.receipt_indicate)
               sates == IF head.type = Logout THEN loc[w].sates ELSE head.sates
    <3>1. SendMessage(head.from_id, content, sates, 10)
      BY <2>3 DEF SendReply
    <3>2. CachedKeys' = CachedKeys /\ UNCHANGED receipted
      BY <2>3 DEF SendReply, tables, CachedKeys
    <3>3. content.type = RECEIPTE /\ content.receipt_type # SENDER_RECEIPT
      BY DEF ResponseEncode, CustodyInv, RightHandler
    <3> HIDE DEF content, sates
    <3> QED BY <3>1, <3>2, <3>3, <1>a, AirStep DEF RECEIPTE, COMPLETE_MESSAGE
  <2>4. ASSUME QosSend PROVE Goal
    <3> DEFINE message == Head(qos.messages)
               content == MessageEncode(message)
    <3>1. SendMessage(message.to_id, content, qos.sates, 5)
      BY <2>4 DEF QosSend
    <3>2. CachedKeys' = CachedKeys /\ UNCHANGED receipted
      BY <2>4 DEF QosSend, tables, CachedKeys
    <3>3. content.type = message.type /\ ContentKey(content) = ItemKey(message)
      BY DEF MessageEncode, ContentKey, ItemKey
    <3>4. message.type = COMPLETE_MESSAGE /\ ItemKey(message) \in Held
      <4>1. qos.messages \in Seq(FilledItem) /\ qos.messages # <<>>
        BY <2>4 DEF QosSend, TypeOK, QosOK
      <4>2. 1 \in DOMAIN qos.messages /\ message = qos.messages[1]
        BY <4>1
      <4> QED BY <4>2 DEF CustodyInv, DaemonEnsured
    <3>5. \/ Stutter
          \/ PromisedFrames' = PromisedFrames
             /\ DeliveredKeys' = DeliveredKeys \cup {ItemKey(message)}
      <4> HIDE DEF content, message
      <4> QED BY <3>1, <3>2, <3>3, <3>4, <1>a, AirStep DEF RECEIPTE, COMPLETE_MESSAGE
    <3>6. CASE PromisedFrames' = PromisedFrames
               /\ DeliveredKeys' = DeliveredKeys \cup {ItemKey(message)}
      <4>1. Custody!Deliver(ItemKey(message))
        BY <3>2, <3>4, <3>6 DEF Custody!Deliver, Custody!InCustody, Held
      <4> QED BY <3>4, <4>1, <1>k DEF Custody!Next
    <3> QED BY <3>5, <3>6
  <2>5. ASSUME UNCHANGED air PROVE Goal
    <3>1. PromisedFrames' = PromisedFrames /\ DeliveredKeys' = DeliveredKeys
      BY <2>5, <1>a
    <3>2. ASSUME NEW a \in air, a.content.type = COMPLETE_MESSAGE,
                 receipted' = receipted \cup {ContentKey(a.content)}, UNCHANGED message_cache
          PROVE  Goal
      <4>1. ContentKey(a.content) \in DeliveredKeys
        BY <3>2 DEF DeliveredKeys
      <4>2. ContentKey(a.content) \in Held
        BY <3>2 DEF CustodyInv, SentWasPersisted
      <4>3. CachedKeys' = CachedKeys
        BY <3>2 DEF CachedKeys
      <4>4. Custody!Acknowledge(ContentKey(a.content))
        BY <3>1, <3>2, <4>1, <4>3 DEF Custody!Acknowledge
      <4> QED BY <4>2, <4>4, <1>k DEF Custody!Next
    <3>3. ASSUME NEW w \in Workers, InsertOfflineMessage(w),
                 CachedKeys' = CachedKeys \cup {HeadKey(loc[w].head)}
          PROVE  Goal
      <4>1. UNCHANGED receipted
        BY <3>3 DEF InsertOfflineMessage
      <4>2. HeadKey(loc[w].head) \in MessageKeys
        BY <3>3 DEF InsertOfflineMessage, NothingInvented, CustodyInv, RightHandler
      <4>3. Custody!Accept(HeadKey(loc[w].head))
        BY <3>1, <3>3, <4>1 DEF Custody!Accept
      <4> QED BY <4>2, <4>3 DEF Custody!Next
    <3>4. ASSUME NEW w \in Workers, DeleteOffline(w),
                 CachedKeys' = CachedKeys \ {ReceiptKey(loc[w].head)}
          PROVE  Goal
      <4>1. UNCHANGED receipted
        BY <3>4 DEF DeleteOffline, history
      <4>2. ReceiptKey(loc[w].head) \in receipted
        BY <3>4 DEF DeleteOffline, CustodyInv, RightHandler, Ensured
      <4>3. Custody!Release(ReceiptKey(loc[w].head))
        BY <3>1, <3>4, <4>1, <4>2 DEF Custody!Release
      <4> QED BY <4>2, <4>3, <1>k DEF Custody!Next, Held
    <3>5. CASE UNCHANGED receipted
      BY <1>2, <3>1, <3>3, <3>4, <3>5, KeysStep
    <3> HIDE DEF Goal
    <3> QED BY <1>2, <3>2, <3>5, ReceiptStep
  <2> HIDE DEF Goal
  <2> QED BY <1>2, <1>g, <2>1, <2>2, <2>3, <2>4, <2>5, QuietStep
<1> QED BY <1>1, <1>2

\* The logic server, with its workers, its daemon and its crashes, implements the
\* custody service.
THEOREM ImplementsCustody == Spec => CustodyRefined
<1>1. Init => Custody!Init
  BY DEF Init, Custody!Init, CachedKeys, PromisedFrames, DeliveredKeys
<1>2. TypeOK /\ CustodyInv /\ NothingInvented /\ [Next]_vars => [Custody!Next]_Custody!vars
  BY CustodyServiceStep
<1> QED BY <1>1, <1>2, TypeCorrect, CustodyInvariant, MessagesAreSubmitted, PTL
        DEF Spec, CustodyRefined, Custody!Spec
=============================================================================
