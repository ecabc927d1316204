----------------------------- MODULE ShortMessage -----------------------------
(***************************************************************************)
(* The logic server: the dispatch of workmanager/LogicInterfaceHandler.cpp *)
(* composed with the message handlers, the mobility handlers and the       *)
(* retransmission daemon, in an environment of terminals, an unreliable    *)
(* satellite link, failing statements and crashes.                         *)
(***************************************************************************)
EXTENDS MessageManager, MobileManager, QosSendDaemon

CONSTANTS
  Messages,   \* the messages terminals submit
  Covers      \* the coverage lists terminals report

ASSUME EnvironmentAssumption ==
  /\ Messages \subseteq [from_id : Users, to_id : Users, frame_id : Nat, type : Nat, text : Texts]
  /\ Covers \subseteq Seq(SateParam)

-----------------------------------------------------------------------------
(* AccessToLogic: one thrift call, run by one worker of the pool.          *)

\* Where the handler of a request starts once it has a connection.
FirstStep(head) ==
  CASE head.type = Login                  -> "IsExistUser"
    [] head.type = Logout                 -> "LogoutCover"
    [] head.type = MOBILE_MANAGER_REQUEST -> "MobileUpdate"
    [] head.type = SIMPLE_MESSAGE         -> "InsertStoreMessage"
    [] head.type = COMPLETE_MESSAGE       -> "InsertOfflineMessage"
    [] OTHER                              -> "GetOfflineMessage"   \* RECEIPTE: see Ignored

\* Requests that return at once: empty handlers, the inquiry and unknown types, a
\* report without beams, a receipt for something else than a complete message.
Ignored(head) ==
  \/ head.type \notin {Login, Logout, MOBILE_MANAGER_REQUEST,
                       SIMPLE_MESSAGE, COMPLETE_MESSAGE, RECEIPTE}
  \/ head.type \in {Login, MOBILE_MANAGER_REQUEST} /\ head.sates = <<>>
  \/ head.type = RECEIPTE /\ head.ack.receipt_type # COMPLETE_MESSAGE

AccessToLogic(w, head) ==
  /\ up
  /\ pc[w] = "idle"
  /\ IF Ignored(head)
     THEN UNCHANGED threads
     ELSE /\ Goto(w, "GetConnection")
          /\ loc' = [loc EXCEPT ![w].head = head]
  /\ UNCHANGED <<tables, pool, qos, air, picked, up, clock>>

StartHandler(w) ==
  /\ pc[w] = "GetConnection"
  /\ GetConnection(w)
  /\ Goto(w, FirstStep(loc[w].head))
  /\ UNCHANGED <<tables, loc, qos, history, env>>

-----------------------------------------------------------------------------
(* The environment (external).  The link loses, duplicates and reorders    *)
(* frames: a terminal may submit a message again, answer a frame it has    *)
(* received any number of times, or never; requests of one terminal may be *)
(* run by several workers at once.                                         *)

Spend(kind) ==
  /\ left[kind] > 0
  /\ left' = [left EXCEPT ![kind] = @ - 1]

MessageHead(m) ==
  [from_id |-> m.from_id, to_id |-> m.to_id, frame_id |-> m.frame_id,
   type |-> m.type, text |-> m.text, ack |-> NoAck, sates |-> <<>>]

SubmitMessage(w, m) ==
  /\ Spend("submit")
  /\ AccessToLogic(w, MessageHead(m))
  /\ UNCHANGED <<receipted, reported>>

ContentKey(content) == Key(content.from_id, content.to_id, content.frame_id)

\* A terminal answers a complete message that reached it.
ReceiptHead(content, receipt_type) ==
  [from_id |-> content.to_id, to_id |-> content.from_id, frame_id |-> 0,
   type |-> RECEIPTE, text |-> EmptyText,
   ack |-> [frame_id |-> content.frame_id, receipt_type |-> receipt_type], sates |-> <<>>]

SubmitReceipt(w, a, receipt_type) ==
  /\ a.content.type = COMPLETE_MESSAGE
  /\ Spend("receipt")
  /\ AccessToLogic(w, ReceiptHead(a.content, receipt_type))
  /\ receipted' = IF receipt_type = COMPLETE_MESSAGE
                  THEN receipted \cup {ContentKey(a.content)}
                  ELSE receipted
  /\ UNCHANGED reported

MobileHead(u, type, sates) ==
  [from_id |-> u, to_id |-> ServerId, frame_id |-> 0, type |-> type,
   text |-> EmptyText, ack |-> NoAck, sates |-> sates]

SubmitMobile(w, u, type, sates) ==
  /\ Spend("mobile")
  /\ AccessToLogic(w, MobileHead(u, type, sates))
  /\ reported' = [reported EXCEPT ![u] = @ \cup {sates}]
  /\ UNCHANGED receipted

Tick ==
  /\ clock < MaxClock
  /\ clock' = clock + 1
  /\ UNCHANGED <<tables, pool, threads, qos, history, up, left>>

\* The process dies: its threads and its pool are gone, the tables stay.
Die ==
  /\ up' = FALSE
  /\ pc' = [w \in Workers |-> "idle"]
  /\ loc' = [w \in Workers |-> NoLocals]
  /\ qos' = QosIdle
  /\ conn' = {}
  /\ leaked' = 0
  /\ UNCHANGED <<tables, history, clock>>

Crash == up /\ Spend("crash") /\ Die

Abort(w) == AssertFails(w) /\ Die /\ UNCHANGED left

Restart ==
  /\ ~up
  /\ up' = TRUE
  /\ UNCHANGED <<tables, pool, threads, qos, history, clock, left>>

-----------------------------------------------------------------------------
\* The coverage a user had reported before the server was started.
StoredReport(u) ==
  [b \in Beams |-> [sate_id |-> (b + 1) \div 2, beam_id |-> b, snr |-> InitCover[u][b]]]

Init ==
  /\ message_cache = {}
  /\ message_store = <<>>
  /\ sate_cover = InitCover
  /\ conn = {}
  /\ leaked = 0
  /\ pc = [w \in Workers |-> "idle"]
  /\ loc = [w \in Workers |-> NoLocals]
  /\ qos = QosIdle
  /\ up = TRUE
  /\ clock = 0
  /\ air = {}
  /\ receipted = {}
  /\ reported = [u \in Users |-> {StoredReport(u)}]
  /\ picked = <<>>
  /\ left = Budget

WorkerStep(w) == StartHandler(w) \/ MessageStep(w) \/ MobileStep(w)

Request(w) ==
  \/ \E m \in Messages : SubmitMessage(w, m)
  \/ \E a \in air, receipt_type \in {COMPLETE_MESSAGE, SENDER_RECEIPT} :
       SubmitReceipt(w, a, receipt_type)
  \/ \E u \in Users, c \in Covers :
       \/ SubmitMobile(w, u, Login, c)
       \/ SubmitMobile(w, u, MOBILE_MANAGER_REQUEST, c)
  \/ \E u \in Users : SubmitMobile(w, u, Logout, <<>>)

Next ==
  \/ \E w \in Workers : Request(w) \/ WorkerStep(w) \/ Abort(w)
  \/ QosStep
  \/ Tick
  \/ Crash
  \/ Restart

Spec == Init /\ [][Next]_vars

\* The scheduler runs every thread, time goes on, and a dead server is restarted.
\* Terminals, faults and crashes owe nothing.
Fairness ==
  /\ \A w \in Workers : WF_vars(WorkerStep(w) \/ Abort(w))
  /\ WF_vars(QosStep)
  /\ WF_vars(Tick)
  /\ WF_vars(Restart)

FairSpec == Spec /\ Fairness

\* A thread that spins in GetConnection gets a connection that is offered to it
\* again and again, also while other threads compete for it.
PatientSpec == FairSpec /\ \A w \in Workers : SF_vars(StartHandler(w))

-----------------------------------------------------------------------------
(* Typing.                                                                 *)

LocalsOK(l) ==
  /\ l = [head |-> l.head, sates |-> l.sates, sates_from |-> l.sates_from,
          item |-> l.item, reply |-> l.reply]
  /\ l.head \in ControlHead
  /\ IsSates(l.sates) /\ IsSates(l.sates_from)
  /\ l.item \in MessageItem
  /\ l.reply \in [receipt_type : Nat, receipt_indicate : Nat]

TablesOK ==
  /\ message_cache \subseteq CacheRow /\ IsFiniteSet(message_cache)
  /\ message_store \in Seq(StoreRow)
  /\ sate_cover \in [Users -> [Beams -> Int]]

PoolOK ==
  /\ conn \subseteq Workers \cup {Daemon}
  /\ leaked \in Nat

ThreadsOK ==
  /\ pc \in [Workers -> Labels]
  /\ loc = [w \in Workers |-> loc[w]]
  /\ \A w \in Workers : LocalsOK(loc[w])

QosOK ==
  /\ qos = [pc |-> qos.pc, rows |-> qos.rows, messages |-> qos.messages,
            sates |-> qos.sates, now |-> qos.now]
  /\ qos.pc \in QosLabels
  /\ qos.rows \subseteq CacheRow
  /\ qos.messages \in Seq(FilledItem)
  /\ IsSates(qos.sates)
  /\ qos.now \in Nat
  /\ qos.pc = "Send" => qos.messages # <<>>

HistoryOK ==
  /\ air \subseteq AccessMessage
  /\ receipted \subseteq Parties \X Parties \X Nat
  /\ reported \in [Users -> SUBSET Seq(SateParam)]
  /\ picked \in Seq(Nat)

EnvOK ==
  /\ up \in BOOLEAN
  /\ clock \in Nat
  /\ left \in [BudgetKinds -> Nat]

\* The rows of the cache, and the copies the daemon holds, are rows that were
\* inserted (and are counted in picked).
RowsInserted == \A row \in message_cache \cup qos.rows : row.rid \in DOMAIN picked

\* ProcessReceipt deletes and archives only after the test of msg.type.
ItemsChecked ==
  \A w \in Workers :
    pc[w] \in {"DeleteOfflineMessage", "ArchiveMessage"} => loc[w].item.type = COMPLETE_MESSAGE

\* Every variable has its type.  The part that is not immediate: a row of the
\* archive always has a type and a frame on the air never carries a field that was
\* read from the uninitialised local of ProcessReceipt.
TypeOK ==
  /\ TablesOK
  /\ PoolOK
  /\ ThreadsOK
  /\ QosOK
  /\ HistoryOK
  /\ EnvOK
  /\ RowsInserted
  /\ ItemsChecked

-----------------------------------------------------------------------------
(* Safety.                                                                 *)

CachedKeys == {RowKey(row) : row \in message_cache}

\* Messages the server still answers for, or whose recipient has answered.
Held == CachedKeys \cup receipted

\* The promises about complete messages, read off the tables and the history: the
\* rows of the cache, the receipts of the recipients, the 0x50 receipts and the
\* complete messages on the air.
MessageKeys == {Key(m.from_id, m.to_id, m.frame_id) : m \in Messages}

PromisedFrames ==
  {<<a.uid, a.content.frame_id>> :
     a \in {x \in air : x.content.type = RECEIPTE /\ x.content.receipt_type = SENDER_RECEIPT}}

DeliveredKeys ==
  {ContentKey(a.content) : a \in {x \in air : x.content.type = COMPLETE_MESSAGE}}

Custody == INSTANCE CustodyService WITH
  Keys <- MessageKeys,
  held <- CachedKeys,
  done <- receipted,
  promised <- PromisedFrames,
  delivered <- DeliveredKeys

\* The workers, the daemon and the crashes together do nothing the custody service
\* does not do: whatever the interleaving, a message is accepted before its sender is
\* answered, delivered only while it is in custody, and forgotten only after its
\* recipient has answered.
CustodyRefined == Custody!Spec

\* A sender that has got the 0x50 receipt for its frame need not keep the message:
\* it is in message_cache, or its recipient has sent a receipt for it.  The receipt
\* of ProcessCompleteMessage is sent several statements after the insert, while
\* other workers delete rows and the process may crash.
ReceiptImpliesCustody ==
  \A a \in air :
    a.content.type = RECEIPTE /\ a.content.receipt_type = SENDER_RECEIPT =>
      \E key \in Held : key[1] = a.uid /\ key[3] = a.content.frame_id

\* No message goes out before it is stored: a complete message on the air is in
\* message_cache or its recipient has sent a receipt for it (so a retransmission
\* of the daemon after the row was deleted repeats a message that has arrived), and
\* a simple message on the air is in message_store.
SentWasPersisted ==
  \A a \in air :
    /\ a.content.type = COMPLETE_MESSAGE => ContentKey(a.content) \in Held
    /\ a.content.type = SIMPLE_MESSAGE =>
         \E i \in DOMAIN message_store : message_store[i] = StoreRowOfHead(a.content)

\* ProcessReceipt archives a message only on behalf of its recipient.  (A row of an
\* unfilled item has no ends; the archive holds the ends swapped.)
ArchivedWasReceipted ==
  \A i \in DOMAIN message_store :
    LET row == message_store[i] IN
      row.type = COMPLETE_MESSAGE /\ row.to_user # Uninit =>
        Key(row.to_user, row.from_user, row.frame_id) \in receipted

\* A row leaves message_cache only when its recipient has sent a receipt, whatever
\* the daemon and the other workers do to it meanwhile.
DeletesOnlyReceipted ==
  [][\A row \in message_cache :
       row.rid \in {r.rid : r \in message_cache'} \/ RowKey(row) \in receipted']_vars

\* The daemon takes a row to send at most max_retry_count times, plus once for every
\* statement that failed: the row is pushed before it is updated.
Failures == Budget["fault"] - left["fault"]

PickBudget ==
  \A rid \in DOMAIN picked : picked[rid] <= max_retry_count + Failures

\* The retry count of a row never goes back, although the UPDATE of the daemon is
\* computed from an earlier SELECT and addresses the row by key.
RetryNumMonotone ==
  [][\A row \in message_cache, r \in message_cache' :
       r.rid = row.rid => row.retry_num <= r.retry_num]_vars

\* Every path of every handler, the failing ones included, returns the connection
\* it took exactly once; the one exception is the failed insert of a complete
\* message, which leaks it.
Holding(w) == pc[w] \notin {"idle", "GetConnection", "SendReceipt", "SendMessage", "SendReply"}

ConnectionsAccounted ==
  /\ conn = {w \in Workers : Holding(w)} \cup
            (IF qos.pc \in {"GetConnection", "Sleep"} THEN {} ELSE {Daemon})
  /\ Cardinality(conn) + leaked <= max_size

\* The beam is one that the report c puts first (see RoutedToBestBeam).
FitsReport(beam_id, c) ==
  \E i \in DOMAIN c :
    /\ c[i].beam_id = beam_id
    /\ \A j \in DOMAIN c :
         /\ c[j].beam_id \in ScheduleAddress
         /\ \A k \in DOMAIN c : k > j => c[k].beam_id # c[j].beam_id
         => c[j].snr < c[i].snr + 10

\* A frame goes to an access server that is configured, on the beam ONE report of its
\* addressee puts first among the beams that have a server (to within the fraction
\* of the SNR that GetSateCover drops; of a beam listed twice the last entry counts).
\* The choice is made from a list read several statements earlier, while other
\* workers store other reports and log-outs of the same terminal: a frame routed by a
\* mixture of two reports would break it.
RoutedToBestBeam ==
  \A a \in air :
    /\ a.beam_id \in ScheduleAddress
    /\ \E c \in reported[a.uid] : FitsReport(a.beam_id, c)

\* Only a registered terminal gets a positive answer to a log-in.
LoginOkIsRegistered ==
  \A a \in air :
    a.content.type = RECEIPTE /\ a.content.receipt_type = LOGIN_OK => a.uid \in RegisteredUsers

\* What the statement of InsertStoreMessage(conn, msg, recv_time) says: the columns
\* from_user and to_user hold the sender and the recipient of an archived message.
\* They do not: the two are bound in the other order (ArchiveDirection.cfg).
ArchiveKeepsDirection ==
  \A i \in DOMAIN message_store :
    message_store[i].to_user # Uninit =>
      \E m \in Messages : m.from_id = message_store[i].from_user
                        /\ m.to_id = message_store[i].to_user

-----------------------------------------------------------------------------
(* Why the messages are in custody: the inductive invariant behind         *)
(* ReceiptImpliesCustody, SentWasPersisted, ArchivedWasReceipted and       *)
(* DeletesOnlyReceipted.                                                   *)

ItemKey(item) == Key(item.from_id, item.to_id, item.frame_id)

Stored(head) == \E i \in DOMAIN message_store : message_store[i] = StoreRowOfHead(head)

\* A worker runs the handler of its request.
RightHandler(w) ==
  LET type == loc[w].head.type IN
  /\ pc[w] = "GetConnection" => ~Ignored(loc[w].head)
  /\ pc[w] \in {"InsertStoreMessage", "SimpleCover"} => type = SIMPLE_MESSAGE
  /\ pc[w] \in {"InsertOfflineMessage", "CoverTo", "CoverFrom", "SendReceipt"} =>
       type = COMPLETE_MESSAGE
  /\ pc[w] = "SendMessage" => type \in {SIMPLE_MESSAGE, COMPLETE_MESSAGE}
  /\ pc[w] \in {"GetOfflineMessage", "DeleteOfflineMessage", "ArchiveMessage"} => type = RECEIPTE
  /\ loc[w].reply.receipt_type # SENDER_RECEIPT

\* What a worker has made sure of when it comes to send, to delete or to archive.
Ensured(w) ==
  LET head == loc[w].head IN
  /\ pc[w] \in {"CoverTo", "CoverFrom", "SendReceipt", "SendMessage"}
       /\ head.type = COMPLETE_MESSAGE => HeadKey(head) \in Held
  /\ pc[w] \in {"SimpleCover", "SendMessage"} /\ head.type = SIMPLE_MESSAGE => Stored(head)
  /\ pc[w] # "idle" /\ head.type = RECEIPTE => ReceiptKey(head) \in receipted
  /\ pc[w] \in {"DeleteOfflineMessage", "ArchiveMessage"} =>
       \/ loc[w].item.from_id = Uninit
       \/ ItemKey(loc[w].item) = ReceiptKey(head)

\* The daemon holds messages that were in the cache when it fetched them.
DaemonEnsured ==
  /\ \A row \in message_cache : row.type = COMPLETE_MESSAGE
  /\ \A row \in qos.rows : row.type = COMPLETE_MESSAGE /\ RowKey(row) \in Held
  /\ \A i \in DOMAIN qos.messages :
       qos.messages[i].type = COMPLETE_MESSAGE /\ ItemKey(qos.messages[i]) \in Held

CustodyInv ==
  /\ \A w \in Workers : RightHandler(w) /\ Ensured(w)
  /\ DaemonEnsured
  /\ ReceiptImpliesCustody
  /\ SentWasPersisted
  /\ ArchivedWasReceipted

\* No message is invented: a complete message a worker handles, the cache holds or a
\* recipient has answered is one that a terminal has submitted.
NothingInvented ==
  /\ Held \subseteq MessageKeys
  /\ \A w \in Workers : pc[w] # "idle" /\ loc[w].head.type = COMPLETE_MESSAGE =>
       HeadKey(loc[w].head) \in MessageKeys

-----------------------------------------------------------------------------
(* Liveness, under FairSpec.                                               *)

\* Every request comes to its end.
EveryRequestReturns == \A w \in Workers : pc[w] # "idle" ~> pc[w] = "idle"

\* In the end no message is left that is due: each one was receipted or its
\* retries are spent (or its next retry lies beyond the horizon), in spite of
\* crashes, failed statements and lost frames.
RetriesAreSpent ==
  <>[](\A row \in message_cache :
         row.retry_num >= max_retry_count \/ row.retry_time > MaxClock)
=============================================================================
