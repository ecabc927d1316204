----------------------------- MODULE ServerState -----------------------------
(***************************************************************************)
(* State shared by the threads of the logic server, and what every handler *)
(* does with it: take a connection of the pool, run a statement, hand a    *)
(* frame to SendHelper, return.                                            *)
(*                                                                         *)
(* Threads: the workers of the thrift TThreadPoolServer (controller.cpp)   *)
(* and the QosSendDaemon thread started by main.                           *)
(***************************************************************************)
EXTENDS Database, SendHelper

CONSTANTS
  Workers,          \* threads of the thrift pool, thread_cnt in conf.cfg
  Daemon,           \* the QosSendDaemon thread
  max_size,         \* connections of the pool, Database.max_size in conf.cfg
  max_retry_count,  \* Qos.max_retry_count in conf.cfg
  msg_interval,     \* Qos.msg_interval in conf.cfg
  UniqueKey,        \* does message_cache have a unique index on (from, to, frame)?
  InitCover,        \* sate_cover when the server is started
  MaxClock,         \* bound: horizon of the clock
  Budget            \* bound: requests of each kind, failed statements and crashes

BudgetKinds == {"submit", "receipt", "mobile", "fault", "crash"}

ASSUME ServerAssumption ==
  /\ Daemon \notin Workers
  /\ max_size \in Nat /\ max_retry_count \in Nat /\ msg_interval \in Nat
  /\ UniqueKey \in BOOLEAN
  /\ InitCover \in [Users -> [Beams -> Int]]
  /\ MaxClock \in Nat
  /\ Budget \in [BudgetKinds -> Nat]

VARIABLES
  message_cache,  \* table: complete messages that wait for the recipient's receipt
  message_store,  \* table: archive
  sate_cover,     \* table: SNR per user and beam
  conn,           \* threads that hold a connection of the pool
  leaked,         \* connections nobody holds that never went back to the pool
  pc,             \* what each worker does next
  loc,            \* the locals of the handler each worker runs
  qos,            \* program counter and locals of the daemon
  up,             \* is the process running?
  clock,          \* time(NULL)
  air,            \* history: every frame an access server has accepted
  receipted,      \* history: keys for which the recipient has sent a receipt
  reported,       \* history: the coverage lists each user has reported
  picked,         \* history: picked[rid] is how often the daemon has taken row rid to send
  left            \* what remains of Budget

tables  == <<message_cache, message_store, sate_cover>>
pool    == <<conn, leaked>>
threads == <<pc, loc>>
history == <<air, receipted, reported, picked>>
env     == <<up, clock, left>>
vars    == <<tables, pool, threads, qos, history, env>>

-----------------------------------------------------------------------------
(* Locals.  They are reset when a handler returns.                         *)

NoHead ==
  [from_id |-> ServerId, to_id |-> ServerId, frame_id |-> 0, type |-> Login,
   text |-> EmptyText, ack |-> NoAck, sates |-> <<>>]

NoReply == [receipt_type |-> 0, receipt_indicate |-> 0]

NoLocals ==
  [head |-> NoHead, sates |-> <<>>, sates_from |-> <<>>,
   item |-> UnfilledItem(Uninit), reply |-> NoReply]

QosIdle == [pc |-> "GetConnection", rows |-> {}, messages |-> <<>>, sates |-> <<>>, now |-> 0]

Labels ==
  {"idle", "GetConnection",
   "InsertStoreMessage", "SimpleCover",
   "InsertOfflineMessage", "CoverTo", "CoverFrom", "SendReceipt", "SendMessage",
   "GetOfflineMessage", "DeleteOfflineMessage", "ArchiveMessage",
   "IsExistUser", "LoginUpdate", "GetOfflineMessageNum",
   "LogoutCover", "LogoutUpdate", "MobileUpdate", "SendReply"}

QosLabels == {"GetConnection", "Select", "Update", "Cover", "Send", "Sleep"}

-----------------------------------------------------------------------------
(* The connection pool (libzdb, external).  GetConnection of database.cpp  *)
(* never decrements its counter: it spins until the pool has a connection, *)
(* so the handlers' tests for NULL are dead and the step simply waits.     *)

GetConnection(t) ==
  /\ Cardinality(conn) + leaked < max_size
  /\ conn' = conn \cup {t}
  /\ UNCHANGED leaked

Connection_close(t) ==
  /\ conn' = conn \ {t}
  /\ UNCHANGED leaked

\* Connection_clear releases the statements of a connection, not the connection.
Connection_clear(t) ==
  /\ conn' = conn \ {t}
  /\ leaked' = leaked + 1

\* An SQLException in the statement at hand.
SQLException ==
  /\ left["fault"] > 0
  /\ left' = [left EXCEPT !["fault"] = @ - 1]

-----------------------------------------------------------------------------
Goto(w, label) == pc' = [pc EXCEPT ![w] = label]

Return(w) ==
  /\ Goto(w, "idle")
  /\ loc' = [loc EXCEPT ![w] = NoLocals]

\* SendHelper::SendMessage.  Every caller ignores the result: no listed beam has
\* an address, or the remote call throws, and nothing is sent.
SendMessage(user_id, content, sates, level) ==
  \/ /\ Frames(user_id, content, sates, level) # {}
     /\ air' = air \cup Frames(user_id, content, sates, level)
  \/ UNCHANGED air
=============================================================================
