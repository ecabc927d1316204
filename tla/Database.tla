------------------------------ MODULE Database ------------------------------
(***************************************************************************)
(* The SQL statements of tools/database.cpp as functions of the tables.    *)
(* Every statement runs in autocommit mode, so a handler that issues two   *)
(* of them can be interleaved with another thread in between: the modules  *)
(* of the handlers take one step per statement.                            *)
(*                                                                         *)
(* message_cache is a set of rows, told apart by an identity rid (several  *)
(* rows may have the same key unless the table has a unique index, which   *)
(* the repository does not say); message_store is the sequence of the rows *)
(* inserted; sate_cover maps a user to the SNR stored for each beam.       *)
(***************************************************************************)
EXTENDS Protocol, FiniteSets

CONSTANTS
  RETRY_DELAY,     \* seconds before the first retransmission, 10 in the code
  INDICATE_MAX,    \* saturation of the one-byte message count, 255 in the code
  RegisteredUsers, \* rows of user_info
  CoverRows        \* users that have a row in sate_cover

ASSUME DatabaseAssumption ==
  /\ RETRY_DELAY \in Nat
  /\ INDICATE_MAX \in Nat
  /\ RegisteredUsers \subseteq Users
  /\ CoverRows \subseteq Users

CacheRow ==
  [rid : Nat, from_user : Parties, to_user : Parties, frame_id : Nat, type : Nat,
   text : Texts \cup {EmptyText}, retry_num : Nat, retry_time : Nat]

StoreRow ==
  [from_user : Parties \cup {Uninit}, to_user : Parties \cup {Uninit},
   frame_id : Nat \cup {Uninit}, type : Nat, text : Texts \cup {EmptyText}]

NO_SNR == -10                              \* -1.0, the beam is not heard
OffLine == [b \in Beams |-> NO_SNR]

RowKey(row) == Key(row.from_user, row.to_user, row.frame_id)

\* UpdateSateCover: a beam listed twice keeps its last entry, a beam that is not
\* listed becomes -1.  The assertion on the beam numbers is CoverAssertion.
CoverAssertion(sates) == \A i \in DOMAIN sates : sates[i].beam_id \in Beams

TempSnr(sates) ==
  [b \in Beams |->
     LET last == {i \in DOMAIN sates :
                    /\ sates[i].beam_id = b
                    /\ \A j \in DOMAIN sates : j > i => sates[j].beam_id # b}
     IN  IF last = {} THEN NO_SNR ELSE sates[CHOOSE i \in last : TRUE].snr]

\* Mutant: temp_snr starts from the stored row instead of -1.
UpdateSateCover_Merge(cover, user_id, sates) ==
  [u \in Users |-> IF u = user_id /\ u \in CoverRows
                   THEN [b \in Beams |-> IF \E i \in DOMAIN sates : sates[i].beam_id = b
                                         THEN TempSnr(sates)[b] ELSE cover[u][b]]
                   ELSE cover[u]]

UpdateSateCover(cover, user_id, sates) ==
  [u \in Users |-> IF u = user_id /\ u \in CoverRows THEN TempSnr(sates) ELSE cover[u]]

\* GetSateCover: the beams with a positive SNR.  The SateParam constructor takes
\* the SNR as an int32_t, so the fraction (the last digit here) is lost.
Truncate(snr) == (snr \div 10) * 10

GetSateCover(cover, user_id) ==
  [b \in {x \in Beams : user_id \in CoverRows /\ cover[user_id][x] > 0} |->
     [sate_id |-> (b + 1) \div 2, beam_id |-> b, snr |-> Truncate(cover[user_id][b])]]

IsExistUser(user_id) == user_id \in RegisteredUsers

GetOfflineMessageNum(cache, user_id) ==
  Cardinality({row \in cache : row.to_user = user_id})

\* InsertOfflineMessage: retry_num is left to the column's default.
OfflineRow(head, rid, now) ==
  [rid |-> rid, from_user |-> head.from_id, to_user |-> head.to_id,
   frame_id |-> head.frame_id, type |-> head.type, text |-> head.text,
   retry_num |-> 0, retry_time |-> now + RETRY_DELAY]

\* InsertStoreMessage(conn, control_head), for a message that is not acknowledged.
StoreRowOfHead(head) ==
  [from_user |-> head.from_id, to_user |-> head.to_id, frame_id |-> head.frame_id,
   type |-> head.type, text |-> head.text]

\* InsertStoreMessage(conn, msg, recv_time), for an acknowledged message: the
\* statement names (from_user, to_user) and binds msg.to_id, then msg.from_id.
StoreRowOfItem(msg) ==
  [from_user |-> msg.to_id, to_user |-> msg.from_id, frame_id |-> msg.frame_id,
   type |-> msg.type, text |-> msg.text]

\* The rows a WHERE from_user = ? AND to_user = ? AND frame_id = ? selects.
RowsOf(cache, key) == {row \in cache : RowKey(row) = key}

\* Mutant: the WHERE clause of the DELETE names frame_id only.
DeleteOfflineMessage_ByFrame(cache, key) == {row \in cache : row.frame_id # key[3]}

DeleteOfflineMessage(cache, key) == cache \ RowsOf(cache, key)

ItemOf(row) ==
  [to_id |-> row.to_user, from_id |-> row.from_user, frame_id |-> row.frame_id,
   type |-> row.type, text |-> row.text, row |-> row.rid]

\* GetOfflineMessage: the first row of the result set.  When there is none, msg
\* keeps what its stack slot holds (only the std::string is constructed) and the
\* function still returns true.
UnfilledItem(type) ==
  [to_id |-> Uninit, from_id |-> Uninit, frame_id |-> Uninit, type |-> type,
   text |-> EmptyText, row |-> 0]

\* Mutant: the WHERE clause of the SELECT names frame_id only.
GetOfflineMessage_ByFrame(cache, key) ==
  {ItemOf(row) : row \in {r \in cache : r.frame_id = key[3]}}

GetOfflineMessage(cache, key) ==
  IF RowsOf(cache, key) # {}
  THEN {ItemOf(row) : row \in RowsOf(cache, key)}
  ELSE {UnfilledItem(type) : type \in {COMPLETE_MESSAGE, Uninit}}

\* GetAllOfflineMessage: the rows due at time now, then one UPDATE by key for each
\* of them, computed from the retry_num the SELECT returned.
\* Mutant: retry_time < now instead of retry_time <= now.
DueRows_Strict(cache, max_retry_num, now) ==
  {row \in cache : row.retry_num < max_retry_num /\ row.retry_time < now}

\* Mutant: retry_num <= max_retry_num instead of retry_num < max_retry_num.
DueRows_AtLimit(cache, max_retry_num, now) ==
  {row \in cache : row.retry_num <= max_retry_num /\ row.retry_time <= now}

DueRows(cache, max_retry_num, now) ==
  {row \in cache : row.retry_num < max_retry_num /\ row.retry_time <= now}

UpdateRetry(cache, row, now, retry_interval) ==
  {IF RowKey(r) = RowKey(row)
   THEN [r EXCEPT !.retry_num = row.retry_num + 1,
                  !.retry_time = now + (row.retry_num + 1) * retry_interval]
   ELSE r : r \in cache}
=============================================================================
