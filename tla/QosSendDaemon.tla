---------------------------- MODULE QosSendDaemon ----------------------------
(***************************************************************************)
(* tools/qos_send_daemon.cpp: the thread that retransmits the complete     *)
(* messages whose recipient has sent no receipt yet.  One round fetches    *)
(* the rows that are due, advances the retry count of each, and then sends *)
(* them one after the other; the connection is held for the whole round.   *)
(***************************************************************************)
EXTENDS ServerState

QosGetConnection ==
  /\ up
  /\ qos.pc = "GetConnection"
  /\ GetConnection(Daemon)
  /\ qos' = [qos EXCEPT !.pc = "Select"]
  /\ UNCHANGED <<tables, threads, history, env>>

\* GetAllOfflineMessage, the SELECT.
QosSelect ==
  /\ qos.pc = "Select"
  /\ \/ LET due == DueRows(message_cache, max_retry_count, clock) IN
          /\ qos' = [qos EXCEPT !.pc = IF due = {} THEN "Cover" ELSE "Update",
                                !.rows = due,
                                !.now = clock]
          /\ UNCHANGED left
     \/ /\ SQLException
        /\ qos' = [qos EXCEPT !.pc = "Cover"]
  /\ UNCHANGED <<tables, pool, threads, history, up, clock>>

\* Mutant: the last retry of a message removes its row, as if it were given up.
QosUpdate_GivesUp(row) ==
  /\ qos.pc = "Update"
  /\ row \in qos.rows
  /\ picked' = [picked EXCEPT ![row.rid] = @ + 1]
  /\ message_cache' = IF row.retry_num + 1 = max_retry_count
                      THEN DeleteOfflineMessage(message_cache, RowKey(row))
                      ELSE UpdateRetry(message_cache, row, qos.now, msg_interval)
  /\ qos' = [qos EXCEPT !.pc = IF qos.rows = {row} THEN "Cover" ELSE "Update",
                        !.rows = @ \ {row},
                        !.messages = Append(@, ItemOf(row))]
  /\ UNCHANGED <<message_store, sate_cover, pool, threads, air, receipted, reported, env>>

\* GetAllOfflineMessage, one turn of the loop over the result set.  The statement
\* has no ORDER BY.  An exception leaves the loop, the rest of the result set is
\* dropped and the row is not updated: the UPDATE fails when the message was already
\* pushed, a column that cannot be read fails before that.
QosUpdate(row) ==
  /\ qos.pc = "Update"
  /\ row \in qos.rows
  /\ \/ /\ message_cache' = UpdateRetry(message_cache, row, qos.now, msg_interval)
        /\ picked' = [picked EXCEPT ![row.rid] = @ + 1]
        /\ qos' = [qos EXCEPT !.pc = IF qos.rows = {row} THEN "Cover" ELSE "Update",
                              !.rows = @ \ {row},
                              !.messages = Append(@, ItemOf(row))]
        /\ UNCHANGED left
     \/ /\ SQLException
        /\ \/ /\ picked' = [picked EXCEPT ![row.rid] = @ + 1]
              /\ qos' = [qos EXCEPT !.pc = "Cover",
                                    !.rows = {},
                                    !.messages = Append(@, ItemOf(row))]
           \/ /\ qos' = [qos EXCEPT !.pc = "Cover", !.rows = {}]
              /\ UNCHANGED picked
        /\ UNCHANGED message_cache
  /\ UNCHANGED <<message_store, sate_cover, pool, threads, air, receipted, reported, up, clock>>

\* GetSateCover for the next message; a recipient without coverage is skipped, its
\* retry is spent all the same.
QosCover ==
  /\ qos.pc = "Cover"
  /\ qos.messages # <<>>
  /\ LET sates == GetSateCover(sate_cover, Head(qos.messages).to_id) IN
       \/ /\ DOMAIN sates # {}
          /\ qos' = [qos EXCEPT !.pc = "Send", !.sates = sates]
          /\ UNCHANGED left
       \/ /\ (DOMAIN sates = {} /\ UNCHANGED left) \/ SQLException
          /\ qos' = [qos EXCEPT !.messages = Tail(@)]
  /\ UNCHANGED <<tables, pool, threads, history, up, clock>>

QosSend ==
  /\ qos.pc = "Send"
  /\ LET message == Head(qos.messages) IN
       SendMessage(message.to_id, MessageEncode(message), qos.sates, 5)
  /\ qos' = [qos EXCEPT !.pc = "Cover", !.messages = Tail(@), !.sates = <<>>]
  /\ UNCHANGED <<tables, pool, threads, receipted, reported, picked, env>>

\* The end of a round: Connection_close, then sleep(check_interval).
QosEndRound ==
  /\ qos.pc = "Cover"
  /\ qos.messages = <<>>
  /\ Connection_close(Daemon)
  /\ qos' = [QosIdle EXCEPT !.pc = "Sleep"]
  /\ UNCHANGED <<tables, threads, history, env>>

\* The sleep lasts any number of ticks.
QosWake ==
  /\ qos.pc = "Sleep"
  /\ qos' = QosIdle
  /\ UNCHANGED <<tables, pool, threads, history, env>>

QosStep ==
  \/ QosGetConnection
  \/ QosSelect
  \/ \E row \in qos.rows : QosUpdate(row)
  \/ QosCover
  \/ QosSend
  \/ QosEndRound
  \/ QosWake
=============================================================================
