--------------------------- MODULE MessageManager ---------------------------
(***************************************************************************)
(* logic/message_manager.cpp: the handlers of simple messages (0x40), of   *)
(* complete messages (0x60) and of receipts (0x80), one step per SQL       *)
(* statement and per remote call.  ProcessForwardNoAckMessage and          *)
(* ProcessBackwardNoAckMessage have empty bodies.                          *)
(***************************************************************************)
EXTENDS ServerState

HeadKey(head) == Key(head.from_id, head.to_id, head.frame_id)

\* ProcessReceipt swaps the ends: the receipt travels from recipient to sender.
ReceiptKey(head) == Key(head.to_id, head.from_id, head.ack.frame_id)

-----------------------------------------------------------------------------
(* ProcessSimpleMessage                                                    *)

\* Mutant: the failure path returns without Connection_close.
InsertStoreMessage_KeepsConnection(w) ==
  /\ pc[w] = "InsertStoreMessage"
  /\ \/ /\ message_store' = Append(message_store, StoreRowOfHead(loc[w].head))
        /\ Goto(w, "SimpleCover")
        /\ UNCHANGED <<loc, left>>
     \/ /\ SQLException
        /\ Return(w)
        /\ UNCHANGED message_store
  /\ UNCHANGED <<message_cache, sate_cover, pool, qos, history, up, clock>>

\* Mutant: the result of the insert is not looked at.
InsertStoreMessage_GoesOn(w) ==
  /\ pc[w] = "InsertStoreMessage"
  /\ \/ message_store' = Append(message_store, StoreRowOfHead(loc[w].head)) /\ UNCHANGED left
     \/ SQLException /\ UNCHANGED message_store
  /\ Goto(w, "SimpleCover")
  /\ UNCHANGED <<message_cache, sate_cover, pool, loc, qos, history, up, clock>>

InsertStoreMessage(w) ==
  /\ pc[w] = "InsertStoreMessage"
  /\ \/ /\ message_store' = Append(message_store, StoreRowOfHead(loc[w].head))
        /\ Goto(w, "SimpleCover")
        /\ UNCHANGED <<conn, leaked, loc, left>>
     \/ /\ SQLException
        /\ Connection_close(w)
        /\ Return(w)
        /\ UNCHANGED message_store
  /\ UNCHANGED <<message_cache, sate_cover, qos, history, up, clock>>

\* A failed SELECT leaves the list empty; an empty list is not sent to.
SimpleCover(w) ==
  /\ pc[w] = "SimpleCover"
  /\ Connection_close(w)
  /\ LET sates == GetSateCover(sate_cover, loc[w].head.to_id) IN
       \/ /\ DOMAIN sates # {}
          /\ loc' = [loc EXCEPT ![w].sates = sates]
          /\ Goto(w, "SendMessage")
          /\ UNCHANGED left
       \/ /\ (DOMAIN sates = {} /\ UNCHANGED left) \/ SQLException
          /\ Return(w)
  /\ UNCHANGED <<tables, qos, history, up, clock>>

-----------------------------------------------------------------------------
(* ProcessCompleteMessage                                                  *)

\* Mutant: REPLACE instead of INSERT, a repeated message starts its retries again.
InsertOfflineMessage_Replace(w) ==
  /\ pc[w] = "InsertOfflineMessage"
  /\ LET old == RowsOf(message_cache, HeadKey(loc[w].head))
         rid == IF old = {} THEN Len(picked) + 1 ELSE (CHOOSE row \in old : TRUE).rid
     IN /\ message_cache' = (message_cache \ old) \cup {OfflineRow(loc[w].head, rid, clock)}
        /\ picked' = IF old = {} THEN Append(picked, 0) ELSE picked
  /\ Goto(w, "CoverTo")
  /\ UNCHANGED <<message_store, sate_cover, pool, loc, qos, air, receipted, reported, env>>

InsertOfflineMessage(w) ==
  /\ pc[w] = "InsertOfflineMessage"
  /\ UniqueKey => RowsOf(message_cache, HeadKey(loc[w].head)) = {}
  /\ message_cache' =
       message_cache \cup {OfflineRow(loc[w].head, Len(picked) + 1, clock)}
  /\ picked' = Append(picked, 0)
  /\ Goto(w, "CoverTo")
  /\ UNCHANGED <<message_store, sate_cover, pool, loc, qos, air, receipted, reported, env>>

\* Mutant: the result of the insert is not looked at.
InsertOfflineFails_GoesOn(w) ==
  /\ pc[w] = "InsertOfflineMessage"
  /\ SQLException
  /\ Goto(w, "CoverTo")
  /\ UNCHANGED <<tables, pool, loc, qos, history, up, clock>>

\* The failure path clears the connection instead of closing it.
InsertOfflineFails(w) ==
  /\ pc[w] = "InsertOfflineMessage"
  /\ \/ UniqueKey /\ RowsOf(message_cache, HeadKey(loc[w].head)) # {} /\ UNCHANGED left
     \/ SQLException
  /\ Connection_clear(w)
  /\ Return(w)
  /\ UNCHANGED <<tables, qos, history, up, clock>>

CoverTo(w) ==
  /\ pc[w] = "CoverTo"
  /\ \/ /\ loc' = [loc EXCEPT ![w].sates = GetSateCover(sate_cover, loc[w].head.to_id)]
        /\ UNCHANGED left
     \/ SQLException /\ UNCHANGED loc
  /\ Goto(w, "CoverFrom")
  /\ UNCHANGED <<tables, pool, qos, history, up, clock>>

\* Then Connection_close; the receipt for the sender goes out first.
CoverFrom(w) ==
  /\ pc[w] = "CoverFrom"
  /\ \/ /\ loc' = [loc EXCEPT ![w].sates_from = GetSateCover(sate_cover, loc[w].head.from_id)]
        /\ UNCHANGED left
     \/ SQLException /\ UNCHANGED loc
  /\ Connection_close(w)
  /\ Goto(w, "SendReceipt")
  /\ UNCHANGED <<tables, qos, history, up, clock>>

\* Mutant: the receipt is sent again and again until a call succeeds.
SendReceipt_UntilSent(w) ==
  /\ pc[w] = "SendReceipt"
  /\ LET head == loc[w].head
         frames == Frames(head.from_id,
                          ResponseEncode(head.from_id, ServerId, head.frame_id, SENDER_RECEIPT, 0),
                          loc[w].sates_from, 10)
     IN frames # {} /\ air' = air \cup frames
  /\ IF DOMAIN loc[w].sates = {} THEN Return(w) ELSE Goto(w, "SendMessage") /\ UNCHANGED loc
  /\ UNCHANGED <<tables, pool, qos, receipted, reported, picked, env>>

SendReceipt(w) ==
  /\ pc[w] = "SendReceipt"
  /\ LET head == loc[w].head IN
       SendMessage(head.from_id,
                   ResponseEncode(head.from_id, ServerId, head.frame_id, SENDER_RECEIPT, 0),
                   loc[w].sates_from, 10)
  /\ IF DOMAIN loc[w].sates = {} THEN Return(w) ELSE Goto(w, "SendMessage") /\ UNCHANGED loc
  /\ UNCHANGED <<tables, pool, qos, receipted, reported, picked, env>>

\* The last step of ProcessSimpleMessage and of ProcessCompleteMessage.
SendToRecipient(w) ==
  /\ pc[w] = "SendMessage"
  /\ SendMessage(loc[w].head.to_id, MessageEncode(loc[w].head), loc[w].sates, 5)
  /\ Return(w)
  /\ UNCHANGED <<tables, pool, qos, receipted, reported, picked, env>>

-----------------------------------------------------------------------------
(* ProcessReceipt                                                          *)

\* Mutant: msg.type is not looked at.
GetOffline_AnyType(w) ==
  /\ pc[w] = "GetOfflineMessage"
  /\ \E item \in GetOfflineMessage(message_cache, ReceiptKey(loc[w].head)) :
       loc' = [loc EXCEPT ![w].item = item]
  /\ Goto(w, "DeleteOfflineMessage")
  /\ UNCHANGED <<tables, pool, qos, history, env>>

\* The test of msg.type follows the SELECT at once: only a 0x60 item, read from
\* the table or found in the uninitialised local, goes on to the DELETE.
GetOffline(w) ==
  /\ pc[w] = "GetOfflineMessage"
  /\ \/ \E item \in GetOfflineMessage(message_cache, ReceiptKey(loc[w].head)) :
          /\ item.type = COMPLETE_MESSAGE
          /\ loc' = [loc EXCEPT ![w].item = item]
          /\ Goto(w, "DeleteOfflineMessage")
          /\ UNCHANGED <<conn, leaked, left>>
     \/ /\ \/ /\ \E item \in GetOfflineMessage(message_cache, ReceiptKey(loc[w].head)) :
                   item.type # COMPLETE_MESSAGE
              /\ UNCHANGED left
           \/ SQLException
        /\ Connection_close(w)
        /\ Return(w)
  /\ UNCHANGED <<tables, qos, history, up, clock>>

DeleteOffline(w) ==
  /\ pc[w] = "DeleteOfflineMessage"
  /\ \/ /\ message_cache' = DeleteOfflineMessage(message_cache, ReceiptKey(loc[w].head))
        /\ UNCHANGED left
     \/ SQLException /\ UNCHANGED message_cache
  /\ Goto(w, "ArchiveMessage")
  /\ UNCHANGED <<message_store, sate_cover, pool, loc, qos, history, up, clock>>

ArchiveMessage(w) ==
  /\ pc[w] = "ArchiveMessage"
  /\ \/ /\ message_store' = Append(message_store, StoreRowOfItem(loc[w].item))
        /\ UNCHANGED left
     \/ SQLException /\ UNCHANGED message_store
  /\ Connection_close(w)
  /\ Return(w)
  /\ UNCHANGED <<message_cache, sate_cover, qos, history, up, clock>>

-----------------------------------------------------------------------------
MessageStep(w) ==
  \/ InsertStoreMessage(w)
  \/ SimpleCover(w)
  \/ InsertOfflineMessage(w)
  \/ InsertOfflineFails(w)
  \/ CoverTo(w)
  \/ CoverFrom(w)
  \/ SendReceipt(w)
  \/ SendToRecipient(w)
  \/ GetOffline(w)
  \/ DeleteOffline(w)
  \/ ArchiveMessage(w)
=============================================================================
