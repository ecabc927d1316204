---------------------------- MODULE MobileManager ----------------------------
(***************************************************************************)
(* logic/mobile_manager.cpp: log-in, log-out and mobility reports.  A      *)
(* report whose sat_cover_num is 0 is dropped before a connection is taken *)
(* (see AccessToLogic).  The answer to a log-in or a report goes out on    *)
(* the beams of the request, the answer to a log-out on the beams that     *)
(* were stored before it.                                                  *)
(***************************************************************************)
EXTENDS ServerState

Reply(w, receipt_type, receipt_indicate) ==
  loc' = [loc EXCEPT ![w].reply =
            [receipt_type |-> receipt_type, receipt_indicate |-> receipt_indicate]]

\* Connection_close, then ResponseEncode and SendMessage.
Answer(w) ==
  /\ Connection_close(w)
  /\ Goto(w, "SendReply")

\* receipt_indicate is one byte: 0xFF stands for 255 messages or more.
Indicate(num) == IF num < INDICATE_MAX THEN num ELSE INDICATE_MAX

-----------------------------------------------------------------------------
(* ProcessLogin                                                            *)

\* Mutant: the result of IsExistUser is not looked at.
CheckUser_Ignored(w) ==
  /\ pc[w] = "IsExistUser"
  /\ Goto(w, "LoginUpdate")
  /\ UNCHANGED <<tables, pool, loc, qos, history, env>>

CheckUser(w) ==
  /\ pc[w] = "IsExistUser"
  /\ \/ /\ IsExistUser(loc[w].head.from_id)
        /\ Goto(w, "LoginUpdate")
        /\ UNCHANGED <<pool, loc, left>>
     \/ /\ (~IsExistUser(loc[w].head.from_id) /\ UNCHANGED left) \/ SQLException
        /\ Reply(w, LOGIN_FAILED, 0)
        /\ Answer(w)
  /\ UNCHANGED <<tables, qos, history, up, clock>>

LoginUpdate(w) ==
  /\ pc[w] = "LoginUpdate"
  /\ CoverAssertion(loc[w].head.sates)
  /\ \/ /\ sate_cover' = UpdateSateCover(sate_cover, loc[w].head.from_id, loc[w].head.sates)
        /\ Goto(w, "GetOfflineMessageNum")
        /\ UNCHANGED <<pool, loc, left>>
     \/ /\ SQLException
        /\ Reply(w, LOGIN_FAILED, 0)
        /\ Answer(w)
        /\ UNCHANGED sate_cover
  /\ UNCHANGED <<message_cache, message_store, qos, history, up, clock>>

\* A failed COUNT counts as 0.
LoginCount(w) ==
  /\ pc[w] = "GetOfflineMessageNum"
  /\ \/ /\ Reply(w, LOGIN_OK,
                 Indicate(GetOfflineMessageNum(message_cache, loc[w].head.from_id)))
        /\ UNCHANGED left
     \/ Reply(w, LOGIN_OK, 0) /\ SQLException
  /\ Answer(w)
  /\ UNCHANGED <<tables, qos, history, up, clock>>

-----------------------------------------------------------------------------
(* ProcessLogout: coverage is read, then cleared; neither result is looked *)
(* at.                                                                     *)

LogoutCover(w) ==
  /\ pc[w] = "LogoutCover"
  /\ \/ /\ loc' = [loc EXCEPT
                     ![w].sates = GetSateCover(sate_cover, loc[w].head.from_id),
                     ![w].reply = [receipt_type |-> LOGOUT_DONE, receipt_indicate |-> 0]]
        /\ UNCHANGED left
     \/ /\ Reply(w, LOGOUT_DONE, 0)
        /\ SQLException
  /\ Goto(w, "LogoutUpdate")
  /\ UNCHANGED <<tables, pool, qos, history, up, clock>>

LogoutUpdate(w) ==
  /\ pc[w] = "LogoutUpdate"
  /\ \/ /\ sate_cover' = UpdateSateCover(sate_cover, loc[w].head.from_id, <<>>)
        /\ UNCHANGED left
     \/ SQLException /\ UNCHANGED sate_cover
  /\ Answer(w)
  /\ UNCHANGED <<message_cache, message_store, loc, qos, history, up, clock>>

-----------------------------------------------------------------------------
(* ProcessMobileRequest: no look at user_info, and the result of the       *)
(* update is ignored.                                                      *)

MobileUpdate(w) ==
  /\ pc[w] = "MobileUpdate"
  /\ CoverAssertion(loc[w].head.sates)
  /\ \/ /\ sate_cover' = UpdateSateCover(sate_cover, loc[w].head.from_id, loc[w].head.sates)
        /\ UNCHANGED left
     \/ SQLException /\ UNCHANGED sate_cover
  /\ Reply(w, MOBILE_DONE, 0)
  /\ Answer(w)
  /\ UNCHANGED <<message_cache, message_store, qos, history, up, clock>>

-----------------------------------------------------------------------------
SendReply(w) ==
  /\ pc[w] = "SendReply"
  /\ LET head == loc[w].head
         reply == loc[w].reply
     IN SendMessage(head.from_id,
                    ResponseEncode(head.from_id, head.to_id, head.frame_id,
                                   reply.receipt_type, reply.receipt_indicate),
                    IF head.type = Logout THEN loc[w].sates ELSE head.sates, 10)
  /\ Return(w)
  /\ UNCHANGED <<tables, pool, qos, receipted, reported, picked, env>>

MobileStep(w) ==
  \/ CheckUser(w)
  \/ LoginUpdate(w)
  \/ LoginCount(w)
  \/ LogoutCover(w)
  \/ LogoutUpdate(w)
  \/ MobileUpdate(w)
  \/ SendReply(w)

\* The assert of UpdateSateCover on the beam numbers: a failing one aborts the process.
AssertFails(w) ==
  /\ pc[w] \in {"LoginUpdate", "MobileUpdate"}
  /\ ~CoverAssertion(loc[w].head.sates)
=============================================================================
