--------------------------- MODULE CustodyService ---------------------------
(***************************************************************************)
(* What the logic server promises about complete messages, without         *)
(* threads, tables, retries or crashes.  A message is a key <<from_id,     *)
(* to_id, frame_id>>.  The service accepts a message, promises its sender  *)
(* to take care of it, delivers it, is told by the recipient, and only     *)
(* then forgets it.  Nothing obliges it to do any of these: the order is   *)
(* what it promises.                                                       *)
(***************************************************************************)
CONSTANT Keys      \* the messages terminals can submit

VARIABLES
  held,            \* messages the service keeps
  done,            \* messages whose recipient has answered
  promised,        \* <<from_id, frame_id>> of the frames whose sender was answered
  delivered        \* messages that went out to their recipient

vars == <<held, done, promised, delivered>>

\* Messages the service still answers for, or whose recipient has answered.
InCustody == held \cup done

Init == held = {} /\ done = {} /\ promised = {} /\ delivered = {}

Accept(k) ==
  /\ held' = held \cup {k}
  /\ UNCHANGED <<done, promised, delivered>>

Promise(k) ==
  /\ k \in InCustody
  /\ promised' = promised \cup {<<k[1], k[3]>>}
  /\ UNCHANGED <<held, done, delivered>>

Deliver(k) ==
  /\ k \in InCustody
  /\ delivered' = delivered \cup {k}
  /\ UNCHANGED <<held, done, promised>>

\* A recipient answers only what was delivered to it.
Acknowledge(k) ==
  /\ k \in delivered
  /\ done' = done \cup {k}
  /\ UNCHANGED <<held, promised, delivered>>

Release(k) ==
  /\ k \in done
  /\ held' = held \ {k}
  /\ UNCHANGED <<done, promised, delivered>>

Next ==
  \E k \in Keys : Accept(k) \/ Promise(k) \/ Deliver(k) \/ Acknowledge(k) \/ Release(k)

Spec == Init /\ [][Next]_vars
=============================================================================
