----------------------- MODULE MCLogicInterfaceClient -----------------------
(***************************************************************************)
(* Small instances of the remote calls.  Besides peers generated from this *)
(* IDL there is one whose AccessMessage has a sixth field, one in which    *)
(* beam_id is a list (the test client still has the code for it, in a      *)
(* comment), and one that calls a method this service does not have.       *)
(***************************************************************************)
EXTENDS LogicInterfaceClient

CONSTANTS k1, hello, empty

OneConnection == {k1}

Frame == [uid |-> 7, sate_id |-> 1, beam_id |-> 2, level |-> 5, content |-> hello]

Call(method, arg) == [method |-> method, arg |-> arg, wire |-> WriteArgs(method, arg)]

NewerPeer ==
  [method |-> "LogicToAccess", arg |-> Frame,
   wire |-> <<Field(1, "STRUCT", AccessMessage_write(Frame) \o <<Field(6, "I32", 9)>>)>>]

\* The number 99 stands for the encoded list.
ListPeer ==
  [method |-> "LogicToAccess", arg |-> [Frame EXCEPT !.beam_id = 0],
   wire |-> <<Field(1, "STRUCT", [AccessMessage_write(Frame) EXCEPT ![3] = Field(3, "LIST", 99)])>>]

AllCalls ==
  {Call("AccessToLogic", hello), Call("LogicToAccess", Frame), NewerPeer, ListPeer,
   Call("Inquire", hello)}
=============================================================================
