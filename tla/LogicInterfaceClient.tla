------------------------ MODULE LogicInterfaceClient ------------------------
(***************************************************************************)
(* Remote calls with LogicInterfaceClient (thrift/LogicInterface.cpp), the *)
(* way SendHelper calls an access server and an access server calls this   *)
(* one: open a connection, call, close.  A client may make several calls   *)
(* on one connection.  Every call has the sequence number 0 and the number *)
(* of an answer is not looked at: what a call takes for its answer depends *)
(* on the order of the stream alone.                                       *)
(*                                                                         *)
(* The connection is TCP and the serving side a TThreadPoolServer, one     *)
(* worker for a connection (both external).  Neither side of a call has a  *)
(* time-out or a keepalive, except that the server gives up a connection   *)
(* on which no request comes: a connection may also break silently, with   *)
(* no FIN or RST that would tell the client.                               *)
(***************************************************************************)
EXTENDS Thrift, FiniteSets

CONSTANTS
  Connections, \* connections, each with its client and its worker
  Calls,       \* calls: a method, its argument and the fields that go on the wire
  MaxCalls,    \* bound: calls on one connection
  MaxBreaks    \* bound: connections that break

\* The argument of a call is what its fields mean by the IDL this server was built from.
\* A peer built from the same one says it with WriteArgs.
ASSUME CallsAssumption ==
  /\ \A call \in Calls :
       call.method \in processMap_ =>
         call.arg = ReadArgs(Message(call.method, "CALL", 0, call.wire, <<>>))
  /\ MaxCalls \in Nat
  /\ MaxBreaks \in Nat

VARIABLES
  cpc,         \* what each client does: "new", "open", "recv" or "closed"
  link,        \* state of the connection: "none", "up", "broken" or "silent"
  req, rep,    \* what is under way to the server and back
  worker,      \* the worker of the connection: "none", "read" or "handle"
  reading,     \* the message the worker has read
  calls,       \* history: the calls made on each connection
  ended,       \* history: how each of them has ended
  executed,    \* history: handler runs that returned, [call, fname, arg]
  breaks       \* what remains of MaxBreaks

client == <<cpc, calls, ended>>
stream == <<link, req, rep, breaks>>
server == <<worker, reading, executed>>
vars   == <<client, stream, server>>

NoMessage == Message("", "CALL", 0, <<>>, <<>>)

-----------------------------------------------------------------------------
(* The client.                                                             *)

\* client_transport->open(): a worker of the server accepts the connection.
Open(c) ==
  /\ cpc[c] = "new"
  /\ cpc' = [cpc EXCEPT ![c] = "open"]
  /\ link' = [link EXCEPT ![c] = "up"]
  /\ worker' = [worker EXCEPT ![c] = "read"]
  /\ UNCHANGED <<calls, ended, req, rep, breaks, reading, executed>>

EndCall(c, how, next) ==
  /\ ended' = [ended EXCEPT ![c] = Append(@, how)]
  /\ cpc' = [cpc EXCEPT ![c] = next]

\* send_AccessToLogic, send_LogicToAccess.  Writing to a connection that the peer has
\* left throws, or goes unnoticed; a silent connection takes the bytes and drops them.
Send(c, call) ==
  /\ cpc[c] = "open" /\ Len(calls[c]) < MaxCalls
  /\ calls' = [calls EXCEPT ![c] = Append(@, call)]
  /\ \/ /\ req' = IF link[c] = "up"
                  THEN [req EXCEPT ![c] = Append(@, Message(call.method, "CALL", 0, call.wire,
                                                            <<c, Len(calls[c]) + 1>>))]
                  ELSE req
        /\ cpc' = [cpc EXCEPT ![c] = "recv"]
        /\ UNCHANGED <<link, ended>>
     \/ /\ link[c] = "broken"
        /\ EndCall(c, "lost", "closed")
        /\ link' = [link EXCEPT ![c] = "none"]
        /\ UNCHANGED req
  /\ UNCHANGED <<rep, breaks, server>>

\* Mutant: the answer with an exception is left in the stream.
Recv_LeavesException(c) ==
  /\ cpc[c] = "recv" /\ rep[c] # <<>>
  /\ EndCall(c, IF Head(rep[c]).mtype = "EXCEPTION" THEN "exception" ELSE "returned", "open")
  /\ rep' = IF Head(rep[c]).mtype = "EXCEPTION" THEN rep ELSE [rep EXCEPT ![c] = Tail(@)]
  /\ UNCHANGED <<calls, link, req, breaks, server>>

\* recv_AccessToLogic, recv_LogicToAccess: the message is read to its end in both
\* cases, so the connection can serve another call.  The type and the name of the
\* answer are the expected ones (AnswersAreOwn): the branches that skip are not taken.
Recv(c) ==
  /\ cpc[c] = "recv" /\ rep[c] # <<>>
  /\ EndCall(c, IF Head(rep[c]).mtype = "EXCEPTION" THEN "exception" ELSE "returned", "open")
  /\ rep' = [rep EXCEPT ![c] = Tail(@)]
  /\ UNCHANGED <<calls, link, req, breaks, server>>

\* readMessageBegin on a connection that has ended throws a TTransportException; the
\* caller closes its side.  The end of a silent one is noticed if TCP still has bytes
\* to retransmit and gives up; when the request has arrived, nothing tells the caller.
RecvFails(c) ==
  /\ cpc[c] = "recv" /\ rep[c] = <<>> /\ link[c] # "up"
  /\ EndCall(c, "lost", "closed")
  /\ link' = [link EXCEPT ![c] = "none"]
  /\ UNCHANGED <<calls, req, rep, breaks, server>>

Close(c) ==
  /\ cpc[c] = "open"
  /\ cpc' = [cpc EXCEPT ![c] = "closed"]
  /\ link' = [link EXCEPT ![c] = "none"]
  /\ UNCHANGED <<calls, ended, req, rep, breaks, server>>

-----------------------------------------------------------------------------
(* The server.                                                             *)

\* The flush of an answer: it goes into the stream (and nowhere, if the connection is
\* silent) or throws, and the worker leaves the connection then.
Flush(c, answer) ==
  /\ rep' = IF link[c] = "up" THEN [rep EXCEPT ![c] = Append(@, answer)] ELSE rep
  /\ worker' = [worker EXCEPT ![c] = IF link[c] \in {"up", "silent"} THEN "read" ELSE "none"]

\* TDispatchProcessor::process and dispatchCall.
Dispatch(c) ==
  /\ worker[c] = "read" /\ req[c] # <<>>
  /\ req' = [req EXCEPT ![c] = Tail(@)]
  /\ IF Head(req[c]).fname \in processMap_
     THEN /\ reading' = [reading EXCEPT ![c] = Head(req[c])]
          /\ worker' = [worker EXCEPT ![c] = "handle"]
          /\ UNCHANGED rep
     ELSE Flush(c, UnknownMethod(Head(req[c]))) /\ UNCHANGED reading
  /\ UNCHANGED <<client, link, breaks, executed>>

\* Mutant: the exception of the handler is caught and not answered.
Process_SwallowsException(c, thrown) ==
  /\ worker[c] = "handle"
  /\ executed' =
       IF thrown THEN executed
       ELSE Append(executed, [call |-> reading[c].call, fname |-> reading[c].fname,
                              arg |-> ReadArgs(reading[c])])
  /\ IF thrown THEN UNCHANGED rep /\ worker' = [worker EXCEPT ![c] = "read"]
               ELSE Flush(c, Answer(reading[c], thrown))
  /\ reading' = [reading EXCEPT ![c] = NoMessage]
  /\ UNCHANGED <<client, link, req, breaks>>

\* process_AccessToLogic, process_LogicToAccess.
Process(c, thrown) ==
  /\ worker[c] = "handle"
  /\ executed' =
       IF thrown THEN executed
       ELSE Append(executed, [call |-> reading[c].call, fname |-> reading[c].fname,
                              arg |-> ReadArgs(reading[c])])
  /\ Flush(c, Answer(reading[c], thrown))
  /\ reading' = [reading EXCEPT ![c] = NoMessage]
  /\ UNCHANGED <<client, link, req, breaks>>

\* The worker meets the end of the stream, or its read time-out on a silent one.
Leave(c) ==
  /\ worker[c] = "read" /\ req[c] = <<>> /\ link[c] # "up"
  /\ worker' = [worker EXCEPT ![c] = "none"]
  /\ UNCHANGED <<client, stream, reading, executed>>

\* The read time-out of the server socket: no request came in time.
TimeOut(c) ==
  /\ worker[c] = "read" /\ req[c] = <<>> /\ link[c] = "up"
  /\ worker' = [worker EXCEPT ![c] = "none"]
  /\ link' = [link EXCEPT ![c] = "broken"]
  /\ UNCHANGED <<client, req, rep, breaks, reading, executed>>

\* The connection breaks, in a way both sides are told of or silently: what is under
\* way may or may not arrive.
Break(c) ==
  /\ link[c] = "up" /\ breaks > 0
  /\ \E how \in {"broken", "silent"} : link' = [link EXCEPT ![c] = how]
  /\ req' \in {req, [req EXCEPT ![c] = <<>>]}
  /\ rep' \in {rep, [rep EXCEPT ![c] = <<>>]}
  /\ breaks' = breaks - 1
  /\ UNCHANGED <<client, server>>

-----------------------------------------------------------------------------
Init ==
  /\ cpc = [c \in Connections |-> "new"]
  /\ link = [c \in Connections |-> "none"]
  /\ req = [c \in Connections |-> <<>>] /\ rep = [c \in Connections |-> <<>>]
  /\ worker = [c \in Connections |-> "none"]
  /\ reading = [c \in Connections |-> NoMessage]
  /\ calls = [c \in Connections |-> <<>>]
  /\ ended = [c \in Connections |-> <<>>]
  /\ executed = <<>>
  /\ breaks = MaxBreaks

ClientStep(c) == Recv(c) \/ RecvFails(c)

WorkerStep(c) == Dispatch(c) \/ (\E thrown \in BOOLEAN : Process(c, thrown)) \/ Leave(c)

Next ==
  \E c \in Connections :
    \/ Open(c) \/ Close(c) \/ ClientStep(c) \/ WorkerStep(c) \/ TimeOut(c) \/ Break(c)
    \/ \E call \in Calls : Send(c, call)

Spec == Init /\ [][Next]_vars

\* The peer runs its handlers to their end; an answer that is there is read, and the
\* end of a connection is noticed unless it is silent.
FairSpec ==
  /\ Spec
  /\ \A c \in Connections :
       /\ WF_vars(Recv(c) \/ (link[c] # "silent" /\ RecvFails(c)))
       /\ WF_vars(WorkerStep(c))

-----------------------------------------------------------------------------
Runs(c, i) == {k \in DOMAIN executed : executed[k].call = <<c, i>>}

\* A call is told what became of itself, although answers carry no usable number: it
\* returns only when the handler has run, once, with the method and the argument of
\* this call; it gets an exception only when the handler has not run to its end; a
\* call whose connection was lost has run at most once.
AnswersAreOwn ==
  \A c \in Connections : \A i \in DOMAIN calls[c] :
    /\ Cardinality(Runs(c, i)) <= 1
    /\ \A k \in Runs(c, i) :
         executed[k].fname = calls[c][i].method /\ executed[k].arg = calls[c][i].arg
    /\ i \in DOMAIN ended[c] =>
         /\ ended[c][i] = "returned" => Runs(c, i) # {}
         /\ ended[c][i] = "exception" => Runs(c, i) = {}
    /\ i = Len(calls[c]) /\ cpc[c] = "recv" =>
         \A j \in DOMAIN rep[c] : rep[c][j].call = <<c, i>> /\ rep[c][j].fname = calls[c][i].method

\* A call waits for ever only on a connection that has broken silently, when the peer
\* runs its handler to the end: every other fate of the request, the handler, the
\* answer and the connection ends recv_LogicToAccess.
EveryCallEnds == \A c \in Connections : cpc[c] = "recv" ~> cpc[c] # "recv" \/ link[c] = "silent"

\* The same of every connection.  It does not hold: SendHelper sets neither a receive
\* time-out nor a keepalive, and the answer may be lost silently (SilentBreak.cfg).
SilenceIsNoticed == \A c \in Connections : cpc[c] = "recv" ~> cpc[c] # "recv"
=============================================================================
