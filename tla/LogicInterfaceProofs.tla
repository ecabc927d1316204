------------------------ MODULE LogicInterfaceProofs ------------------------
(***************************************************************************)
(* Proofs about the remote calls of LogicInterfaceClient: what a peer      *)
(* writes is what the handler reads, and a call is told what became of     *)
(* itself although answers carry no usable number.                         *)
(***************************************************************************)
EXTENDS LogicInterfaceClient, FiniteSetTheorems, SequenceTheorems, TLAPS

\* The last call made on a connection, as its request says it.
Last(c) == Len(calls[c])

Request(c) ==
  Message(calls[c][Last(c)].method, "CALL", 0, calls[c][Last(c)].wire, <<c, Last(c)>>)

\* The server has still to run the handler of the last call, or runs it.
Pending(c) == req[c] # <<>> \/ worker[c] = "handle"

\* How calls end.
Ends == {"returned", "exception", "lost"}

Executions ==
  [call : Connections \X Nat, fname : processMap_, arg : {call.arg : call \in Calls}]

CallsOK ==
  /\ calls \in [Connections -> Seq(Calls)]
  /\ ended \in [Connections -> Seq(Ends)]
  /\ executed \in Seq(Executions)
  /\ cpc = [c \in Connections |-> cpc[c]]
  /\ worker = [c \in Connections |-> worker[c]]
  /\ reading = [c \in Connections |-> reading[c]]
  /\ req = [c \in Connections |-> req[c]]
  /\ rep = [c \in Connections |-> rep[c]]

\* The client's side: one call is open while it waits in recv, none otherwise.
ClientInv(c) ==
  /\ cpc[c] \in {"new", "open", "recv", "closed"}
  /\ Len(ended[c]) = IF cpc[c] = "recv" THEN Last(c) - 1 ELSE Last(c)

\* The stream holds at most one message of the last call: its request, or its answer.
\* A call may be pending after its client has given it up.
StreamInv(c) ==
  /\ req[c] = <<>> \/ req[c] = <<Request(c)>>
  /\ worker[c] = "handle" =>
       req[c] = <<>> /\ reading[c] = Request(c) /\ Request(c).fname \in processMap_
  /\ Pending(c) =>
       /\ Last(c) > 0
       /\ rep[c] = <<>>
       /\ Runs(c, Last(c)) = {}
       /\ cpc[c] = "recv" \/ (cpc[c] = "closed" /\ ended[c][Last(c)] = "lost")
  /\ \/ rep[c] = <<>>
     \/ /\ cpc[c] \in {"recv", "closed"}
        /\ \E thrown \in BOOLEAN :
             rep[c] = <<Answer(Request(c), thrown)>> /\ (thrown <=> Runs(c, Last(c)) = {})

\* The handler has run at most once for a call, with what the call said, and the call
\* has ended accordingly; a call that was not made has not run.
RunsInv(c) ==
  /\ \A i \in 1 .. Last(c) :
       /\ \A k, l \in Runs(c, i) : k = l
       /\ \A k \in Runs(c, i) :
            executed[k].fname = calls[c][i].method /\ executed[k].arg = calls[c][i].arg
  /\ \A i \in 1 .. Len(ended[c]) :
       /\ ended[c][i] = "returned" => Runs(c, i) # {}
       /\ ended[c][i] = "exception" => Runs(c, i) = {}
  /\ \A i \in Nat : i > Last(c) => Runs(c, i) = {}

ConnectionInv(c) == ClientInv(c) /\ StreamInv(c) /\ RunsInv(c)

CallInv == CallsOK /\ \A c \in Connections : ConnectionInv(c)

----------------------------------------------------------------------------
(* What a peer writes is what the handler reads.                           *)

\* read() stores the value of the only field that has the id and the type of a member.
LEMMA ReadOnly ==
  ASSUME NEW fields, NEW initial, NEW i \in DOMAIN fields, i \in Nat,
         \A j \in DOMAIN fields : fields[j].fid = fields[i].fid => j = i
  PROVE  ReadField(fields, fields[i].fid, fields[i].ftype, initial) = fields[i].value
<1> DEFINE stored == {j \in DOMAIN fields : fields[j].fid = fields[i].fid /\ fields[j].ftype = fields[i].ftype}
<1>1. stored = {i}
  OBVIOUS
<1>2. Max(stored) = i
  BY <1>1 DEF Max
<1> QED
  BY <1>1, <1>2 DEF ReadField

\* A member is read from the fields of its struct whatever unknown fields follow.
LEMMA ReadMember ==
  ASSUME NEW V, NEW fields \in Seq(V), NEW extra \in Seq(V), NEW i \in 1 .. Len(fields),
         NEW initial,
         \A j \in 1 .. Len(fields) : fields[j].fid = fields[i].fid => j = i,
         \A j \in DOMAIN extra : extra[j].fid # fields[i].fid
  PROVE  ReadField(fields \o extra, fields[i].fid, fields[i].ftype, initial) = fields[i].value
<1> DEFINE all == fields \o extra
<1>1. /\ all \in Seq(V) /\ Len(all) = Len(fields) + Len(extra)
      /\ \A j \in 1 .. Len(fields) : all[j] = fields[j]
      /\ \A j \in 1 .. Len(extra) : all[Len(fields) + j] = extra[j]
  BY ConcatProperties
<1>2. i \in DOMAIN all /\ i \in Nat /\ all[i] = fields[i]
  BY <1>1
<1>3. ASSUME NEW j \in DOMAIN all, all[j].fid = fields[i].fid
      PROVE  j = i
  <2>1. CASE j \in 1 .. Len(fields)
    BY <1>1, <1>3, <2>1
  <2>2. CASE j \notin 1 .. Len(fields)
    <3>1. j - Len(fields) \in 1 .. Len(extra)
      BY <1>1, <2>2
    <3>2. all[j] = extra[j - Len(fields)]
      BY <1>1, <3>1
    <3> QED
      BY <1>3, <3>1, <3>2
  <2> QED
    BY <2>1, <2>2
<1>4. \A j \in DOMAIN all : all[j].fid = all[i].fid => j = i
  BY <1>2, <1>3
<1> HIDE DEF all
<1>5. ReadField(all, all[i].fid, all[i].ftype, initial) = all[i].value
  BY <1>2, <1>4, ReadOnly
<1>6. ReadField(all, fields[i].fid, fields[i].ftype, initial) = fields[i].value
  BY <1>2, <1>5
<1> QED
  BY <1>6 DEF all

\* Fields a later IDL has added: their ids are not among the known ones.
Unknown(extra, known) == \A j \in DOMAIN extra : extra[j].fid \notin known

Fields(Values) == [fid : Int, ftype : {"I32", "STRING", "STRUCT", "LIST"}, value : Values]

AccessMessages(Values) ==
  [uid : Values, sate_id : Values, beam_id : Values, level : Values, content : Values]

\* AccessMessage::read gets back what AccessMessage::write wrote, from a peer of a later
\* IDL as well: the fields it does not know are skipped.
THEOREM AccessMessageIsReadBack ==
  ASSUME NEW Values, NEW m \in AccessMessages(Values), NEW extra \in Seq(Fields(Values)),
         Unknown(extra, 1 .. 5)
  PROVE  AccessMessage_read(AccessMessage_write(m) \o extra) = m
<1> DEFINE fields == AccessMessage_write(m)
           V == Fields(Values)
<1>1. /\ m.uid \in Values /\ m.sate_id \in Values /\ m.beam_id \in Values
      /\ m.level \in Values /\ m.content \in Values
      /\ m = [uid |-> m.uid, sate_id |-> m.sate_id, beam_id |-> m.beam_id,
              level |-> m.level, content |-> m.content]
  BY DEF AccessMessages
<1>2. /\ fields \in Seq(V) /\ Len(fields) = 5
  BY <1>1 DEF AccessMessage_write, Field, Fields
<1>3. /\ fields[1] = Field(1, "I32", m.uid)
      /\ fields[2] = Field(2, "I32", m.sate_id)
      /\ fields[3] = Field(3, "I32", m.beam_id)
      /\ fields[4] = Field(4, "I32", m.level)
      /\ fields[5] = Field(5, "STRING", m.content)
  BY DEF AccessMessage_write
<1>4. \A i \in 1 .. 5 : fields[i].fid = i
  BY <1>3 DEF Field
<1> HIDE DEF fields, V
<1>5. ASSUME NEW i \in 1 .. 5, NEW initial
      PROVE  ReadField(fields \o extra, i, fields[i].ftype, initial) = fields[i].value
  <2>1. i \in 1 .. Len(fields) /\ fields[i].fid = i /\ fields[i].fid \in 1 .. 5
    BY <1>2, <1>4
  <2>2. \A j \in 1 .. Len(fields) : fields[j].fid = fields[i].fid => j = i
    BY <1>2, <1>4
  <2>3. extra \in Seq(V) /\ \A j \in DOMAIN extra : extra[j].fid # fields[i].fid
    BY <2>1 DEF V, Unknown
  <2>4. ReadField(fields \o extra, fields[i].fid, fields[i].ftype, initial) = fields[i].value
    BY <1>2, <2>1, <2>2, <2>3, ReadMember, Zenon
  <2> QED
    BY <2>1, <2>4
<1>6. /\ ReadField(fields \o extra, 1, "I32", 0) = m.uid
      /\ ReadField(fields \o extra, 2, "I32", 0) = m.sate_id
      /\ ReadField(fields \o extra, 3, "I32", 0) = m.beam_id
      /\ ReadField(fields \o extra, 4, "I32", 0) = m.level
      /\ ReadField(fields \o extra, 5, "STRING", EmptyString) = m.content
  <2>1. 1 \in 1 .. 5 /\ 2 \in 1 .. 5 /\ 3 \in 1 .. 5 /\ 4 \in 1 .. 5 /\ 5 \in 1 .. 5
    OBVIOUS
  <2>2. /\ fields[1].ftype = "I32" /\ fields[1].value = m.uid
        /\ fields[2].ftype = "I32" /\ fields[2].value = m.sate_id
        /\ fields[3].ftype = "I32" /\ fields[3].value = m.beam_id
        /\ fields[4].ftype = "I32" /\ fields[4].value = m.level
        /\ fields[5].ftype = "STRING" /\ fields[5].value = m.content
    BY <1>3 DEF Field
  <2> QED
    BY <1>5, <2>1, <2>2
<1> QED
  BY <1>1, <1>6 DEF AccessMessage_read, fields

\* The handler of either method is given the argument its caller has written.
THEOREM ArgumentsAreReadBack ==
  ASSUME NEW Values, NEW m \in AccessMessages(Values), NEW request, NEW seqid, NEW call
  PROVE  /\ ReadArgs(Message("LogicToAccess", "CALL", seqid, WriteArgs("LogicToAccess", m), call)) = m
         /\ ReadArgs(Message("AccessToLogic", "CALL", seqid, WriteArgs("AccessToLogic", request), call))
              = request
<1>1. ASSUME NEW ftype, NEW value, NEW initial
      PROVE  ReadField(<<Field(1, ftype, value)>>, 1, ftype, initial) = value
  <2> DEFINE one == <<Field(1, ftype, value)>>
  <2>1. /\ 1 \in DOMAIN one /\ 1 \in Nat /\ \A j \in DOMAIN one : j = 1
        /\ one[1].fid = 1 /\ one[1].ftype = ftype /\ one[1].value = value
    BY DEF Field
  <2> QED
    BY <2>1, ReadOnly, Zenon
<1>2. AccessMessage_read(AccessMessage_write(m)) = m
  <2>1. /\ m.uid \in Values /\ m.sate_id \in Values /\ m.beam_id \in Values
        /\ m.level \in Values /\ m.content \in Values
    BY DEF AccessMessages
  <2>2. AccessMessage_write(m) \in Seq(Fields(Values)) /\ <<>> \in Seq(Fields(Values))
    BY <2>1 DEF AccessMessage_write, Field, Fields
  <2>3. AccessMessage_write(m) \o <<>> = AccessMessage_write(m)
    BY <2>2, ConcatEmptySeq
  <2>4. Unknown(<<>>, 1 .. 5)
    BY DEF Unknown
  <2> QED
    BY <2>2, <2>3, <2>4, AccessMessageIsReadBack
<1>3. LogicToAccess_args_read(LogicToAccess_args_write(m)) = m
  BY <1>1, <1>2 DEF LogicToAccess_args_read, LogicToAccess_args_write
<1>4. AccessToLogic_args_read(AccessToLogic_args_write(request)) = request
  BY <1>1 DEF AccessToLogic_args_read, AccessToLogic_args_write
<1> QED
  BY <1>3, <1>4 DEF ReadArgs, Message, WriteArgs

----------------------------------------------------------------------------
(* Calls and runs of their handlers.                                       *)

\* A run of a handler is a run of the call it belongs to and of no other.
LEMMA RunsAppend ==
  ASSUME executed \in Seq(Executions), NEW e \in Executions, executed' = Append(executed, e)
  PROVE  /\ executed' \in Seq(Executions)
         /\ \A k \in DOMAIN executed : executed'[k] = executed[k]
         /\ executed'[Len(executed) + 1] = e
         /\ \A d, i : e.call # <<d, i>> => Runs(d, i)' = Runs(d, i)
         /\ \A d, i : e.call = <<d, i>> => Runs(d, i)' = Runs(d, i) \cup {Len(executed) + 1}
<1>1. /\ executed' \in Seq(Executions)
      /\ DOMAIN executed' = DOMAIN executed \cup {Len(executed) + 1}
      /\ \A k \in DOMAIN executed : executed'[k] = executed[k]
      /\ executed'[Len(executed) + 1] = e
  BY AppendProperties
<1>2. Len(executed) + 1 \notin DOMAIN executed
  OBVIOUS
<1>3. ASSUME NEW d, NEW i, e.call # <<d, i>>
      PROVE  Runs(d, i)' = Runs(d, i)
  BY <1>1, <1>2, <1>3 DEF Runs
<1>4. ASSUME NEW d, NEW i, e.call = <<d, i>>
      PROVE  Runs(d, i)' = Runs(d, i) \cup {Len(executed) + 1}
  BY <1>1, <1>2, <1>4 DEF Runs
<1> QED
  BY <1>1, <1>3, <1>4

\* A step that leaves a connection and the runs of its calls alone keeps its invariant.
LEMMA OtherConnection ==
  ASSUME NEW d \in Connections, ConnectionInv(d),
         cpc'[d] = cpc[d], req'[d] = req[d], rep'[d] = rep[d], worker'[d] = worker[d],
         reading'[d] = reading[d], calls'[d] = calls[d], ended'[d] = ended[d],
         \A i : Runs(d, i)' = Runs(d, i),
         \A k \in DOMAIN executed : executed'[k] = executed[k]
  PROVE  ConnectionInv(d)'
<1>1. Last(d)' = Last(d) /\ Request(d)' = Request(d) /\ Pending(d)' = Pending(d)
  BY DEF Last, Request, Pending
<1>2. ClientInv(d)'
  BY <1>1 DEF ConnectionInv, ClientInv
<1>3. StreamInv(d)'
  BY <1>1 DEF ConnectionInv, StreamInv, Pending
<1>4. RunsInv(d)'
  <2>1. \A i : \A k \in Runs(d, i) : executed'[k] = executed[k]
    BY DEF Runs
  <2> QED
    BY <1>1, <2>1 DEF ConnectionInv, RunsInv
<1> QED
  BY <1>2, <1>3, <1>4 DEF ConnectionInv

\* The types of what one connection has called.
LEMMA CallTypes ==
  ASSUME CallsOK, NEW c \in Connections
  PROVE  /\ calls[c] \in Seq(Calls) /\ Last(c) \in Nat
         /\ ended[c] \in Seq(Ends) /\ Len(ended[c]) \in Nat
         /\ DOMAIN ended[c] = 1 .. Len(ended[c])
         /\ DOMAIN calls[c] = 1 .. Last(c)
BY DEF CallsOK, Last

\* Only one connection and its side of the history changes in a step.
OnlyAt(c) ==
  \A d \in Connections \ {c} :
    /\ cpc'[d] = cpc[d] /\ req'[d] = req[d] /\ rep'[d] = rep[d] /\ worker'[d] = worker[d]
    /\ reading'[d] = reading[d] /\ calls'[d] = calls[d] /\ ended'[d] = ended[d]

\* Steps that run no handler: it is enough to look at the connection that moves.
LEMMA QuietStep ==
  ASSUME CallInv, NEW c \in Connections, UNCHANGED executed, CallsOK', OnlyAt(c),
         ConnectionInv(c)'
  PROVE  CallInv'
<1>1. \A d, i : Runs(d, i)' = Runs(d, i)
  BY DEF Runs
<1>2. ASSUME NEW d \in Connections \ {c} PROVE ConnectionInv(d)'
  BY <1>1, <1>2, OtherConnection DEF CallInv, OnlyAt
<1> QED
  BY <1>2 DEF CallInv

\* Open: nothing has been called yet.
LEMMA OpenStep ==
  ASSUME CallInv, NEW c \in Connections, Open(c)
  PROVE  CallInv'
<1>1. CallsOK'
  BY DEF CallInv, CallsOK, Open
<1>2. OnlyAt(c)
  BY DEF CallInv, CallsOK, Open, OnlyAt
<1>3. /\ cpc[c] = "new" /\ cpc'[c] = "open" /\ worker'[c] = "read"
      /\ UNCHANGED <<calls, ended, req, rep, reading, executed>>
  BY DEF CallInv, CallsOK, Open
<1>4. ConnectionInv(c)
  BY DEF CallInv
<1>5. /\ Last(c)' = Last(c) /\ Request(c)' = Request(c)
      /\ \A i : Runs(c, i)' = Runs(c, i)
  BY <1>3 DEF Last, Request, Runs
<1>6. req[c] = <<>> /\ rep[c] = <<>>
  BY <1>3, <1>4 DEF ConnectionInv, StreamInv, Pending
<1>7. ClientInv(c)'
  BY <1>3, <1>4, <1>5 DEF ConnectionInv, ClientInv
<1>8. StreamInv(c)'
  BY <1>3, <1>5, <1>6 DEF StreamInv, Pending
<1>9. RunsInv(c)'
  BY <1>3, <1>4, <1>5 DEF ConnectionInv, RunsInv
<1> QED
  BY <1>1, <1>2, <1>3, <1>7, <1>8, <1>9, QuietStep DEF ConnectionInv

\* Close: the client waits for nothing.
LEMMA CloseStep ==
  ASSUME CallInv, NEW c \in Connections, Close(c)
  PROVE  CallInv'
<1>1. CallsOK'
  BY DEF CallInv, CallsOK, Close, server
<1>2. OnlyAt(c)
  BY DEF CallInv, CallsOK, Close, OnlyAt, server
<1>3. /\ cpc[c] = "open" /\ cpc'[c] = "closed"
      /\ UNCHANGED <<calls, ended, req, rep, worker, reading, executed>>
  BY DEF CallInv, CallsOK, Close, server
<1>4. ConnectionInv(c)
  BY DEF CallInv
<1>5. /\ Last(c)' = Last(c) /\ Request(c)' = Request(c)
      /\ \A i : Runs(c, i)' = Runs(c, i)
  BY <1>3 DEF Last, Request, Runs
<1>6. ~ Pending(c) /\ req[c] = <<>> /\ rep[c] = <<>>
  BY <1>3, <1>4 DEF ConnectionInv, StreamInv, Pending
<1>7. ClientInv(c)'
  BY <1>3, <1>4, <1>5 DEF ConnectionInv, ClientInv
<1>8. StreamInv(c)'
  BY <1>3, <1>5, <1>6 DEF StreamInv, Pending
<1>9. RunsInv(c)'
  BY <1>3, <1>4, <1>5 DEF ConnectionInv, RunsInv
<1> QED
  BY <1>1, <1>2, <1>3, <1>7, <1>8, <1>9, QuietStep DEF ConnectionInv

\* Leave, TimeOut, Break: what is under way may be lost, nothing is added.
LEMMA LossStep ==
  ASSUME CallInv, NEW c \in Connections, Leave(c) \/ TimeOut(c) \/ Break(c)
  PROVE  CallInv'
<1> USE DEF Leave, TimeOut, Break, client, server, stream
<1>1. UNCHANGED <<cpc, calls, ended, reading, executed>>
  OBVIOUS
<1>2. /\ req' = [d \in Connections |-> req'[d]] /\ rep' = [d \in Connections |-> rep'[d]]
      /\ worker' = [d \in Connections |-> worker'[d]]
      /\ \A d \in Connections \ {c} :
           req'[d] = req[d] /\ rep'[d] = rep[d] /\ worker'[d] = worker[d]
      /\ req'[c] \in {req[c], <<>>} /\ rep'[c] \in {rep[c], <<>>}
      /\ worker'[c] # "handle" \/ worker'[c] = worker[c]
  <2>1. CASE Leave(c) \/ TimeOut(c)
    BY <2>1 DEF CallInv, CallsOK
  <2>2. CASE Break(c)
    BY <2>2 DEF CallInv, CallsOK
  <2> QED
    BY <2>1, <2>2
<1>3. CallsOK' /\ OnlyAt(c)
  BY <1>1, <1>2 DEF CallInv, CallsOK, OnlyAt
<1>4. ConnectionInv(c)
  BY DEF CallInv
<1>5. /\ Last(c)' = Last(c) /\ Request(c)' = Request(c)
      /\ \A i : Runs(c, i)' = Runs(c, i)
  BY <1>1 DEF Last, Request, Runs
<1> HIDE DEF Leave, TimeOut, Break, client, server, stream
<1>6. Pending(c)' => Pending(c)
  BY <1>2 DEF Pending
<1>7. ClientInv(c)'
  BY <1>1, <1>4, <1>5 DEF ConnectionInv, ClientInv
<1>8. StreamInv(c)'
  <2>1. req'[c] = <<>> \/ req'[c] = <<Request(c)>>
    BY <1>2, <1>4 DEF ConnectionInv, StreamInv
  <2>2. worker'[c] = "handle" =>
          /\ req'[c] = <<>> /\ reading'[c] = Request(c) /\ Request(c).fname \in processMap_
    BY <1>1, <1>2, <1>4 DEF ConnectionInv, StreamInv
  <2>3. Pending(c) =>
          /\ Last(c) > 0
          /\ rep'[c] = <<>>
          /\ Runs(c, Last(c)) = {}
          /\ cpc[c] = "recv" \/ (cpc[c] = "closed" /\ ended[c][Last(c)] = "lost")
    BY <1>2, <1>4 DEF ConnectionInv, StreamInv
  <2>4. \/ rep'[c] = <<>>
        \/ /\ cpc[c] \in {"recv", "closed"}
           /\ \E thrown \in BOOLEAN :
                rep'[c] = <<Answer(Request(c), thrown)>> /\ (thrown <=> Runs(c, Last(c)) = {})
    BY <1>2, <1>4 DEF ConnectionInv, StreamInv
  <2> QED
    BY <1>1, <1>5, <1>6, <2>1, <2>2, <2>3, <2>4 DEF StreamInv
<1>9. RunsInv(c)'
  BY <1>1, <1>4, <1>5 DEF ConnectionInv, RunsInv
<1> QED
  BY <1>1, <1>3, <1>7, <1>8, <1>9, QuietStep DEF ConnectionInv

\* The end of a call is added to those of the calls before it.
LEMMA EndAppended ==
  ASSUME NEW s \in Seq(Ends), NEW how \in Ends, NEW n, n = Len(s)
  PROVE  /\ Append(s, how) \in Seq(Ends)
         /\ Len(Append(s, how)) = n + 1
         /\ \A i \in 1 .. n : Append(s, how)[i] = s[i]
         /\ Append(s, how)[n + 1] = how
BY AppendProperties

\* send_AccessToLogic and send_LogicToAccess: the stream is empty before, and the call
\* has not run.
LEMMA SendStep ==
  ASSUME CallInv, NEW c \in Connections, NEW call \in Calls, Send(c, call)
  PROVE  CallInv'
<1> DEFINE n == Last(c)
           new == Message(call.method, "CALL", 0, call.wire, <<c, n + 1>>)
<1>1. /\ cpc[c] = "open" /\ ConnectionInv(c) /\ CallsOK
  BY DEF CallInv, Send
<1>2. /\ calls[c] \in Seq(Calls) /\ n \in Nat
      /\ ended[c] \in Seq(Ends) /\ Len(ended[c]) = n
  BY <1>1, CallTypes DEF ConnectionInv, ClientInv
<1>3. ~ Pending(c) /\ req[c] = <<>> /\ rep[c] = <<>> /\ worker[c] # "handle"
  BY <1>1 DEF ConnectionInv, StreamInv, Pending
<1>4. calls' = [calls EXCEPT ![c] = Append(@, call)]
  BY DEF Send
<1>5. /\ calls'[c] \in Seq(Calls) /\ Len(calls'[c]) = n + 1
      /\ \A i \in 1 .. n : calls'[c][i] = calls[c][i]
      /\ calls'[c][n + 1] = call
  <2>1. calls'[c] = Append(calls[c], call)
    BY <1>1, <1>4 DEF CallsOK
  <2> QED
    BY <1>2, <2>1, AppendProperties DEF Last
<1>6. UNCHANGED <<rep, worker, reading, executed>>
  BY DEF Send, server
<1>7. /\ Last(c)' = n + 1 /\ Request(c)' = new
      /\ \A i : Runs(c, i)' = Runs(c, i)
  BY <1>5, <1>6 DEF Last, Request, Runs
<1>8. Runs(c, n + 1) = {} /\ \A i \in Nat : i > n => Runs(c, i) = {}
  BY <1>1, <1>2 DEF ConnectionInv, RunsInv
<1>9. \/ /\ req'[c] \in {<<>>, <<new>>} /\ cpc'[c] = "recv" /\ ended'[c] = ended[c]
      \/ /\ req'[c] = <<>> /\ cpc'[c] = "closed" /\ ended'[c] = Append(ended[c], "lost")
  <2>1. ASSUME UNCHANGED ended, cpc' = [cpc EXCEPT ![c] = "recv"],
               req' = IF link[c] = "up"
                      THEN [req EXCEPT ![c] = Append(@, Message(call.method, "CALL", 0, call.wire,
                                                                <<c, Len(calls[c]) + 1>>))]
                      ELSE req
        PROVE  req'[c] \in {<<>>, <<new>>} /\ cpc'[c] = "recv" /\ ended'[c] = ended[c]
    <3>1. cpc'[c] = "recv" /\ ended'[c] = ended[c]
      BY <1>1, <2>1 DEF CallsOK
    <3>2. req' = [req EXCEPT ![c] = Append(@, new)] \/ req' = req
      BY <2>1 DEF Last
    <3>3. Append(<<>>, new) = <<new>>
      OBVIOUS
    <3> HIDE DEF new
    <3>4. req'[c] \in {<<>>, <<new>>}
      BY <1>1, <1>3, <3>2, <3>3 DEF CallsOK
    <3> QED
      BY <3>1, <3>4
  <2>2. ASSUME UNCHANGED req, EndCall(c, "lost", "closed")
        PROVE  req'[c] = <<>> /\ cpc'[c] = "closed" /\ ended'[c] = Append(ended[c], "lost")
    BY <1>1, <1>3, <2>2 DEF EndCall, CallsOK
  <2> QED
    BY <2>1, <2>2 DEF Send
<1>10. CallsOK' /\ OnlyAt(c)
  <2>1. /\ calls' \in [Connections -> Seq(Calls)]
        /\ \A d \in Connections \ {c} : calls'[d] = calls[d]
    BY <1>1, <1>4, <1>5 DEF CallsOK
  <2>2. /\ ended' \in [Connections -> Seq(Ends)]
        /\ \A d \in Connections \ {c} : ended'[d] = ended[d]
    <3>1. Append(ended[c], "lost") \in Seq(Ends)
      BY <1>2 DEF Ends
    <3>2. ended' = ended \/ ended' = [ended EXCEPT ![c] = Append(@, "lost")]
      BY DEF Send, EndCall
    <3> QED
      BY <1>1, <3>1, <3>2 DEF CallsOK
  <2>3. /\ cpc' = [d \in Connections |-> cpc'[d]] /\ req' = [d \in Connections |-> req'[d]]
        /\ \A d \in Connections \ {c} : cpc'[d] = cpc[d] /\ req'[d] = req[d]
    BY <1>1 DEF Send, EndCall, CallsOK
  <2> QED
    BY <1>1, <1>6, <2>1, <2>2, <2>3 DEF CallsOK, OnlyAt
<1> HIDE DEF n, new
<1>11. /\ ended'[c] \in Seq(Ends)
       /\ Len(ended'[c]) = (IF cpc'[c] = "recv" THEN n ELSE n + 1)
       /\ \A i \in 1 .. n : ended'[c][i] = ended[c][i]
       /\ cpc'[c] # "recv" => ended'[c][n + 1] = "lost"
  <2>1. CASE cpc'[c] = "recv" /\ ended'[c] = ended[c]
    BY <1>2, <2>1
  <2>2. CASE cpc'[c] = "closed" /\ ended'[c] = Append(ended[c], "lost")
    <3>1. "lost" \in Ends
      BY DEF Ends
    <3> QED
      BY <1>2, <2>2, <3>1, EndAppended
  <2> QED
    BY <1>9, <2>1, <2>2
<1>12. ClientInv(c)'
  BY <1>2, <1>7, <1>9, <1>11 DEF ClientInv
<1>13. StreamInv(c)'
  <2>1. CASE req'[c] = <<>>
    BY <1>3, <1>6, <2>1 DEF StreamInv, Pending
  <2>2. CASE req'[c] = <<new>> /\ cpc'[c] = "recv"
    BY <1>2, <1>3, <1>6, <1>7, <1>8, <2>2 DEF StreamInv, Pending
  <2> QED
    BY <1>9, <2>1, <2>2
<1>14. RunsInv(c)'
  <2>1. ASSUME NEW i \in 1 .. Last(c)'
        PROVE  /\ \A k, l \in Runs(c, i)' : k = l
               /\ \A k \in Runs(c, i)' : /\ executed'[k].fname = calls'[c][i].method
                                        /\ executed'[k].arg = calls'[c][i].arg
    <3>1. CASE i \in 1 .. n
      BY <1>1, <1>5, <1>6, <1>7, <3>1 DEF ConnectionInv, RunsInv, n
    <3>2. CASE i = n + 1
      BY <1>7, <1>8, <3>2
    <3> QED
      BY <1>2, <1>7, <3>1, <3>2
  <2>2. ASSUME NEW i \in 1 .. Len(ended'[c])
        PROVE  /\ ended'[c][i] = "returned" => Runs(c, i)' # {}
               /\ ended'[c][i] = "exception" => Runs(c, i)' = {}
    <3>1. CASE i \in 1 .. n
      BY <1>1, <1>2, <1>7, <1>11, <3>1 DEF ConnectionInv, RunsInv
    <3>2. CASE i = n + 1 /\ cpc'[c] # "recv"
      BY <1>11, <3>2
    <3> QED
      BY <1>2, <1>11, <3>1, <3>2
  <2>3. ASSUME NEW i \in Nat, i > Last(c)'
        PROVE  Runs(c, i)' = {}
    BY <1>2, <1>7, <1>8, <2>3
  <2> QED
    BY <2>1, <2>2, <2>3 DEF RunsInv
<1> QED
  BY <1>6, <1>10, <1>12, <1>13, <1>14, QuietStep DEF ConnectionInv

\* recv_AccessToLogic and recv_LogicToAccess, or the end of the stream: the open call is
\* ended as its answer says, or as lost, and the stream is left empty by an answer.
LEMMA RecvStep ==
  ASSUME CallInv, NEW c \in Connections, Recv(c) \/ RecvFails(c)
  PROVE  CallInv'
<1> DEFINE n == Last(c)
<1>1. /\ cpc[c] = "recv" /\ ConnectionInv(c) /\ CallsOK
      /\ UNCHANGED <<calls, req, worker, reading, executed>>
  BY DEF CallInv, Recv, RecvFails, server
<1>2. /\ n \in Nat /\ ended[c] \in Seq(Ends) /\ Len(ended[c]) \in Nat /\ Len(ended[c]) = n - 1
  BY <1>1, CallTypes DEF ConnectionInv, ClientInv
<1>3. /\ Last(c)' = n /\ Request(c)' = Request(c)
      /\ \A i : Runs(c, i)' = Runs(c, i)
  BY <1>1 DEF Last, Request, Runs
<1>4. PICK how \in Ends, next \in {"open", "closed"} :
        /\ ended' = [ended EXCEPT ![c] = Append(@, how)]
        /\ cpc' = [cpc EXCEPT ![c] = next]
        /\ how = "returned" => Runs(c, n) # {}
        /\ how = "exception" => Runs(c, n) = {}
        /\ next = "open" => ~ Pending(c) /\ rep' = [rep EXCEPT ![c] = <<>>]
        /\ next = "closed" => how = "lost" /\ UNCHANGED rep
  <2>1. CASE RecvFails(c)
    <3>1. /\ ended' = [ended EXCEPT ![c] = Append(@, "lost")]
          /\ cpc' = [cpc EXCEPT ![c] = "closed"] /\ UNCHANGED rep
      BY <2>1 DEF RecvFails, EndCall
    <3>2. "lost" \in Ends
      BY DEF Ends
    <3> QED
      BY <3>1, <3>2
  <2>2. CASE Recv(c)
    <3>1. rep[c] # <<>>
      BY <2>2 DEF Recv
    <3>2. PICK thrown \in BOOLEAN :
            rep[c] = <<Answer(Request(c), thrown)>> /\ (thrown <=> Runs(c, n) = {})
      BY <1>1, <3>1 DEF ConnectionInv, StreamInv
    <3>3. ~ Pending(c)
      BY <1>1, <3>1 DEF ConnectionInv, StreamInv
    <3>4. Head(rep[c]) = Answer(Request(c), thrown) /\ Tail(rep[c]) = <<>>
      <4> HIDE DEF n
      <4> QED
        BY <3>2
    <3>5. Head(rep[c]).mtype = IF thrown THEN "EXCEPTION" ELSE "REPLY"
      BY <3>4 DEF Answer, Message
    <3> DEFINE how == IF thrown THEN "exception" ELSE "returned"
    <3>6. EndCall(c, how, "open") /\ rep' = [rep EXCEPT ![c] = Tail(@)]
      BY <2>2, <3>5 DEF Recv
    <3>7. /\ ended' = [ended EXCEPT ![c] = Append(@, how)]
          /\ cpc' = [cpc EXCEPT ![c] = "open"]
          /\ rep' = [rep EXCEPT ![c] = <<>>]
      BY <3>4, <3>6 DEF EndCall
    <3>8. /\ how \in Ends
          /\ how = "returned" => Runs(c, n) # {}
          /\ how = "exception" => Runs(c, n) = {}
      BY <3>2 DEF Ends
    <3> HIDE DEF how
    <3> QED
      BY <3>3, <3>7, <3>8
  <2> QED
    BY <2>1, <2>2
<1>5. /\ cpc'[c] = next /\ ended'[c] = Append(ended[c], how)
      /\ ended' = [d \in Connections |-> ended'[d]]
      /\ cpc' = [d \in Connections |-> cpc'[d]]
      /\ \A d \in Connections \ {c} : cpc'[d] = cpc[d] /\ ended'[d] = ended[d]
  BY <1>1, <1>4 DEF CallsOK
<1>6. /\ rep' = [d \in Connections |-> rep'[d]]
      /\ \A d \in Connections \ {c} : rep'[d] = rep[d]
      /\ next = "open" => rep'[c] = <<>>
  BY <1>1, <1>4 DEF CallsOK
<1>7. /\ ended'[c] \in Seq(Ends) /\ Len(ended'[c]) = n
      /\ \A i \in 1 .. n - 1 : ended'[c][i] = ended[c][i]
      /\ ended'[c][n] = how
  <2> DEFINE m == n - 1
  <2>1. m = Len(ended[c]) /\ m + 1 = n
    BY <1>2
  <2> HIDE DEF m
  <2>2. /\ ended'[c] \in Seq(Ends) /\ Len(ended'[c]) = m + 1
        /\ \A i \in 1 .. m : ended'[c][i] = ended[c][i]
        /\ ended'[c][m + 1] = how
    BY <1>2, <1>5, <2>1, EndAppended
  <2> QED
    BY <2>1, <2>2 DEF m
<1>8. CallsOK' /\ OnlyAt(c)
  <2>1. ended' \in [Connections -> Seq(Ends)]
    BY <1>1, <1>5, <1>7 DEF CallsOK
  <2> QED
    BY <1>1, <1>5, <1>6, <2>1 DEF CallsOK, OnlyAt
<1> HIDE DEF n
<1>9. ClientInv(c)'
  BY <1>3, <1>4, <1>5, <1>7 DEF ClientInv
<1>10. StreamInv(c)'
  <2>1. CASE next = "open"
    BY <1>1, <1>3, <1>4, <1>6, <2>1 DEF StreamInv, Pending
  <2>2. CASE next = "closed"
    <3>1. /\ cpc'[c] = "closed" /\ UNCHANGED rep /\ Last(c)' = Last(c)
          /\ ended'[c][Last(c)] = "lost"
      BY <1>3, <1>4, <1>5, <1>7, <2>2 DEF n
    <3>2. StreamInv(c)
      BY <1>1 DEF ConnectionInv
    <3> QED
      BY <1>1, <1>3, <3>1, <3>2 DEF StreamInv, Pending
  <2> QED
    BY <2>1, <2>2
<1>11. RunsInv(c)'
  <2>1. RunsInv(c)
    BY <1>1 DEF ConnectionInv
  <2>2. ASSUME NEW i \in 1 .. Len(ended'[c])
        PROVE  /\ ended'[c][i] = "returned" => Runs(c, i)' # {}
               /\ ended'[c][i] = "exception" => Runs(c, i)' = {}
    <3>1. CASE i \in 1 .. n - 1
      BY <1>2, <1>3, <1>7, <2>1, <3>1 DEF RunsInv
    <3>2. CASE i = n
      BY <1>3, <1>4, <1>7, <3>2
    <3> QED
      BY <1>2, <1>7, <3>1, <3>2
  <2>3. \A i \in 1 .. Last(c)' :
          /\ \A k, l \in Runs(c, i)' : k = l
          /\ \A k \in Runs(c, i)' : /\ executed'[k].fname = calls'[c][i].method
                                   /\ executed'[k].arg = calls'[c][i].arg
    BY <1>1, <1>3, <2>1 DEF RunsInv, n
  <2>4. \A i \in Nat : i > Last(c)' => Runs(c, i)' = {}
    BY <1>3, <2>1 DEF RunsInv, n
  <2> QED
    BY <2>2, <2>3, <2>4 DEF RunsInv
<1> QED
  BY <1>1, <1>8, <1>9, <1>10, <1>11, QuietStep DEF ConnectionInv

\* The flush of an answer to the last call of a connection.
LEMMA FlushStep ==
  ASSUME CallsOK, NEW c \in Connections, rep[c] = <<>>, NEW answer, Flush(c, answer)
  PROVE  /\ rep' = [d \in Connections |-> rep'[d]] /\ worker' = [d \in Connections |-> worker'[d]]
         /\ \A d \in Connections \ {c} : rep'[d] = rep[d] /\ worker'[d] = worker[d]
         /\ rep'[c] \in {<<>>, <<answer>>} /\ worker'[c] \in {"read", "none"}
<1>1. Append(<<>>, answer) = <<answer>>
  OBVIOUS
<1>2. CASE rep' = [rep EXCEPT ![c] = Append(@, answer)]
  BY <1>1, <1>2 DEF CallsOK, Flush
<1>3. CASE UNCHANGED rep
  BY <1>3 DEF CallsOK, Flush
<1> QED
  BY <1>2, <1>3 DEF Flush

\* dispatchCall: the request becomes a run of its handler, or the answer that there is
\* no such method.
LEMMA DispatchStep ==
  ASSUME CallInv, NEW c \in Connections, Dispatch(c)
  PROVE  CallInv'
<1>1. /\ worker[c] = "read" /\ req[c] # <<>> /\ ConnectionInv(c) /\ CallsOK
      /\ req' = [req EXCEPT ![c] = Tail(@)]
      /\ UNCHANGED <<cpc, calls, ended, executed>>
  BY DEF CallInv, Dispatch, client
<1>2. /\ req[c] = <<Request(c)>> /\ rep[c] = <<>> /\ Last(c) > 0
      /\ Runs(c, Last(c)) = {}
      /\ cpc[c] = "recv" \/ (cpc[c] = "closed" /\ ended[c][Last(c)] = "lost")
  BY <1>1 DEF ConnectionInv, StreamInv, Pending
<1>3. Head(req[c]) = Request(c) /\ Tail(req[c]) = <<>>
  BY <1>2
<1>4. /\ req'[c] = <<>> /\ req' = [d \in Connections |-> req'[d]]
      /\ \A d \in Connections \ {c} : req'[d] = req[d]
  BY <1>1, <1>3 DEF CallsOK
<1>5. /\ Last(c)' = Last(c) /\ Request(c)' = Request(c)
      /\ \A i : Runs(c, i)' = Runs(c, i)
  BY <1>1 DEF Last, Request, Runs
<1>6. /\ rep' = [d \in Connections |-> rep'[d]] /\ worker' = [d \in Connections |-> worker'[d]]
      /\ reading' = [d \in Connections |-> reading'[d]]
      /\ \A d \in Connections \ {c} :
           rep'[d] = rep[d] /\ worker'[d] = worker[d] /\ reading'[d] = reading[d]
      /\ \/ /\ worker'[c] = "handle" /\ rep'[c] = <<>>
            /\ reading'[c] = Request(c) /\ Request(c).fname \in processMap_
         \/ worker'[c] # "handle" /\ rep'[c] \in {<<>>, <<Answer(Request(c), TRUE)>>}
  <2>1. CASE Request(c).fname \in processMap_
    <3>1. /\ reading' = [reading EXCEPT ![c] = Request(c)]
          /\ worker' = [worker EXCEPT ![c] = "handle"] /\ UNCHANGED rep
      BY <1>3, <2>1 DEF Dispatch
    <3> QED
      BY <1>1, <1>2, <2>1, <3>1 DEF CallsOK
  <2>2. CASE Request(c).fname \notin processMap_
    <3>1. Flush(c, UnknownMethod(Request(c))) /\ UNCHANGED reading
      BY <1>3, <2>2 DEF Dispatch
    <3>2. UnknownMethod(Request(c)) = Answer(Request(c), TRUE)
      BY DEF UnknownMethod, Answer
    <3>3. /\ rep' = [d \in Connections |-> rep'[d]]
          /\ worker' = [d \in Connections |-> worker'[d]]
          /\ \A d \in Connections \ {c} : rep'[d] = rep[d] /\ worker'[d] = worker[d]
          /\ rep'[c] \in {<<>>, <<Answer(Request(c), TRUE)>>} /\ worker'[c] \in {"read", "none"}
      BY <1>1, <1>2, <3>1, <3>2, FlushStep
    <3> QED
      BY <1>1, <3>1, <3>3 DEF CallsOK
  <2> QED
    BY <2>1, <2>2
<1>7. CallsOK' /\ OnlyAt(c)
  BY <1>1, <1>4, <1>6 DEF CallsOK, OnlyAt
<1>8. ClientInv(c)'
  BY <1>1, <1>5 DEF ConnectionInv, ClientInv
<1>9. StreamInv(c)'
  <2>1. CASE worker'[c] = "handle"
    BY <1>1, <1>2, <1>4, <1>5, <1>6, <2>1 DEF StreamInv, Pending
  <2>2. CASE worker'[c] # "handle" /\ rep'[c] = <<>>
    BY <1>4, <2>2 DEF StreamInv, Pending
  <2>3. CASE worker'[c] # "handle" /\ rep'[c] = <<Answer(Request(c), TRUE)>>
    BY <1>1, <1>2, <1>4, <1>5, <2>3 DEF StreamInv, Pending
  <2> QED
    BY <1>6, <2>1, <2>2, <2>3
<1>10. RunsInv(c)'
  BY <1>1, <1>5 DEF ConnectionInv, RunsInv
<1> QED
  BY <1>1, <1>7, <1>8, <1>9, <1>10, QuietStep DEF ConnectionInv

\* process_AccessToLogic and process_LogicToAccess: the only step that runs a handler.
\* The call it belongs to has not run before, and has at most been given up.
LEMMA ProcessStep ==
  ASSUME CallInv, NEW c \in Connections, NEW thrown \in BOOLEAN, Process(c, thrown)
  PROVE  CallInv'
<1>n. PICK n : n = Last(c)
  OBVIOUS
<1> DEFINE e == [call |-> reading[c].call, fname |-> reading[c].fname, arg |-> ReadArgs(reading[c])]
<1>1. /\ worker[c] = "handle" /\ ConnectionInv(c) /\ CallsOK
      /\ UNCHANGED <<cpc, calls, ended, req>>
  BY DEF CallInv, Process, client
<1>2. /\ reading[c] = Request(c) /\ Request(c).fname \in processMap_
      /\ req[c] = <<>> /\ rep[c] = <<>> /\ n > 0 /\ Runs(c, n) = {}
      /\ cpc[c] = "recv" \/ (cpc[c] = "closed" /\ ended[c][n] = "lost")
  BY <1>1, <1>n DEF ConnectionInv, StreamInv, Pending
<1>3. /\ n \in Nat /\ Len(ended[c]) \in Nat /\ calls[c][n] \in Calls
      /\ Len(ended[c]) = IF cpc[c] = "recv" THEN n - 1 ELSE n
  <2>1. n \in Nat /\ Len(ended[c]) \in Nat /\ calls[c] \in Seq(Calls) /\ DOMAIN calls[c] = 1 .. n
    BY <1>1, <1>n, CallTypes
  <2>2. n \in 1 .. n
    BY <1>2, <2>1
  <2>3. calls[c][n] \in Calls
    BY <2>1, <2>2
  <2> QED
    BY <1>1, <1>n, <2>1, <2>3 DEF ConnectionInv, ClientInv
<1>4. e.call = <<c, n>> /\ e.fname = calls[c][n].method /\ e.arg = calls[c][n].arg
  <2>1. /\ Request(c).fname = calls[c][n].method /\ Request(c).body = calls[c][n].wire
        /\ Request(c).call = <<c, n>>
    BY <1>n DEF Request, Message
  <2>2. ReadArgs(Request(c)) =
          ReadArgs(Message(calls[c][n].method, "CALL", 0, calls[c][n].wire, <<>>))
    BY <2>1 DEF ReadArgs, Message
  <2>3. ReadArgs(Request(c)) = calls[c][n].arg
    BY <1>2, <1>3, <2>1, <2>2, CallsAssumption DEF CallsAssumption
  <2> QED
    BY <1>2, <2>1, <2>3
<1>5. e \in Executions
  <2>1. e.fname \in processMap_
    BY <1>2
  <2>2. e = [call |-> e.call, fname |-> e.fname, arg |-> e.arg]
    OBVIOUS
  <2> HIDE DEF e
  <2>3. e.arg \in {call.arg : call \in Calls} /\ e.call \in Connections \X Nat
    BY <1>3, <1>4
  <2> QED
    BY <2>1, <2>2, <2>3 DEF Executions
<1>6. /\ Last(c)' = n /\ Request(c)' = Request(c)
  BY <1>1, <1>n DEF Last, Request
<1>7. /\ executed' \in Seq(Executions)
      /\ \A k \in DOMAIN executed : executed'[k] = executed[k]
      /\ \A d, i : <<d, i>> # <<c, n>> => Runs(d, i)' = Runs(d, i)
      /\ thrown => Runs(c, n)' = {}
      /\ ~ thrown => Runs(c, n)' = {Len(executed) + 1} /\ executed'[Len(executed) + 1] = e
  <2>1. CASE thrown
    <3>1. UNCHANGED executed
      BY <2>1 DEF Process
    <3>2. \A d, i : Runs(d, i)' = Runs(d, i)
      BY <3>1 DEF Runs
    <3>3. executed' \in Seq(Executions)
      BY <1>1, <3>1 DEF CallsOK
    <3> QED
      BY <1>2, <2>1, <3>1, <3>2, <3>3
  <2>2. CASE ~ thrown
    <3>1. executed' = Append(executed, e)
      BY <2>2 DEF Process
    <3>2. executed \in Seq(Executions)
      BY <1>1 DEF CallsOK
    <3> HIDE DEF e
    <3>3. /\ executed' \in Seq(Executions)
          /\ \A k \in DOMAIN executed : executed'[k] = executed[k]
          /\ executed'[Len(executed) + 1] = e
          /\ \A d, i : e.call # <<d, i>> => Runs(d, i)' = Runs(d, i)
          /\ \A d, i : e.call = <<d, i>> => Runs(d, i)' = Runs(d, i) \cup {Len(executed) + 1}
      BY <1>5, <3>1, <3>2, RunsAppend
    <3>4. Runs(c, n)' = {Len(executed) + 1}
      BY <1>2, <1>4, <3>3
    <3>5. \A d, i : <<d, i>> # <<c, n>> => Runs(d, i)' = Runs(d, i)
      BY <1>4, <3>3
    <3> QED
      BY <2>2, <3>3, <3>4, <3>5
  <2> QED
    BY <2>1, <2>2
<1> HIDE DEF e
<1>8. /\ rep' = [d \in Connections |-> rep'[d]] /\ worker' = [d \in Connections |-> worker'[d]]
      /\ \A d \in Connections \ {c} : rep'[d] = rep[d] /\ worker'[d] = worker[d]
      /\ rep'[c] \in {<<>>, <<Answer(Request(c), thrown)>>} /\ worker'[c] \in {"read", "none"}
  <2>1. Flush(c, Answer(Request(c), thrown))
    BY <1>2 DEF Process
  <2> QED
    BY <1>1, <1>2, <2>1, FlushStep
<1>9. /\ reading' = [d \in Connections |-> reading'[d]]
      /\ \A d \in Connections \ {c} : reading'[d] = reading[d]
  BY <1>1 DEF Process, CallsOK
<1>10. CallsOK' /\ OnlyAt(c)
  BY <1>1, <1>7, <1>8, <1>9 DEF CallsOK, OnlyAt
<1>11. ClientInv(c)'
  BY <1>1, <1>6, <1>n DEF ConnectionInv, ClientInv
<1>12. StreamInv(c)'
  <2>1. thrown <=> Runs(c, n)' = {}
    BY <1>7
  <2>2. ~ Pending(c)'
    BY <1>1, <1>2, <1>8 DEF Pending
  <2>3. req'[c] = <<>> /\ worker'[c] # "handle" /\ cpc'[c] \in {"recv", "closed"}
    BY <1>1, <1>2, <1>8
  <2>4. Request(c)' = Request(c) /\ Runs(c, Last(c))' = Runs(c, n)'
    BY <1>6
  <2>5. CASE rep'[c] = <<>>
    BY <2>2, <2>3, <2>5 DEF StreamInv
  <2>6. CASE rep'[c] = <<Answer(Request(c), thrown)>>
    BY <2>1, <2>2, <2>3, <2>4, <2>6 DEF StreamInv
  <2> QED
    BY <1>8, <2>5, <2>6
<1>13. RunsInv(c)'
  <2>1. RunsInv(c)
    BY <1>1 DEF ConnectionInv
  <2>2. \A i \in Nat \ {n} : Runs(c, i)' = Runs(c, i) /\ \A k \in Runs(c, i) : executed'[k] = executed[k]
    <3>1. \A i \in Nat \ {n} : Runs(c, i)' = Runs(c, i)
      BY <1>7
    <3>2. \A i : \A k \in Runs(c, i) : k \in DOMAIN executed
      BY DEF Runs
    <3> QED
      BY <1>7, <3>1, <3>2
  <2>3. ASSUME NEW i \in 1 .. n
        PROVE  /\ \A k, l \in Runs(c, i)' : k = l
               /\ \A k \in Runs(c, i)' : /\ executed'[k].fname = calls'[c][i].method
                                        /\ executed'[k].arg = calls'[c][i].arg
    <3>1. CASE i = n /\ thrown
      BY <1>7, <3>1
    <3>3. CASE i = n /\ ~ thrown
      <4>1. Runs(c, i)' = {Len(executed) + 1} /\ executed'[Len(executed) + 1] = e
        BY <1>7, <3>3
      <4>2. UNCHANGED calls
        BY <1>1
      <4> QED
        BY <1>4, <3>3, <4>1, <4>2
    <3>2. CASE i # n
      BY <1>1, <1>n, <2>1, <2>2, <3>2 DEF RunsInv
    <3> QED
      BY <3>1, <3>2, <3>3
  <2>4. ASSUME NEW i \in 1 .. Len(ended[c])
        PROVE  /\ ended[c][i] = "returned" => Runs(c, i)' # {}
               /\ ended[c][i] = "exception" => Runs(c, i)' = {}
    <3>1. CASE i = n
      BY <1>2, <1>3, <3>1
    <3>2. CASE i # n
      BY <1>3, <1>n, <2>1, <2>2, <3>2 DEF RunsInv
    <3> QED
      BY <3>1, <3>2
  <2>5. ASSUME NEW i \in Nat, i > n
        PROVE  Runs(c, i)' = {}
    BY <1>3, <1>n, <2>1, <2>2, <2>5 DEF RunsInv
  <2> QED
    BY <1>1, <1>6, <2>3, <2>4, <2>5 DEF RunsInv
<1>14. ASSUME NEW d \in Connections \ {c} PROVE ConnectionInv(d)'
  <2>1. \A i : Runs(d, i)' = Runs(d, i)
    BY <1>7
  <2> QED
    BY <1>7, <1>10, <2>1, OtherConnection DEF CallInv, OnlyAt
<1> QED
  BY <1>10, <1>11, <1>12, <1>13, <1>14 DEF CallInv, ConnectionInv

\* What the proof of AnswersAreOwn rests on, in every reachable state.
LEMMA CallInvariant == Spec => []CallInv
<1>1. Init => CallInv
  <2> SUFFICES ASSUME Init PROVE CallInv
    OBVIOUS
  <2>1. CallsOK
    BY DEF Init, CallsOK
  <2>2. ASSUME NEW c \in Connections PROVE ConnectionInv(c)
    <3>1. /\ cpc[c] = "new" /\ calls[c] = <<>> /\ ended[c] = <<>> /\ req[c] = <<>>
          /\ rep[c] = <<>> /\ worker[c] = "none" /\ executed = <<>>
      BY <2>2 DEF Init
    <3>2. Last(c) = 0 /\ Len(ended[c]) = 0 /\ \A i : Runs(c, i) = {}
      BY <3>1 DEF Last, Runs
    <3>3. ClientInv(c)
      BY <3>1, <3>2 DEF ClientInv
    <3>4. StreamInv(c)
      BY <3>1 DEF StreamInv, Pending
    <3>5. RunsInv(c)
      BY <3>2 DEF RunsInv
    <3> QED
      BY <3>3, <3>4, <3>5 DEF ConnectionInv
  <2> QED
    BY <2>1, <2>2 DEF CallInv
<1>2. CallInv /\ [Next]_vars => CallInv'
  <2> SUFFICES ASSUME CallInv, [Next]_vars PROVE CallInv'
    OBVIOUS
  <2>1. CASE UNCHANGED vars
    <3>1. UNCHANGED <<cpc, calls, ended, req, rep, worker, reading, executed>>
      BY <2>1 DEF vars, client, stream, server
    <3>2. CallsOK'
      BY <3>1 DEF CallInv, CallsOK
    <3>3. ASSUME NEW d \in Connections PROVE ConnectionInv(d)'
      <4>1. \A i : Runs(d, i)' = Runs(d, i)
        BY <3>1 DEF Runs
      <4> QED
        BY <3>1, <4>1, OtherConnection DEF CallInv
    <3> QED
      BY <3>2, <3>3 DEF CallInv
  <2>2. CASE Next
    BY <2>2, OpenStep, CloseStep, LossStep, SendStep, RecvStep, DispatchStep, ProcessStep
       DEF Next, ClientStep, WorkerStep
  <2> QED
    BY <2>1, <2>2
<1> QED
  BY <1>1, <1>2, PTL DEF Spec

\* A call is told what became of itself, for any number of connections, calls and breaks:
\* it returns only when its own handler has run, once, with its own method and argument;
\* it gets an exception only when the handler has not run to its end; and a call whose
\* connection was lost has run at most once.
THEOREM CallsGetTheirAnswers == Spec => []AnswersAreOwn
<1>1. CallInv => AnswersAreOwn
  <2> SUFFICES ASSUME CallInv, NEW c \in Connections, NEW i \in DOMAIN calls[c]
               PROVE  /\ Cardinality(Runs(c, i)) <= 1
                      /\ \A k \in Runs(c, i) : /\ executed[k].fname = calls[c][i].method
                                              /\ executed[k].arg = calls[c][i].arg
                      /\ i \in DOMAIN ended[c] =>
                           /\ ended[c][i] = "returned" => Runs(c, i) # {}
                           /\ ended[c][i] = "exception" => Runs(c, i) = {}
                      /\ i = Len(calls[c]) /\ cpc[c] = "recv" =>
                           \A j \in DOMAIN rep[c] : /\ rep[c][j].call = <<c, i>>
                                                   /\ rep[c][j].fname = calls[c][i].method
    BY DEF AnswersAreOwn
  <2>1. /\ ConnectionInv(c) /\ i \in 1 .. Last(c) /\ DOMAIN ended[c] = 1 .. Len(ended[c])
    BY CallTypes DEF CallInv
  <2>2. Cardinality(Runs(c, i)) <= 1
    <3>1. CASE Runs(c, i) = {}
      BY <3>1, FS_EmptySet
    <3>2. CASE Runs(c, i) # {}
      <4>1. PICK k : Runs(c, i) = {k}
        <5>1. PICK k : k \in Runs(c, i)
          BY <3>2
        <5>2. \A l \in Runs(c, i) : k = l
          BY <2>1, <5>1 DEF ConnectionInv, RunsInv
        <5> QED
          BY <5>1, <5>2
      <4>2. Cardinality(Runs(c, i)) = 1
        BY <4>1, FS_Singleton
      <4> QED
        BY <4>2
    <3> QED
      BY <3>1, <3>2
  <2>3. ASSUME i = Len(calls[c]), NEW j \in DOMAIN rep[c]
        PROVE  rep[c][j].call = <<c, i>> /\ rep[c][j].fname = calls[c][i].method
    <3>1. PICK thrown \in BOOLEAN : rep[c] = <<Answer(Request(c), thrown)>>
      BY <2>1, <2>3 DEF ConnectionInv, StreamInv
    <3>2. rep[c][j] = Answer(Request(c), thrown)
      BY <2>3, <3>1
    <3> QED
      BY <2>3, <3>2 DEF Answer, Message, Request, Last
  <2> QED
    BY <2>1, <2>2, <2>3 DEF ConnectionInv, RunsInv
<1> QED
  BY <1>1, CallInvariant, PTL
============================================================================
