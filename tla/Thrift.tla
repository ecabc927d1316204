------------------------------- MODULE Thrift -------------------------------
(***************************************************************************)
(* The messages of the service LogicInterface as its generated code reads  *)
(* and writes them (thrift/im_types.cpp, thrift/LogicInterface.cpp), and   *)
(* what LogicInterfaceProcessor makes of a call.  TBinaryProtocol itself   *)
(* is external: a struct on the wire is the sequence of its fields up to   *)
(* T_STOP, a field has an id, a type and a value.                          *)
(***************************************************************************)
EXTENDS Integers, Sequences, FiniteSetsExt

CONSTANT EmptyString     \* a default-constructed std::string

Field(fid, ftype, value) == [fid |-> fid, ftype |-> ftype, value |-> value]

\* The loop of every generated read(): a field is stored when its id and its type
\* are the ones of the IDL and skipped otherwise; the last one stored stays; a member
\* that is never stored keeps the value of the constructor.
ReadField(fields, fid, ftype, initial) ==
  LET stored == {i \in DOMAIN fields : fields[i].fid = fid /\ fields[i].ftype = ftype}
  IN  IF stored = {} THEN initial ELSE fields[Max(stored)].value

\* struct AccessMessage.
AccessMessage_write(m) ==
  <<Field(1, "I32", m.uid), Field(2, "I32", m.sate_id), Field(3, "I32", m.beam_id),
    Field(4, "I32", m.level), Field(5, "STRING", m.content)>>

AccessMessage_read(fields) ==
  [uid     |-> ReadField(fields, 1, "I32", 0),
   sate_id |-> ReadField(fields, 2, "I32", 0),
   beam_id |-> ReadField(fields, 3, "I32", 0),
   level   |-> ReadField(fields, 4, "I32", 0),
   content |-> ReadField(fields, 5, "STRING", EmptyString)]

\* The arguments of the two methods.  Their results are empty structs, of which
\* read() skips whatever it finds.
AccessToLogic_args_write(request) == <<Field(1, "STRING", request)>>
AccessToLogic_args_read(fields) == ReadField(fields, 1, "STRING", EmptyString)

LogicToAccess_args_write(response) == <<Field(1, "STRUCT", AccessMessage_write(response))>>
LogicToAccess_args_read(fields) == AccessMessage_read(ReadField(fields, 1, "STRUCT", <<>>))

result_write == <<>>

WriteArgs(method, arg) ==
  IF method = "LogicToAccess" THEN LogicToAccess_args_write(arg)
                              ELSE AccessToLogic_args_write(arg)

\* A message: writeMessageBegin(fname, mtype, seqid) and a struct.  call is no part
\* of it: it names the call the message belongs to, for the properties.
Message(fname, mtype, seqid, body, call) ==
  [fname |-> fname, mtype |-> mtype, seqid |-> seqid, body |-> body, call |-> call]

-----------------------------------------------------------------------------
(* LogicInterfaceProcessor.                                                *)

processMap_ == {"AccessToLogic", "LogicToAccess"}

\* The arguments process_AccessToLogic and process_LogicToAccess hand to the handler.
ReadArgs(message) ==
  IF message.fname = "AccessToLogic" THEN AccessToLogic_args_read(message.body)
                                     ELSE LogicToAccess_args_read(message.body)

\* dispatchCall for a method that is not in the map: the arguments are skipped.
UnknownMethod(message) ==
  Message(message.fname, "EXCEPTION", message.seqid, result_write, message.call)

\* The end of process_AccessToLogic and process_LogicToAccess: an exception of the
\* handler becomes an answer as well.
Answer(message, thrown) ==
  Message(message.fname, IF thrown THEN "EXCEPTION" ELSE "REPLY", message.seqid,
          result_write, message.call)
=============================================================================
