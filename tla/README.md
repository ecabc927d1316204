# ShortMessage: a TLA+ verification of the logic server

This directory specifies, model-checks and proves properties of the logic
server of a satellite short-message service (`src/src/`). The repository has no
design document: the modules are translated from the code, its comments and its
configuration (`conf/conf.cfg`).

## The system

Terminals talk to *access servers*, one per beam of the constellation. An
access server passes every frame to the *logic server* with the thrift call
`AccessToLogic(request)`; the logic server answers with `LogicToAccess` calls to
the access server of the beam the addressee hears best.

| Component | State | Operations | Interacts with |
|---|---|---|---|
| Dispatch (`LogicInterfaceHandler.cpp`) | none; one of `thread_cnt` workers runs each call | `AccessToLogic` | managers |
| Message manager (`message_manager.cpp`) | locals of the handler | simple message 0x40, complete message 0x60, receipt 0x80 (0x50, 0x51 empty) | database, send helper |
| Mobility manager (`mobile_manager.cpp`) | locals of the handler | log-in, log-out, mobility report | database, send helper |
| Database (`database.cpp`) | tables `message_cache`, `message_store`, `sate_cover`, `user_info`; libzdb pool of `max_size` connections | one SQL statement per function, autocommit | MySQL |
| Retransmission daemon (`qos_send_daemon.cpp`) | batch of messages fetched, `stop_` | one round: fetch due rows, advance retry counts, send; sleep | database, send helper |
| Send helper (`send_helper.cpp`) | addresses of the access servers | choose the beam, call the access server | access servers |
| Frames and coding (`protocol.h`, `coder.cpp`) | none; packed structures laid over a request | decode, encode, byte order | all |
| Thrift stubs (`LogicInterface.cpp`, `im_types.cpp`) | a connection | client, processor, structs on the wire | send helper, access servers |
| Controller and main (`controller.cpp`, `main.cpp`) | `server_`, `stop_`, `stopped`, two threads | Init, Run, Stop, signals, joins | all |
| Packet queue (`fifo_queue.cpp`) | ring of bytes, mutex, condition | push, pop, peek, reset | not used by the server yet |
| CRC-16 (`CRC_16.cpp`) | none | checksum of a buffer | not used by the server yet |
| Sockets (`comm_socket.cpp`, `udp_socket.cpp`) | descriptor, addresses | create, bind, connect, options, send, receive, wait, close, destroy | not used by the server yet |
| User manager, logger, utilities | – | – | trivial |

What is hard here: every handler is several autocommitted statements and
blocking remote calls, run by many workers at once on rows that the daemon
reads, holds and updates; each statement can fail and the process can die
between any two of them; terminals repeat frames and receipts; the pool is
finite; the threads are started and stopped from main; words change between
network order, host order and signed columns; answers on a connection are told
apart by their order alone. `PROJECT.json` lists the hazards with their
lines.

What makes the components correct:

* messages: a sender that got the 0x50 receipt may forget its message, so the
  server keeps it until the recipient acknowledges it; nothing is sent that is
  not stored; rows are deleted and archived on the recipient's word only;
* retransmission: bounded, never set back, and not stuck;
* pool: every path returns its connection; every request ends;
* coverage: a frame takes the best beam of one whole report of its addressee, never
  of a mixture of two; only registered terminals are told they are logged in;
* life cycle: the pool outlives its users; shutdown ends unless a request hangs;
* packet queue: packets come out whole, in order, and are not left behind;
* frames: a message arrives as it was sent, first or repeated, and receipts name
  the right one, whatever the bytes of its identifiers; a terminal is told how many
  messages wait for it;
* remote calls: a call is told what became of itself, and it ends unless the
  connection breaks without a sign;
* sockets: an object uses and closes its own descriptor only, and none is lost;
* CRC-16: the table-driven loop is the division of polynomials, and data with their
  checksum behind them have the checksum 0.

## Modules

```
Protocol -> Database, SendHelper -> ServerState -> MessageManager, MobileManager, QosSendDaemon
         -> ShortMessage (composition, environment, properties) -> MCShortMessage (instances)
                         -> ShortMessageProofs (types, custody, refinement)
                                                   -> ServerProofs (pool, mobility, retry theorems)
CustodyService (abstract) <- ShortMessage
Lifecycle -> LifecycleProofs          (checked directly)
PacketQueue (abstract) <- FifoQueue -> MCFifoQueue, FifoQueueProofs
Coder -> Wire -> MCWire, WireProofs          (frames as bytes)
Thrift -> LogicInterfaceClient -> MCLogicInterfaceClient, LogicInterfaceProofs   (remote calls)
UdpSocket -> MCUdpSocket, UdpSocketProofs
Crc16 -> MCCrc16, Crc16Proofs
```

* **Protocol**: frame types, `ControlHead`, `SateParam`, `MessageItem`, what
  `ResponseEncode` and `MessageEncode` put into a frame. Bodies are opaque. SNR
  is an integer in tenths, so that the truncation in the `SateParam`
  constructor (`int32_t snr_`) is modelled.
* **Database**: each statement as a function of the tables. `message_cache` is a
  set of rows with an identity `rid`. The schema is not in the repository, so
  `UniqueKey` says whether `(from_user, to_user, frame_id)` is unique, and both
  cases are checked. `GetOfflineMessage` on a missing row returns true and leaves
  the local unassigned: its fields are `Uninit`, its `type` is 0x60 or something
  else. `StoreRowOfItem` keeps the exchanged columns of the code.
* **SendHelper**: the beam with the highest SNR among those with an address,
  the first one on a tie.
* **ServerState**: variables of the server, the pool, `SendMessage` with its
  failures. `GetConnection` waits, because the loop in the code never gives up.
  `Connection_clear` does not return the connection.
* **MessageManager**, **MobileManager**, **QosSendDaemon**: one action per SQL
  statement and per remote call, the failure of the statement as a disjunct (in the
  daemon's loop over due rows: before the row is pushed, or after it).
  `pc[w]` names the next statement, `loc[w]` holds the handler's locals.
* **ShortMessage**: dispatch (`AccessToLogic`), the environment and the
  properties. The build type is Debug, so the assertion on beam numbers is live:
  `Abort` kills the process as `Crash` does; the tables survive, threads, locals
  and pool do not. The satellite link needs no variable: `air` holds every frame
  an access server accepted, and a terminal may answer any of them any number of
  times, at any time, or never.
* **Lifecycle**: main, the run thread and the daemon thread, signals, every step
  of start-up that can fail, the destructors. A dereference of the null
  `server_` is the outcome `NullServer` (the assertion of `boost::shared_ptr`),
  an exception nobody catches is `Terminated` (the C exceptions of libzdb among them,
  which the `catch` of `Database::Init` does not see). The thrift server is external;
  its version is 0.9.3 (`LogicInterface.cpp:2`), in which a stop before `listen()` is
  lost. A request (`Hang`) or a round of the daemon (`QosHang`) may never end, in
  `GetConnection` or in a remote call without time-out.
* **PacketQueue / FifoQueue**: abstract queue with `sent` and `got`; the ring of
  bytes with lengths, `END_FLAG`, the overflow test, the condition variable and
  the peek without lock. `Crews` are the sets of consumers a run starts with,
  `PeekingCrews` those whose members peek.
* **CustodyService**: what the server promises about complete messages, without
  threads, tables and crashes: accept, promise, deliver, acknowledge, release.
  `ShortMessage` instantiates it as `Custody`, with `held` the keys in
  `message_cache`, `done` the keys with a receipt, `promised` the 0x50 receipts
  and `delivered` the messages on the air.
* **Coder / Wire**: the same handlers at the level of bytes. A word is the tuple
  of its bytes in memory; `ntohl` reverses it; a column holds the sign
  that binding gives it, and an SNR what six decimals leave of it. A handler is
  one step here: interleavings and failures are the subject of `ShortMessage`, but
  for the COUNT of a log-in, whose failure the terminal reads as 0.
  `FromFirst` says how the terminals lay out a request.
* **Thrift**: the structs as sequences of fields, with the generated loops that
  store known fields and skip others; the answers of the processor.
  **LogicInterfaceClient**: calls on one TCP connection, the worker that serves
  it, time-out and break; a break may be silent, and then `recv` may wait for ever.
* **Crc16**: one action per turn of the loop, the table as in the code, and the
  division of polynomials as the reference. `CRC_16` is called on the data and then
  on the data followed by the result, as it lies in the memory of a little-endian host.
* **UdpSocket**: objects and the descriptor table of the process; the kernel
  gives out the lowest free number. `Callers` are the kinds of caller a run
  starts with: each keeps to one thread or not, closes explicitly or not,
  creates every object it has constructed or skips that, and calls `Create` in an open
  object or not. Calls after `Close`, after a failed `Create` or without one act on the
  number that is there; destructors of different threads overlap.

`map` in `PROJECT.json` gives the source lines of every definition.

Bounds: `Budget` limits requests, failed statements and crashes; `MaxClock` the
time; `MaxPackets` the packets; `MaxCalls`, `MaxBreaks`, `MaxSubmits`, `MaxReports`,
`MaxInbox`, `MaxQueue` and `MaxLen` do the same for the other modules. They appear in guards of the environment only.
History variables (`air`, `receipted`, `reported`, `picked`, `announced`, `sent`, `got`)
record what happened and guard nothing of the server; `reported` keeps whole reports,
`announced` the byte told at a log-in with what was in custody then.

## Model checking

| Run | Instance | Shows |
|---|---|---|
| `delivery` | two terminals, each with a message numbered 1 to the other; 2 submissions (repeats included), 2 receipts, 2 workers, daemon, no unique index | `TypeOK`, `ArchivedWasReceipted`, `DeletesOnlyReceipted` |
| `faults` | complete, simple and inquiry frames; 2 submissions, 1 receipt, 1 failed statement, 1 crash with restart; time for a row that has used up its 2 retries to fall due again; unique index | `ReceiptImpliesCustody`, `SentWasPersisted`, `PickBudget`, `RetryNumMonotone`, `ConnectionsAccounted`, `CustodyRefined` |
| `mobility` | 2 mobility requests (four reports: best beam without address and a beam listed twice, two beams that differ by a fraction, empty, beam out of range), 1 message, 1 failed statement, one registered terminal | `RoutedToBestBeam`, `LoginOkIsRegistered` |
| `liveness` | 1 message, 1 receipt, 1 failed statement, 1 crash | `EveryRequestReturns`, `RetriesAreSpent` |
| `shutdown` | 2 workers, requests and rounds that end or hang | `PoolOutlivesUsers`, `ShutdownEnds` |
| `queue` | packets of 3 bytes, buffers of 10 to 14 bytes (all lengths of the unused tail), 6 packets, two consumers that pop or one that also peeks | `QueueRefined`, `PacketsArePopped` |
| `frames` | two terminals with identifiers 1 and 2^24 (the reversal of 1), frame numbers 1 and 256, 2 messages; 2 log-ins, log-outs or reports with an empty list or one with a strong, a negative and a vanishing SNR; none or 254 further messages waiting; a COUNT that fails | `CacheIsUnsettled`, `DeliveredAsSubmitted`, `ReceiptNamesMessage`, `AnnouncedIsWaiting`, `ReportIsReadBack` |
| `remote_calls` | one connection, 3 calls out of five kinds (both methods, a peer with one more field, one with another type, an unknown method), 1 break, noticed or silent | `AnswersAreOwn`, `EveryCallEnds` |
| `checksum` | every first byte, then up to two bytes of a sample; the data, and the data with their checksum | `LoopIsDivision`, `ChecksumVerifies` |
| `sockets` | 2 objects, 3 constructions or second calls of `Create`, three kinds of caller (careful; several threads that close and skip `Create`; one that creates again), a closed standard input, failing calls | `DescriptorsReleased`, `OwnDescriptor`, `ArrivalIsReceived` |

Why the bounds suffice for the cases meant: two workers and the daemon are all
the actors that can meet on one row (SELECT, DELETE and UPDATE each belong to
one of them); two messages with the same number in opposite directions tell a
statement that forgets a column of the key; two retries reach the limit after
passing an intermediate value, and `MaxClock` 4 is the time at which a row that is at
the limit would be due once more; the fault and the crash may strike at every
statement. Larger numbers repeat these cases; the safety properties marked below
are proved for all of them. Workers are symmetric (used in runs without
liveness). Bytes: an identifier and its reversal are both terminals, so a
missing or doubled conversion addresses somebody who exists; one first byte per
table entry reaches the whole table from the initial value 0. With 254 waiting messages and two more
the announced byte passes 255. One request on its way at a time is enough in `Wire`:
what a terminal sends depends on things that never go away (`sent`), so a
delayed request is one that is sent later. Three constructions with two objects let a number be given out again to
another object and to a second life of the same one.

Two runs show disagreements between the code and what it or a comment says of
it (`findings`):

* `pool_exhausted`: a failed insert of a complete message leaks its connection
  (`message_manager.cpp:55`); `GetConnection` never gives up (`database.cpp:70`),
  so requests hang once the pool is used up, even with strong fairness
  (`PatientSpec`).
* `stop_without_server`: `Stop` dereferences a null `server_` after a failed
  `Init` or an early signal (`controller.cpp:102`).

### Deviations shown with further configurations

Each of these configurations ends in a counterexample
(`tlc -config X.cfg M`, all within seconds):

| Configuration, module | Property | What the counterexample shows |
|---|---|---|
| `ArchiveDirection`, `MCShortMessage` | `ArchiveKeepsDirection` | acknowledged messages are archived with sender and recipient exchanged (`database.cpp:214`) |
| `DuplicateRows`, `MCShortMessage` | `PickBudget` | without a unique index a repeated message is retransmitted more than `max_retry_count` times (`database.cpp:334`) |
| `HighUserIds`, `MCWire` | `ReportIsReadBack` | an identifier of 2^31 or more is written unsigned and read signed: the coverage a terminal reports is not the one that routes its messages (`database.cpp:98`) |
| `TestClientHead`, `MCWire` | `DeliveredAsSubmitted` | the repository's test client puts `to_id` first (`test/LogicClient/src/logic/protocol.h:67`), the server reads `from_id` first (`protocol.h:68`) |
| `QueueMixedSizes`, `MCFifoQueue` | `PacketsIntact` | the overflow test of `PushPacket` reserves a byte too few for packets of different sizes (`fifo_queue.cpp:36`) |
| `QueueEmptyPacket`, `MCFifoQueue` | `PacketsIntact` | a packet of length 0 is stored as the end mark, and the consumer pops an old packet again (`fifo_queue.cpp:47`) |
| `ChecksumInPieces`, `MCCrc16` | `UpdatesPrevious` | the result of `CRC_16` is byte-swapped and therefore not the "previous CRC value" its comment asks for (`CRC_16.cpp:52`, `:68`) |
| `SocketsClosed`, `MCUdpSocket` | `EveryCallerKeepsSockets` | `Close` keeps the number; the destructor closes it again, under another owner (`comm_socket.cpp:119`) |
| `SocketsTwoThreads`, `MCUdpSocket` | `EveryCallerKeepsSockets` | the two destructors close the number twice; another thread gets it in between (`udp_socket.cpp:8`) |
| `SocketsCreatedTwice`, `MCUdpSocket` | `EveryCallerReleases` | `Create` in an open object overwrites the number; the old descriptor is never closed (`udp_socket.cpp:13`) |
| `CountFails`, `MCWire` | `EveryAnswerCounts` | a COUNT that fails returns 0, as its comment says, and the terminal is told that nothing waits when something does (`database.cpp:147`, `:160`) |
| `LostStop`, `Lifecycle` | `EveryStopEnds` | a signal after `server_` is set and before `serve` listens is lost, and `join` waits for ever (`controller.cpp:92`, `:97`) |
| `SilentBreak`, `MCLogicInterfaceClient` | `SilenceIsNoticed` | neither a receive time-out nor a keepalive is set, so an answer that is lost silently is waited for for ever (`send_helper.cpp:68`) |
| `SocketsBlocking`, `MCUdpSocket` | `BlockingAsDocumented` | `SetBlocking` does the opposite of its comment (`comm_socket.cpp:64`, `:74`) |

The passing runs are stated so that they hold of the code as it is:
`ConnectionsAccounted` counts the leak, `PickBudget` is checked with the index,
`EveryRequestReturns` with a pool larger than what the budget can leak,
`QueueRefined` with one positive packet size, `ReportIsReadBack` with identifiers
below 2^31, `AnnouncedIsWaiting` when the COUNT succeeds, `ShutdownEnds` for a stop that
reached the listening server and unless something hangs, `EveryCallEnds` unless the
connection broke silently, `DescriptorsReleased` for callers that do not call `Create` in
an open object, `OwnDescriptor` for the careful callers (`Careful`): one thread that
creates every object once and leaves closing to the destructors.

Fairness. `FairSpec`: the scheduler runs every worker and the daemon (weak
fairness of their steps), time passes, and a dead server is restarted by its
operator. A remote call is assumed to return or throw: the socket has no
time-out (`send_helper.cpp:73`), so an access server that never answers is
outside the assumption. Terminals, failures and crashes owe nothing. `Spec` of
`Lifecycle`: main and the threads run, and a request or round that has not hung ends
(`read_timeout`); of one that hangs nothing is promised. `Spec` of
`FifoQueue`: consumers call `PopPacket` in a loop; spurious wake-ups may happen
and are not relied on. `FairSpec` of `LogicInterfaceClient`: the peer runs its
handler to the end, both sides read what has arrived, and the end of a connection is
noticed unless it is silent; opening, calling, the time-out and the break owe nothing. The deadlock check is off where the system may
really stop: the process ends (`shutdown`, `stop_without_server`) or hangs
(`pool_exhausted`), and in the modules whose callers stop after the bounded number of
calls, bytes or messages (`Wire`, `LogicInterfaceClient`, `Crc16`, `UdpSocket`).

## Proofs

TLAPS proves, for every value of the constants that satisfies the assumptions
(any sets of users, messages, workers, reports, connections, objects and texts,
any retry limit, pool size and budget, with or without the unique index):

| Module | Theorems | Inductive invariant |
|---|---|---|
| `ShortMessageProofs` | `TypeCorrect` | `TypeOK` with `RowsInserted`, `ItemsChecked` |
| | `ReceiptMeansCustody`, `SendMeansPersisted`, `ArchiveMeansReceipted`, `DeleteMeansReceipted` | `CustodyInv` |
| | `MessagesAreSubmitted`, `ImplementsCustody` | `CustodyInv`, submitted keys |
| `ServerProofs` | `ConnectionsAreAccounted` | `PoolInv` |
| | `FramesTakeTheBestBeam`, `LoginMeansRegistered` | `MobilityInv` |
| | `PicksAreBounded`, `RetryNumGrows` (assume `UniqueKey`) | `RetryInv` |
| `LifecycleProofs` | `PoolIsOpenWhenUsed` | `LifecycleInv` |
| `UdpSocketProofs` | `DescriptorsAreReleased` | `SocketsOK` and the property itself |
| | `CarefulCallersKeepSockets`, `ArrivalsAreReceived` | `CarefulInv` |
| `LogicInterfaceProofs` | `AccessMessageIsReadBack`, `ArgumentsAreReadBack` | (about operators) |
| | `CallsGetTheirAnswers` | `CallInv` |
| `WireProofs` | `CacheHoldsTheUnsettled`, `MessagesArriveAsSubmitted`, `ReceiptsNameMessages`, `WaitingIsAnnounced` (assume `FromFirst`) | `WireInv` |
| | `ReportsAreReadBack` (assumes `FromFirst`, `LowIds`, `BeamsOnce`) | `WireInv`, `CoverInv` |
| `FifoQueueProofs` | `RingInOrder`, `ImplementsQueue`, `PacketsStayIntact` (assume packets of one positive length and `PeekersAlone`) | `RingInv` |
| `Crc16Proofs` | `CallsAgree`, `ChecksumsVerify` | `LoopInv` |

`TypeCorrect` is not only typing: a frame on the air never carries a field read
from the unassigned local of `ProcessReceipt`. Every inductive invariant
has also been checked with TLC on the instance of the run its property belongs to
(`LoopInv` with the values of the loop as the witness for its quantifier).

The argument for custody: the four properties speak of `air` and the tables, but
a frame is sent several steps after the statement that justifies it, by a worker
or daemon that holds a copy. `CustodyInv` therefore adds what each of them has
made sure of: `Ensured(w)` (a worker past the insert holds a head whose key is
in the cache or receipted; a worker in `ProcessReceipt` acts for a receipted
key; the item it will archive is that key's, or unassigned), `DaemonEnsured` (the
rows and messages of the batch are held or receipted) and `RightHandler` (the
label of a worker fits the type of its frame). `Held` can only lose a key from
the cache by the DELETE of a receipted key, and `receipted` only grows, so
`Ensured` is stable under the steps of all others.

`ImplementsCustody` proves `Spec => CustodyRefined`: every step
of workers, daemon, terminals, faults and crashes is a step of `CustodyService`
or leaves its four variables alone. An insert is `Accept`, the sent 0x50 receipt
`Promise`, a sent message, first or repeated, `Deliver`, a terminal's receipt
`Acknowledge`, the DELETE `Release`. That `Promise` and `Deliver` are allowed when
they happen is what `CustodyInv` says; that `Accept` names a message somebody has
submitted is `MessagesAreSubmitted`, an invariant of its own.

`LifecycleInv` says which threads can exist at each label of main and when the
pool is open: threads start after `Init` has succeeded and have ended when main
reaches the destructors.

Pool, mobility and retries (`ServerProofs`). `PoolInv` adds to
`ConnectionsAccounted` only that the set of connections in use is finite, so that it
can be counted when the set of workers is not. `MobilityInv`: a frame is sent on
coverage that was read, or decoded from the request, several statements earlier, so
`Routed(w)` says that the beam `SendMessage` would choose from a list in a worker's locals
is one that a whole report of the user it will send to puts first (`OnReported`),
`DaemonRouted` the same of the daemon, and `CoverReported` that the row of the table is
that of one report or of a log-out; that a choice from the row, after truncation, fits
the report is the lemma `CoverOnReported`; `MobileHandler(w)` and `Approved(w)` tie the label of a worker to the type of
its request and to the look-up in `user_info` that allowed the answer. Reports only
grow, so these facts outlive the steps of the others. `RetryInv`: the daemon writes
back a count it has read before, so the proof needs that nobody else raises it
(`CopyIsAhead`), that a copy and a row with one key are one message (`RowIdentity`) and
that every fetch is paid for by a count or a fault (`PicksCounted`). `RowIdentity` is
where the index enters: without it both properties are false (`DuplicateRows.cfg`).

Sockets (`UdpSocketProofs`). `DescriptorsAreReleased` holds for every caller that does
not call `Create` in an open object (`SocketsCreatedTwice.cfg` shows what happens then),
whatever it calls after `Close` and however many destructors run at once, and is
inductive with the types; that a new number collides with no open one is the lemma
`LowestFreeIsFree`, from the finiteness of the table. The other two are about callers
for which `Careful` holds. `CarefulInv` says what a number stands for in each phase of
an object's life: open means it is its own descriptor; between the two destructors,
both of which close it, the number is free or still its own, because in one thread
nothing else runs while an object is dying (`MayRun`).

Remote calls (`LogicInterfaceProofs`). Answers carry no usable sequence number, so the
invariant must say what is in the stream: `ClientInv` (one call is open while its
client waits, none otherwise), `StreamInv` (the connection holds at most one message,
the request or the answer of the last call, the latter in accordance with whether the
handler has run) and `RunsInv` (a handler has run at most once for a call, with its
method and argument, and the call ended accordingly). The model's calls carry
the argument and its bytes; `CallsAssumption` says that reading the bytes gives the
argument, and the two round-trip theorems show that this is what the generated
`write` and `read` do, for every argument and for peers that add fields.

Frames (`WireProofs`). The lemmas give the positions of the parts of a buffer
(`HeadIsRead`), show that the byte-order functions undo each other (`Reversed`), that
`strlen` stops where an encoder has put the 0 (`CStringOfBody`), that a list of beams
is decoded to what was reported (`ReportIsDecoded`), and what each of the encoders
writes. `WireInv` names every request and every frame there can be as an operator of
a submitted message or a report (`RequestOK`, `FrameOK`) and every row as the row of a
submitted message (`CacheInv`): a receipt is made from a frame, a repeated frame from a
row, a row from a request, so none of the four properties is inductive without the
other parts. `CoverInv` says that the row of a terminal holds the columns of the report
last stored for it. `WaitingIsAnnounced` counts on both sides: while no sender uses a
frame number twice (`KeysUsedOnce`) the rows of `message_cache` for a terminal's signed
identifier and the unsettled keys that end in its bytes are in bijection
(`WaitingIsCounted`), so the COUNT is the number of messages in custody. The hypotheses: `FromFirst`, that requests begin with `from_id` as
`struct ControlHead` has it (`TestClientHead.cfg` shows the other layout failing);
`LowIds`, identifiers below 2^31 (`HighUserIds.cfg`); `BeamsOnce`, a report names beams
1 to 10, each at most once (of a beam that is listed twice the last entry counts, as in
the code). `WireAssumption` gives words the sizes of the packed structures and says
that texts contain no 0, the byte that ends them.

Packet queue (`FifoQueueProofs`). `ImplementsQueue` proves `Spec => QueueRefined` for
every size of the buffer, any number of packets and any sets of threads. Packets of one
length lie in slots that never move (`Slot`, `Slots`), so the buffer is a ring of slots
and a tail too short for one. `RingInv` says where the two indices are: the writer is in
the lap of the reader (`SameLap`), or it has gone back to the start and stays behind the
reader (`NextLap`), and then `END_FLAG` is in the tail if there is room for it. The
slots between the indices hold the packets that are in `sent` and not yet in `got`, in
order, and the counters of `PushPacket` and `PopPacket` are their bytes. The lemma
`RoomForOne` is about the overflow test: when it lets a packet in, a slot is free, in
either lap. A push (`PushStep`) writes one slot and no other byte that waits to be read
(`WriteSlot`, `StoredKept`); a pop (`TakeStep`) takes the packet of the reader's slot
(`PacketRead`) after it has skipped the tail (`TailSkipped`). `PeekNextPackLen` reads
`END_FLAG` and moves `read_pos_` later, without the lock: the invariant keeps that the
reader is still at the tail in between, because a thread that peeks is the only consumer
(`PeekersAlone`) and a push never moves it. The hypotheses are needed: packets of two
lengths overwrite each other (`QueueMixedSizes.cfg`) and length 0 is the end mark
(`QueueEmptyPacket.cfg`). `FifoAssumption` keeps lengths below `MAX_PACK_SIZE`, which the
16-bit length field can hold.

Checksum (`Crc16Proofs`). `LoopInv` names the values of the loop variable in the first
call and says that the second call goes through the same ones up to the checksum. There
the upper byte of the variable meets itself in the buffer, the table is entered at 0
(`XorSelf`) and what is left is the lower byte, shifted; it meets itself in turn and
leaves 0. The proof uses that the entry at 0 is 0 and that the entries have 16 bits;
that they are the right ones is `LoopIsDivision`.

Only model-checked:

* the liveness properties `EveryRequestReturns`, `RetriesAreSpent`, `ShutdownEnds`,
  `PacketsArePopped` and `EveryCallEnds`: fairness and `ENABLED` are outside TLAPS;
* `LoopIsDivision`: the reference takes the terms of a polynomial away one by one, a
  fold over a buffer of any length, and the prover has no induction over data.

## Not modelled

* Capacity of the encoders' buffers and lengths of strings; bodies are short.
* The schema: `sql.sql` defines other tables than the four the server uses, so the
  types and indices of their columns are not known; `UniqueKey` and the two ways
  to enter an identifier in `Wire` cover the cases that matter.
* `UpdateOfflineMessage`, `ResponseEncode(MessageResponse)`,
  `MesaageInquireRequest` and `FifoQueue::Update`: no callers.
* Thrift: event-handler hooks (none is installed), factory, `Null` and
  `Multiface` classes, copy, swap, `printTo`; the branches of `recv_*` for an answer of
  the wrong type or name in `LogicInterfaceClient`, which `AnswersAreOwn` shows to
  be unreachable with a processor of this IDL; `LogicInterfaceConcurrentClient`,
  which nothing constructs and whose correctness is that of the library's
  `TConcurrentClientSyncInfo`, not in the repository.
* `utils.cpp` (wrappers of system calls without state), `user_manager.cpp`
  (stores a pointer), log output, the Windows branches of the sockets.
* Time-outs and reconnects inside libzdb.

## Plan

1. Done: the message path with its faults, mobility, daemon, pool, life cycle,
   packet queue, frames as bytes, remote calls, checksum, sockets; theorems for every
   safety property of the passing runs but `LoopIsDivision`; the custody service and the
   packet queue as abstract specifications, with the proofs that the server and the ring
   implement them.
2. Possible: a composition of `Lifecycle` with the handlers (a stop in the middle of
   requests and rounds).
