----------------------------- MODULE UdpSocket -----------------------------
(***************************************************************************)
(* commons/comm_socket.cpp and commons/udp_socket.cpp on Linux: objects    *)
(* that own a descriptor of the process.  The kernel gives out the lowest  *)
(* free number, so a number that was closed comes back as another object's *)
(* socket.  The system calls are external; any of them may fail.           *)
(***************************************************************************)
EXTENDS Integers, Sequences, FiniteSets

CONSTANTS
  Objects,         \* UdpSocket objects
  Nobody,          \* stands for no object
  Addresses,       \* addresses sockets are bound to
  NoAddress,       \* an address that was not set
  Payloads,        \* contents of datagrams
  Callers,         \* kinds of callers, see caller below
  MaxQueue,        \* bound: datagrams that wait at a socket
  MaxCalls         \* bound: objects constructed, and sockets created anew in open objects

ASSUME SocketAssumption ==
  /\ IsFiniteSet(Objects)
  /\ Nobody \notin Objects
  /\ NoAddress \notin Addresses
  /\ Callers \subseteq SUBSET {"one thread", "closes", "skips Create", "creates again"}
  /\ {MaxQueue, MaxCalls} \subseteq Nat

VARIABLES
  fds,     \* the open descriptors: from their numbers to descriptors
  obj,     \* obj[s]: the members of the object and the point its user has reached
  caller,  \* "one thread": all objects belong to one; "closes": Close is called and the
           \* object used again; "skips Create": an object is used and destroyed without
           \* it; "creates again": Create is called in an object that is open
  calls    \* objects constructed and created again so far

vars == <<fds, obj, caller, calls>>

NotOpen   == -1
MSG_IDLE    == 0
MSG_ARRIVAL == 1

\* A descriptor: whose socket it is, and the socket's options and queue.  sized: the size
\* of a buffer was set.
Socket(s) ==
  [owner |-> s, address |-> NoAddress, nonblock |-> FALSE, sized |-> FALSE, queue |-> <<>>]

\* life: "none", "built" (constructed), "open" (Create has succeeded), "closed" (Close, or
\* Create has failed), "dying" (between the two destructors).  wait: the last result of
\* WaitMsg.  asked: the last SetBlocking that succeeded.
NoObject ==
  [life |-> "none", socket_fd |-> NotOpen, peer |-> NoAddress, wait |-> MSG_IDLE, asked |-> {}]

\* In one thread nothing runs between the two destructors of an object.  Destructors in
\* other threads run beside each other and beside every call.
MayRun == "one thread" \in caller => \A t \in Objects : obj[t].life # "dying"

Own(s) == obj[s].socket_fd
IsOpen(s) == Own(s) \in DOMAIN fds

\* close(fd): a number that is not open is an error the code ignores.
Closed(fd) == [n \in DOMAIN fds \ {fd} |-> fds[n]]

LowestFree == CHOOSE n \in 0 .. Cardinality(DOMAIN fds) :
                n \notin DOMAIN fds /\ \A m \in 0 .. n - 1 : m \in DOMAIN fds

----------------------------------------------------------------------------
\* The constructors set the addresses only.  socket_fd_ has the value the memory had, of
\* which the model keeps the open numbers apart.
Construct(s) ==
  /\ MayRun
  /\ obj[s].life = "none"
  /\ calls < MaxCalls
  /\ calls' = calls + 1
  /\ \E garbage \in {NotOpen} \cup DOMAIN fds :
       obj' = [obj EXCEPT ![s] = [NoObject EXCEPT !.life = "built", !.socket_fd = garbage]]
  /\ UNCHANGED <<fds, caller>>

CreatesAgain == "creates again" \in caller

\* Create looks at nothing: an object that is open is given another number as well, and
\* the one it had is forgotten.
MayCreate(s) ==
  /\ MayRun
  /\ \/ obj[s].life \in {"built", "closed"} /\ UNCHANGED calls
     \/ /\ CreatesAgain
        /\ obj[s].life = "open"
        /\ calls < MaxCalls
        /\ calls' = calls + 1

\* Mutant: a socket that could not be created has the number 0.
Create_FailsWithZero(s) ==
  /\ MayCreate(s)
  /\ \/ /\ fds' = [n \in DOMAIN fds \cup {LowestFree} |->
                     IF n = LowestFree THEN Socket(s) ELSE fds[n]]
        /\ obj' = [obj EXCEPT ![s].socket_fd = LowestFree, ![s].life = "open",
                              ![s].wait = MSG_IDLE, ![s].asked = {}]
     \/ /\ obj' = [obj EXCEPT ![s].socket_fd = 0, ![s].life = "closed"]
        /\ UNCHANGED fds
  /\ UNCHANGED caller

\* UdpSocket::Create.
Create(s) ==
  /\ MayCreate(s)
  /\ \/ /\ fds' = [n \in DOMAIN fds \cup {LowestFree} |->
                     IF n = LowestFree THEN Socket(s) ELSE fds[n]]
        /\ obj' = [obj EXCEPT ![s].socket_fd = LowestFree, ![s].life = "open",
                              ![s].wait = MSG_IDLE, ![s].asked = {}]
     \/ /\ obj' = [obj EXCEPT ![s].socket_fd = NotOpen, ![s].life = "closed"]
        /\ UNCHANGED fds
  /\ UNCHANGED caller

\* A call of an object, which does not ask whether it has a socket: after Close and after
\* a Create that failed the system calls are given the number all the same.
Using(s) ==
  /\ MayRun
  /\ obj[s].life \in {"open", "closed"} \/ ("skips Create" \in caller /\ obj[s].life = "built")
  /\ UNCHANGED <<caller, calls>>

\* Bind: setsockopt and bind may fail.  local_addr_ is left out: a getter alone reads it.
Bind(s, address) ==
  /\ Using(s)
  /\ UNCHANGED obj
  /\ \/ /\ IsOpen(s)
        /\ fds[Own(s)].address = NoAddress
        /\ fds' = [fds EXCEPT ![Own(s)].address = address]
     \/ UNCHANGED fds

\* Connect: peer_addr_ is set whatever connect returns.
Connect(s, address) ==
  /\ Using(s)
  /\ obj' = [obj EXCEPT ![s].peer = address]
  /\ UNCHANGED fds

SetSendBufSize(s) ==
  /\ Using(s)
  /\ IsOpen(s)
  /\ fds' = [fds EXCEPT ![Own(s)].sized = TRUE]
  /\ UNCHANGED obj

SetRecvBufSize(s) ==
  /\ Using(s)
  /\ IsOpen(s)
  /\ fds' = [fds EXCEPT ![Own(s)].sized = TRUE]
  /\ UNCHANGED obj

\* SetBlocking: F_GETFL, then F_SETFL.
SetBlocking(s, block) ==
  /\ Using(s)
  /\ \/ /\ IsOpen(s)
        /\ fds' = [fds EXCEPT ![Own(s)].nonblock = ~block]
        /\ obj' = [obj EXCEPT ![s].asked = {block}]
     \/ UNCHANGED <<fds, obj>>

\* SendTo and Send: the datagram is queued where the address is bound, if anywhere.
Deliver(s, to, payload) ==
  \/ \E n \in DOMAIN fds :
       /\ IsOpen(s)
       /\ fds[n].address = to
       /\ Len(fds[n].queue) < MaxQueue
       /\ fds' = [fds EXCEPT ![n].queue = Append(@, payload)]
  \/ UNCHANGED fds

SendTo(s, to, payload) ==
  /\ Using(s)
  /\ Deliver(s, to, payload)
  /\ UNCHANGED obj

Send(s, payload) ==
  /\ Using(s)
  /\ obj[s].peer # NoAddress
  /\ Deliver(s, obj[s].peer, payload)
  /\ UNCHANGED obj

\* RecvFrom and Recv: with an empty queue a blocking call waits and another fails.
RecvFrom(s) ==
  /\ Using(s)
  /\ obj' = [obj EXCEPT ![s].wait = MSG_IDLE]
  /\ \/ /\ IsOpen(s)
        /\ fds[Own(s)].queue # <<>>
        /\ fds' = [fds EXCEPT ![Own(s)].queue = Tail(@)]
     \/ /\ IsOpen(s) => fds[Own(s)].queue = <<>> /\ fds[Own(s)].nonblock
        /\ UNCHANGED fds

\* Mutant: an error of select counts as an arrival (ret != 0 instead of ret > 0).
WaitMsg_ErrorArrives(s) ==
  /\ Using(s)
  /\ obj' = [obj EXCEPT ![s].wait = MSG_ARRIVAL]
  /\ UNCHANGED fds

\* WaitMsg: select fails, runs into the time-out, or finds a datagram.
WaitMsg(s) ==
  /\ Using(s)
  /\ \/ obj' = [obj EXCEPT ![s].wait = MSG_IDLE]
     \/ /\ IsOpen(s)
        /\ fds[Own(s)].queue # <<>>
        /\ obj' = [obj EXCEPT ![s].wait = MSG_ARRIVAL]
  /\ UNCHANGED fds

\* Close leaves socket_fd_ as it is.
Close(s) ==
  /\ "closes" \in caller
  /\ Using(s)
  /\ fds' = Closed(Own(s))
  /\ obj' = [obj EXCEPT ![s].life = "closed"]

\* ~UdpSocket closes a positive number ...
DestroyUdpSocket(s) ==
  /\ Using(s)
  /\ fds' = IF Own(s) > 0 THEN Closed(Own(s)) ELSE fds
  /\ obj' = [obj EXCEPT ![s].life = "dying"]

\* Mutant: the base class leaves the descriptor to the derived one.
DestroyCommonSocket_KeepsDescriptor(s) ==
  /\ obj[s].life = "dying"
  /\ obj' = [obj EXCEPT ![s] = NoObject]
  /\ UNCHANGED <<fds, caller, calls>>

\* ... and ~CommonSocket, which runs after it, closes the same number again.
DestroyCommonSocket(s) ==
  /\ obj[s].life = "dying"
  /\ fds' = Closed(Own(s))
  /\ obj' = [obj EXCEPT ![s] = NoObject]
  /\ UNCHANGED <<caller, calls>>

----------------------------------------------------------------------------
\* Standard input may be closed: the first socket then has the number 0.
Init ==
  /\ \E std \in {{}, {0}} : fds = [n \in std |-> Socket(Nobody)]
  /\ obj = [s \in Objects |-> NoObject]
  /\ caller \in Callers
  /\ calls = 0

Next ==
  \E s \in Objects :
    \/ Construct(s)
    \/ Create(s)
    \/ \E address \in Addresses : Bind(s, address)
    \/ \E address \in Addresses : Connect(s, address)
    \/ SetSendBufSize(s)
    \/ SetRecvBufSize(s)
    \/ \E block \in BOOLEAN : SetBlocking(s, block)
    \/ \E address \in Addresses, payload \in Payloads : SendTo(s, address, payload)
    \/ \E payload \in Payloads : Send(s, payload)
    \/ RecvFrom(s)
    \/ WaitMsg(s)
    \/ Close(s)
    \/ DestroyUdpSocket(s)
    \/ DestroyCommonSocket(s)

Spec == Init /\ [][Next]_vars

----------------------------------------------------------------------------
\* Every open descriptor is the one a living object will close.
NoneForgotten ==
  \A n \in DOMAIN fds :
    LET s == fds[n].owner IN
      s # Nobody => obj[s].life \in {"open", "dying"} /\ Own(s) = n

\* No descriptor outlives its object as long as Create is not called in an open object:
\* calls and destructors of other threads, a number that another object has closed and
\* reused, Close and a Create that fails lose none.
DescriptorsReleased == ~CreatesAgain => NoneForgotten

\* One thread that creates its sockets and leaves closing to the destructors.
Careful == caller = {"one thread"}

\* The number of an open object stands for the socket the object has created.
OwnsItsNumber(s) == obj[s].life = "open" => IsOpen(s) /\ fds[Own(s)].owner = s

\* A careful caller's objects never lose their sockets, although every destructor
\* closes its number twice: nobody has closed it, and an object's traffic does not go
\* over another's socket.
OwnDescriptor == Careful => \A s \in Objects : OwnsItsNumber(s)

\* After WaitMsg has reported an arrival, RecvFrom finds a datagram and does not wait,
\* even in a blocking socket.
ArrivalIsReceived ==
  \A s \in Objects :
    Careful /\ obj[s].life = "open" /\ obj[s].wait = MSG_ARRIVAL => fds[Own(s)].queue # <<>>

----------------------------------------------------------------------------
(* What does not hold of the code.                                         *)

\* DescriptorsReleased for every caller.  Create neither closes the number an object has
\* nor refuses to run.
EveryCallerReleases == NoneForgotten

\* OwnDescriptor for every caller.  Close and ~UdpSocket leave the number in socket_fd_,
\* and ~CommonSocket closes it when another object may have it.
EveryCallerKeepsSockets == \A s \in Objects : OwnsItsNumber(s)

\* The comment on SetBlocking: 0 is blocking, 1 is non-blocking.
BlockingAsDocumented ==
  \A s \in Objects, block \in BOOLEAN :
    obj[s].life = "open" /\ IsOpen(s) /\ block \in obj[s].asked => fds[Own(s)].nonblock = block
=============================================================================
