-------------------------- MODULE UdpSocketProofs --------------------------
(***************************************************************************)
(* Proofs about UdpSocket: descriptors are released with their objects     *)
(* unless Create is called in an open one; a caller of one thread that     *)
(* never calls Close keeps the sockets it has created, and a reported      *)
(* arrival waits for RecvFrom.                                             *)
(***************************************************************************)
EXTENDS UdpSocket, FiniteSetTheorems, SequenceTheorems, TLAPS

\* What a descriptor and an object are made of.
Descriptors ==
  [owner : Objects \cup {Nobody}, address : Addresses \cup {NoAddress}, nonblock : BOOLEAN,
   sized : BOOLEAN, queue : Seq(Payloads)]

Members ==
  [life : {"none", "built", "open", "closed", "dying"}, socket_fd : Int,
   peer : Addresses \cup {NoAddress},
   wait : {MSG_IDLE, MSG_ARRIVAL}, asked : SUBSET BOOLEAN]

\* The type of the descriptor table: finitely many numbers, none of them negative.
TableOK ==
  /\ IsFiniteSet(DOMAIN fds)
  /\ DOMAIN fds \subseteq Nat
  /\ \A n \in DOMAIN fds : fds[n] \in Descriptors

SocketsOK ==
  /\ TableOK
  /\ obj \in [Objects -> Members]

----------------------------------------------------------------------------
(* The kernel's choice of a number.                                        *)

\* socket(2) always has a number to give, one that is not open: among the numbers up to
\* that of the open descriptors one is free, and so there is a least free one.
LEMMA LowestFreeIsFree ==
  ASSUME IsFiniteSet(DOMAIN fds), DOMAIN fds \subseteq Nat
  PROVE  LowestFree \in Nat /\ LowestFree \notin DOMAIN fds
<1> DEFINE D == DOMAIN fds
           k == Cardinality(D)
           F == {n \in Nat : n \notin D}
           Below == {p \in Nat \X Nat : p[1] < p[2]}
<1>1. k \in Nat
  BY FS_CardinalityType
<1>2. PICK j \in 0 .. k : j \notin D
  <2> SUFFICES ASSUME \A j \in 0 .. k : j \in D
               PROVE  FALSE
    OBVIOUS
  <2>1. Cardinality(0 .. k) = k + 1
    BY <1>1, FS_Interval
  <2>2. 0 .. k \in SUBSET D
    OBVIOUS
  <2>3. Cardinality(0 .. k) <= k
    BY <2>2, FS_Subset
  <2> QED
    BY <1>1, <2>1, <2>3
<1>3. j \in F
  BY <1>1, <1>2
<1>4. PICK n \in F : \A m \in F : ~ (<<m, n>> \in Below)
  <2>1. IsWellFoundedOn(Below, Nat)
    BY NatLessThanWellFounded DEF OpToRel
  <2> HIDE DEF F, Below
  <2>2. F \subseteq Nat /\ F # {}
    BY <1>3 DEF F
  <2> QED
    BY <2>1, <2>2, WFMin
<1>5. \A m \in F : ~ (m < n)
  BY <1>4
<1>6. n \in 0 .. k
  BY <1>1, <1>2, <1>3, <1>5
<1>7. n \notin D /\ \A m \in 0 .. n - 1 : m \in D
  BY <1>4, <1>5
<1>8. LowestFree \in 0 .. k /\ LowestFree \notin D
  BY <1>6, <1>7 DEF LowestFree
<1> QED
  BY <1>1, <1>8

----------------------------------------------------------------------------
(* Calls of an object that leave its number alone.                         *)

\* The calls that neither open nor close a descriptor.
UseOf(s) ==
  \/ \E address \in Addresses : Bind(s, address)
  \/ \E address \in Addresses : Connect(s, address)
  \/ SetSendBufSize(s)
  \/ SetRecvBufSize(s)
  \/ \E block \in BOOLEAN : SetBlocking(s, block)
  \/ \E address \in Addresses, payload \in Payloads : SendTo(s, address, payload)
  \/ \E payload \in Payloads : Send(s, payload)
  \/ RecvFrom(s)
  \/ WaitMsg(s)

\* Same numbers, same owners, same objects behind them: what the calls keep.
SameOwners ==
  /\ DOMAIN fds' = DOMAIN fds
  /\ \A n \in DOMAIN fds : fds'[n].owner = fds[n].owner
  /\ \A t \in Objects : obj'[t].life = obj[t].life /\ obj'[t].socket_fd = obj[t].socket_fd
  /\ UNCHANGED caller

\* A change of one field of one descriptor keeps the table in shape and the owners.
LEMMA FieldChange ==
  ASSUME TableOK, NEW n \in DOMAIN fds, NEW d \in Descriptors,
         fds' = [fds EXCEPT ![n] = d]
  PROVE  TableOK'
BY DEF TableOK

\* An object whose members change in type stays in shape.
LEMMA MembersChange ==
  ASSUME obj \in [Objects -> Members], NEW s \in Objects, NEW m \in Members,
         obj' = [obj EXCEPT ![s] = m]
  PROVE  obj' \in [Objects -> Members]
OBVIOUS

\* SendTo and Send queue one datagram at one descriptor, or nothing happens.
LEMMA DeliverQueues ==
  ASSUME TableOK, NEW s \in Objects, NEW to, NEW payload \in Payloads,
         Deliver(s, to, payload)
  PROVE  /\ TableOK'
         /\ DOMAIN fds' = DOMAIN fds
         /\ \A n \in DOMAIN fds :
              /\ fds'[n].owner = fds[n].owner
              /\ fds[n].queue # <<>> => fds'[n].queue # <<>>
<1>1. CASE UNCHANGED fds
  BY <1>1 DEF TableOK
<1>2. CASE \E n \in DOMAIN fds : fds' = [fds EXCEPT ![n].queue = Append(@, payload)]
  <2>1. PICK n \in DOMAIN fds : fds' = [fds EXCEPT ![n].queue = Append(@, payload)]
    BY <1>2
  <2> DEFINE q == Append(fds[n].queue, payload)
             d == [fds[n] EXCEPT !.queue = q]
  <2>2. fds[n] \in Descriptors /\ fds[n].queue \in Seq(Payloads)
    BY DEF TableOK, Descriptors
  <2>3. q \in Seq(Payloads) /\ q # <<>>
    BY <2>2
  <2>4. fds' = [fds EXCEPT ![n] = d]
    BY <2>1
  <2> HIDE DEF q
  <2>5. d \in Descriptors /\ d.owner = fds[n].owner /\ d.queue = q
    BY <2>2, <2>3 DEF Descriptors
  <2> HIDE DEF d
  <2>6. TableOK'
    BY <2>4, <2>5, FieldChange
  <2> QED
    BY <2>3, <2>4, <2>5, <2>6
<1> QED
  BY <1>1, <1>2 DEF Deliver

\* Every call of an open object keeps the types and all owners.
LEMMA UseKeepsOwners ==
  ASSUME SocketsOK, NEW s \in Objects, UseOf(s)
  PROVE  SocketsOK' /\ SameOwners
<1> USE DEF SocketsOK
<1>0. /\ obj[s] \in Members
      /\ \A n \in DOMAIN fds : fds[n] \in Descriptors
  BY DEF TableOK
<1>u. ASSUME Using(s) PROVE UNCHANGED caller
  BY <1>u DEF Using
<1>1. ASSUME NEW address \in Addresses, Bind(s, address)
      PROVE  SocketsOK' /\ SameOwners
  <2>1. UNCHANGED obj
    BY <1>1 DEF Bind
  <2>4. CASE UNCHANGED fds
    BY <1>1, <1>u, <2>1, <2>4 DEF Bind, SameOwners, TableOK
  <2>5. CASE IsOpen(s) /\ fds' = [fds EXCEPT ![Own(s)].address = address]
    <3> DEFINE d == [fds[Own(s)] EXCEPT !.address = address]
    <3>1. d \in Descriptors /\ d.owner = fds[Own(s)].owner
      BY <1>0, <2>5 DEF IsOpen, Descriptors
    <3>2. fds' = [fds EXCEPT ![Own(s)] = d]
      BY <2>5
    <3> HIDE DEF d
    <3>3. TableOK'
      BY <2>5, <3>1, <3>2, FieldChange DEF IsOpen
    <3> QED
      BY <1>1, <1>u, <2>1, <3>1, <3>2, <3>3 DEF Bind, SameOwners
  <2> QED
    BY <1>1, <2>4, <2>5 DEF Bind
<1>2. ASSUME NEW address \in Addresses, Connect(s, address)
      PROVE  SocketsOK' /\ SameOwners
  <2> DEFINE m == [obj[s] EXCEPT !.peer = address]
  <2>1. /\ m \in Members
        /\ m.life = obj[s].life /\ m.socket_fd = obj[s].socket_fd
    BY <1>0 DEF Members
  <2>2. obj' = [obj EXCEPT ![s] = m]
    BY <1>2 DEF Connect
  <2> HIDE DEF m
  <2> QED
    BY <1>2, <1>u, <2>1, <2>2 DEF Connect, SameOwners, TableOK
<1>3. CASE SetSendBufSize(s)
  <2> DEFINE d == [fds[Own(s)] EXCEPT !.sized = TRUE]
  <2>1. d \in Descriptors /\ d.owner = fds[Own(s)].owner
    BY <1>0, <1>3 DEF SetSendBufSize, IsOpen, Descriptors
  <2>2. fds' = [fds EXCEPT ![Own(s)] = d]
    BY <1>3 DEF SetSendBufSize
  <2> HIDE DEF d
  <2>3. TableOK'
    BY <1>3, <2>1, <2>2, FieldChange DEF SetSendBufSize, IsOpen
  <2> QED
    BY <1>3, <1>u, <2>1, <2>2, <2>3 DEF SetSendBufSize, SameOwners
<1>4. CASE SetRecvBufSize(s)
  <2> DEFINE d == [fds[Own(s)] EXCEPT !.sized = TRUE]
  <2>1. d \in Descriptors /\ d.owner = fds[Own(s)].owner
    BY <1>0, <1>4 DEF SetRecvBufSize, IsOpen, Descriptors
  <2>2. fds' = [fds EXCEPT ![Own(s)] = d]
    BY <1>4 DEF SetRecvBufSize
  <2> HIDE DEF d
  <2>3. TableOK'
    BY <1>4, <2>1, <2>2, FieldChange DEF SetRecvBufSize, IsOpen
  <2> QED
    BY <1>4, <1>u, <2>1, <2>2, <2>3 DEF SetRecvBufSize, SameOwners
<1>5. ASSUME NEW block \in BOOLEAN, SetBlocking(s, block)
      PROVE  SocketsOK' /\ SameOwners
  <2>1. CASE UNCHANGED <<fds, obj>>
    BY <1>5, <1>u, <2>1 DEF SetBlocking, SameOwners, TableOK
  <2>2. CASE /\ IsOpen(s)
             /\ fds' = [fds EXCEPT ![Own(s)].nonblock = ~block]
             /\ obj' = [obj EXCEPT ![s].asked = {block}]
    <3> DEFINE d == [fds[Own(s)] EXCEPT !.nonblock = ~block]
               m == [obj[s] EXCEPT !.asked = {block}]
    <3>1. d \in Descriptors /\ d.owner = fds[Own(s)].owner
      BY <1>0, <2>2 DEF IsOpen, Descriptors
    <3>2. m \in Members /\ m.life = obj[s].life /\ m.socket_fd = obj[s].socket_fd
      BY <1>0 DEF Members
    <3>3. fds' = [fds EXCEPT ![Own(s)] = d] /\ obj' = [obj EXCEPT ![s] = m]
      BY <2>2
    <3> HIDE DEF d, m
    <3>4. TableOK'
      BY <2>2, <3>1, <3>3, FieldChange DEF IsOpen
    <3> QED
      BY <1>5, <1>u, <3>1, <3>2, <3>3, <3>4 DEF SetBlocking, SameOwners
  <2> QED
    BY <1>5, <2>1, <2>2 DEF SetBlocking
<1>6. ASSUME NEW address, NEW payload \in Payloads, Using(s), UNCHANGED obj,
             Deliver(s, address, payload)
      PROVE  SocketsOK' /\ SameOwners
  BY <1>6, <1>u, DeliverQueues DEF SameOwners
<1>7. CASE RecvFrom(s)
  <2> DEFINE m == [obj[s] EXCEPT !.wait = MSG_IDLE]
  <2>1. /\ m \in Members
        /\ m.life = obj[s].life /\ m.socket_fd = obj[s].socket_fd
    BY <1>0 DEF Members
  <2>2. obj' = [obj EXCEPT ![s] = m]
    BY <1>7 DEF RecvFrom
  <2> HIDE DEF m
  <2>3. obj' \in [Objects -> Members]
    BY <2>1, <2>2, MembersChange
  <2>4. CASE UNCHANGED fds
    BY <1>7, <1>u, <2>1, <2>2, <2>3, <2>4 DEF RecvFrom, SameOwners, TableOK
  <2>5. CASE /\ IsOpen(s)
             /\ fds[Own(s)].queue # <<>>
             /\ fds' = [fds EXCEPT ![Own(s)].queue = Tail(@)]
    <3> DEFINE d == [fds[Own(s)] EXCEPT !.queue = Tail(@)]
    <3>1. Tail(fds[Own(s)].queue) \in Seq(Payloads)
      BY <1>0, <2>5 DEF IsOpen, Descriptors
    <3>2. d \in Descriptors /\ d.owner = fds[Own(s)].owner
      BY <1>0, <2>5, <3>1 DEF IsOpen, Descriptors
    <3>3. fds' = [fds EXCEPT ![Own(s)] = d]
      BY <2>5
    <3> HIDE DEF d
    <3>4. TableOK'
      BY <2>5, <3>2, <3>3, FieldChange DEF IsOpen
    <3> QED
      BY <1>7, <1>u, <2>1, <2>2, <2>3, <3>2, <3>3, <3>4 DEF RecvFrom, SameOwners
  <2> QED
    BY <1>7, <2>4, <2>5 DEF RecvFrom
<1>8. CASE WaitMsg(s)
  <2>1. PICK w \in {MSG_IDLE, MSG_ARRIVAL} : obj' = [obj EXCEPT ![s].wait = w]
    BY <1>8 DEF WaitMsg
  <2> DEFINE m == [obj[s] EXCEPT !.wait = w]
  <2>2. m \in Members /\ m.life = obj[s].life /\ m.socket_fd = obj[s].socket_fd
    BY <1>0 DEF Members
  <2>3. obj' = [obj EXCEPT ![s] = m]
    BY <2>1
  <2> HIDE DEF m
  <2> QED
    BY <1>8, <1>u, <2>2, <2>3 DEF WaitMsg, SameOwners, TableOK
<1> QED
  BY <1>1, <1>2, <1>3, <1>4, <1>5, <1>6, <1>7, <1>8 DEF UseOf, SendTo, Send

----------------------------------------------------------------------------
(* Calls that open and close.                                              *)

\* close(fd) keeps the table in shape.
LEMMA ClosedTable ==
  ASSUME TableOK, NEW fd, fds' = Closed(fd)
  PROVE  /\ TableOK'
         /\ DOMAIN fds' = DOMAIN fds \ {fd}
         /\ \A n \in DOMAIN fds' : fds'[n] = fds[n]
<1>1. DOMAIN fds' = DOMAIN fds \ {fd} /\ \A n \in DOMAIN fds' : fds'[n] = fds[n]
  BY DEF Closed
<1>2. IsFiniteSet(DOMAIN fds')
  BY <1>1, FS_RemoveElement DEF TableOK
<1> QED
  BY <1>1, <1>2 DEF TableOK

\* socket(2) adds one descriptor, under a number that was free, and changes no other.
LEMMA OpenedTable ==
  ASSUME TableOK, NEW s \in Objects,
         fds' = [n \in DOMAIN fds \cup {LowestFree} |->
                   IF n = LowestFree THEN Socket(s) ELSE fds[n]]
  PROVE  /\ TableOK'
         /\ LowestFree \in Nat /\ LowestFree \notin DOMAIN fds
         /\ DOMAIN fds' = DOMAIN fds \cup {LowestFree}
         /\ fds'[LowestFree] = Socket(s)
         /\ \A n \in DOMAIN fds : fds'[n] = fds[n]
<1>1. LowestFree \in Nat /\ LowestFree \notin DOMAIN fds
  BY LowestFreeIsFree DEF TableOK
<1>2. Socket(s) \in Descriptors
  BY DEF Socket, Descriptors
<1> DEFINE low == LowestFree
<1>3. /\ DOMAIN fds' = DOMAIN fds \cup {low}
      /\ fds'[low] = Socket(s)
      /\ \A n \in DOMAIN fds : fds'[n] = fds[n]
  BY <1>1
<1> HIDE DEF low
<1>4. IsFiniteSet(DOMAIN fds')
  BY <1>3, FS_AddElement DEF TableOK
<1>5. TableOK'
  BY <1>1, <1>2, <1>3, <1>4 DEF TableOK, low
<1> QED
  BY <1>1, <1>3, <1>5 DEF low

\* The types are kept by every call.
LEMMA SocketsOKStep ==
  ASSUME SocketsOK, [Next]_vars
  PROVE  SocketsOK'
<1>1. CASE UNCHANGED vars
  BY <1>1 DEF vars, SocketsOK, TableOK
<1>2. ASSUME NEW s \in Objects, Construct(s)
      PROVE  SocketsOK'
  <2>1. PICK garbage \in {NotOpen} \cup DOMAIN fds :
          obj' = [obj EXCEPT ![s] = [NoObject EXCEPT !.life = "built", !.socket_fd = garbage]]
    BY <1>2 DEF Construct
  <2>2. garbage \in Int
    BY DEF NotOpen, SocketsOK, TableOK
  <2>3. [NoObject EXCEPT !.life = "built", !.socket_fd = garbage] \in Members
    BY <2>2 DEF NoObject, Members
  <2> QED
    BY <1>2, <2>1, <2>3, MembersChange DEF Construct, SocketsOK, TableOK
<1>3. ASSUME NEW s \in Objects, Create(s)
      PROVE  SocketsOK'
  <2> DEFINE opened == [obj[s] EXCEPT !.socket_fd = LowestFree, !.life = "open",
                                      !.wait = MSG_IDLE, !.asked = {}]
             failed == [obj[s] EXCEPT !.socket_fd = NotOpen, !.life = "closed"]
  <2>1. obj[s] \in Members /\ LowestFree \in Int
    BY LowestFreeIsFree DEF SocketsOK, TableOK
  <2>2. opened \in Members
    <3>1. {} \in SUBSET BOOLEAN
      OBVIOUS
    <3> QED
      BY <2>1, <3>1 DEF Members
  <2>5. failed \in Members
    <3>1. NotOpen \in Int
      BY DEF NotOpen
    <3> QED
      BY <2>1, <3>1 DEF Members
  <2>3. CASE UNCHANGED fds /\ obj' = [obj EXCEPT ![s].socket_fd = NotOpen, ![s].life = "closed"]
    <3>1. obj' = [obj EXCEPT ![s] = failed]
      BY <2>3 DEF SocketsOK
    <3> QED
      BY <1>3, <2>3, <2>5, <3>1 DEF Create, SocketsOK, TableOK
  <2>4. CASE /\ fds' = [n \in DOMAIN fds \cup {LowestFree} |->
                          IF n = LowestFree THEN Socket(s) ELSE fds[n]]
             /\ obj' = [obj EXCEPT ![s].socket_fd = LowestFree, ![s].life = "open",
                                   ![s].wait = MSG_IDLE, ![s].asked = {}]
    <3>1. obj' = [obj EXCEPT ![s] = opened]
      BY <2>4 DEF SocketsOK
    <3>2. TableOK'
      BY <2>4, OpenedTable DEF SocketsOK
    <3> QED
      BY <1>3, <2>2, <3>1, <3>2 DEF Create, SocketsOK
  <2> QED
    BY <1>3, <2>3, <2>4 DEF Create
<1>4. ASSUME NEW s \in Objects, UseOf(s)
      PROVE  SocketsOK'
  BY <1>4, UseKeepsOwners
<1>5. ASSUME NEW s \in Objects, Close(s)
      PROVE  SocketsOK'
  <2> DEFINE m == [obj[s] EXCEPT !.life = "closed"]
  <2>1. m \in Members /\ obj' = [obj EXCEPT ![s] = m]
    BY <1>5 DEF Close, SocketsOK, Members
  <2>2. TableOK'
    BY <1>5, ClosedTable DEF Close, Using, SocketsOK
  <2> QED
    BY <2>1, <2>2 DEF SocketsOK
<1>6. ASSUME NEW s \in Objects, DestroyUdpSocket(s)
      PROVE  SocketsOK'
  <2> DEFINE m == [obj[s] EXCEPT !.life = "dying"]
  <2>1. m \in Members /\ obj' = [obj EXCEPT ![s] = m]
    BY <1>6 DEF DestroyUdpSocket, SocketsOK, Members
  <2>2. fds' = Closed(Own(s)) \/ UNCHANGED fds
    BY <1>6 DEF DestroyUdpSocket
  <2>3. TableOK'
    BY <2>2, ClosedTable DEF SocketsOK, TableOK
  <2> QED
    BY <2>1, <2>3 DEF SocketsOK
<1>7. ASSUME NEW s \in Objects, DestroyCommonSocket(s)
      PROVE  SocketsOK'
  <2>1. NoObject \in Members /\ obj' = [obj EXCEPT ![s] = NoObject]
    BY <1>7 DEF DestroyCommonSocket, NoObject, Members, NotOpen
  <2>2. TableOK'
    BY <1>7, ClosedTable DEF DestroyCommonSocket, SocketsOK
  <2> QED
    BY <2>1, <2>2 DEF SocketsOK
<1> QED
  BY <1>1, <1>2, <1>3, <1>4, <1>5, <1>6, <1>7 DEF Next, UseOf

\* The types of the initial states.
LEMMA SocketsOKInit == Init => SocketsOK
<1> SUFFICES ASSUME Init PROVE SocketsOK
  OBVIOUS
<1>1. PICK std \in {{}, {0}} : fds = [n \in std |-> Socket(Nobody)]
  BY DEF Init
<1>2. IsFiniteSet(std) /\ std \subseteq Nat
  <2>1. IsFiniteSet({}) /\ IsFiniteSet({0})
    BY FS_EmptySet, FS_Singleton, Zenon
  <2> QED
    BY <2>1
<1>3. Socket(Nobody) \in Descriptors
  BY DEF Socket, Descriptors
<1>4. TableOK
  BY <1>1, <1>2, <1>3 DEF TableOK
<1>5. NoObject \in Members
  BY DEF NoObject, Members, NotOpen
<1> QED
  BY <1>4, <1>5 DEF Init, SocketsOK

\* The types hold in every reachable state.
LEMMA SocketTypes == Spec => []SocketsOK
BY SocketsOKInit, SocketsOKStep, PTL DEF Spec

----------------------------------------------------------------------------
(* Descriptors are released.                                               *)

\* A call keeps NoneForgotten when nobody creates again: an object whose number changes has
\* no descriptor, and closing an object's number closes the descriptor it owns.
LEMMA ReleasedStep ==
  ASSUME SocketsOK, NoneForgotten, ~CreatesAgain, [Next]_vars
  PROVE  NoneForgotten'
<1> USE DEF NoneForgotten, Own
<1>n. Nobody \notin Objects
  BY SocketAssumption DEF SocketAssumption
<1>t. /\ \A t \in Objects : obj[t] \in Members
      /\ \A n \in DOMAIN fds : fds[n] \in Descriptors
      /\ \A n \in DOMAIN fds : fds[n].owner \in Objects \cup {Nobody}
  BY DEF SocketsOK, TableOK, Descriptors
<1>1. CASE UNCHANGED vars
  BY <1>1 DEF vars
<1>2. ASSUME NEW s \in Objects, Construct(s)
      PROVE  NoneForgotten'
  <2>1. \A n \in DOMAIN fds : fds[n].owner # s
    BY <1>2, <1>n DEF Construct
  <2>2. UNCHANGED fds /\ \A t \in Objects \ {s} : obj'[t] = obj[t]
    BY <1>2 DEF Construct, SocketsOK
  <2> QED
    BY <1>t, <2>1, <2>2
<1>3. ASSUME NEW s \in Objects, Create(s)
      PROVE  NoneForgotten'
  <2>1. \A n \in DOMAIN fds : fds[n].owner # s
    BY <1>3, <1>n DEF Create, MayCreate
  <2>2. \A t \in Objects \ {s} : obj'[t] = obj[t]
    BY <1>3 DEF Create, SocketsOK
  <2>3. CASE UNCHANGED fds
    BY <1>t, <2>1, <2>2, <2>3
  <2>4. CASE /\ fds' = [n \in DOMAIN fds \cup {LowestFree} |->
                          IF n = LowestFree THEN Socket(s) ELSE fds[n]]
             /\ obj' = [obj EXCEPT ![s].socket_fd = LowestFree, ![s].life = "open",
                                   ![s].wait = MSG_IDLE, ![s].asked = {}]
    <3>1. /\ DOMAIN fds' = DOMAIN fds \cup {LowestFree}
          /\ fds'[LowestFree] = Socket(s)
          /\ \A n \in DOMAIN fds : fds'[n] = fds[n]
      BY <2>4, OpenedTable DEF SocketsOK
    <3>2. obj'[s].life = "open" /\ obj'[s].socket_fd = LowestFree
      BY <1>t, <2>4 DEF SocketsOK, Members
    <3>3. fds'[LowestFree].owner = s
      BY <3>1 DEF Socket
    <3> QED
      BY <1>t, <2>1, <2>2, <3>1, <3>2, <3>3
  <2> QED
    BY <1>3, <2>3, <2>4 DEF Create
<1>4. ASSUME NEW s \in Objects, UseOf(s)
      PROVE  NoneForgotten'
  BY <1>t, <1>4, UseKeepsOwners DEF SameOwners
<1>5. ASSUME NEW s \in Objects, Close(s)
      PROVE  NoneForgotten'
  <2>1. /\ DOMAIN fds' = DOMAIN fds \ {Own(s)}
        /\ \A n \in DOMAIN fds' : fds'[n] = fds[n]
    BY <1>5, ClosedTable DEF Close, SocketsOK
  <2>2. \A t \in Objects \ {s} : obj'[t] = obj[t]
    BY <1>5 DEF Close, SocketsOK
  <2> QED
    BY <1>t, <2>1, <2>2, <1>n
<1>6. ASSUME NEW s \in Objects, DestroyUdpSocket(s)
      PROVE  NoneForgotten'
  <2>1. fds' = Closed(Own(s)) \/ UNCHANGED fds
    BY <1>6 DEF DestroyUdpSocket
  <2>2. \A n \in DOMAIN fds' : n \in DOMAIN fds /\ fds'[n] = fds[n]
    BY <2>1, ClosedTable DEF SocketsOK
  <2>3. /\ \A t \in Objects \ {s} : obj'[t] = obj[t]
        /\ obj'[s].life = "dying" /\ obj'[s].socket_fd = obj[s].socket_fd
    BY <1>t, <1>6 DEF DestroyUdpSocket, SocketsOK, Members
  <2> QED
    BY <1>t, <2>2, <2>3
<1>7. ASSUME NEW s \in Objects, DestroyCommonSocket(s)
      PROVE  NoneForgotten'
  <2>1. /\ DOMAIN fds' = DOMAIN fds \ {Own(s)}
        /\ \A n \in DOMAIN fds' : fds'[n] = fds[n]
    BY <1>7, ClosedTable DEF DestroyCommonSocket, SocketsOK
  <2>2. \A t \in Objects \ {s} : obj'[t] = obj[t]
    BY <1>7 DEF DestroyCommonSocket, SocketsOK
  <2> QED
    BY <1>t, <2>1, <2>2, <1>n
<1> QED
  BY <1>1, <1>2, <1>3, <1>4, <1>5, <1>6, <1>7 DEF Next, UseOf

\* Who calls does not change.
LEMMA SameCaller == [Next]_vars => UNCHANGED caller
BY DEF Next, vars, Construct, Create, Bind, Connect, SetSendBufSize, SetRecvBufSize,
       SetBlocking, SendTo, Send, RecvFrom, WaitMsg, Close, Using, DestroyUdpSocket,
       DestroyCommonSocket

\* No descriptor outlives its object, for any number of objects and threads, as long as
\* Create is not called in an open object: every open descriptor is the one a living
\* object will close, whoever else closes its number, or uses it, before.
THEOREM DescriptorsAreReleased == Spec => []DescriptorsReleased
<1>1. Init => DescriptorsReleased
  BY DEF Init, DescriptorsReleased, NoneForgotten, Socket
<1>2. SocketsOK /\ DescriptorsReleased /\ [Next]_vars => DescriptorsReleased'
  <2>1. [Next]_vars => CreatesAgain' = CreatesAgain
    BY SameCaller DEF CreatesAgain
  <2> QED
    BY <2>1, ReleasedStep DEF DescriptorsReleased
<1> QED
  BY <1>1, <1>2, SocketTypes, PTL DEF Spec

----------------------------------------------------------------------------
(* A careful caller keeps its sockets.                                     *)

\* What an object's number stands for at each point of its life, when one thread uses all
\* objects and never calls Close.  Between the two destructors the number is free or,
\* when it was 0, still the object's own.
NumberInv(s) ==
  /\ obj[s].life = "open" => Own(s) \in DOMAIN fds /\ fds[Own(s)].owner = s
  /\ obj[s].life = "closed" => Own(s) = NotOpen
  /\ obj[s].life = "dying" /\ Own(s) \in DOMAIN fds => fds[Own(s)].owner = s

\* A reported arrival still waits in the queue.
ArrivalInv(s) ==
  obj[s].life = "open" /\ obj[s].wait = MSG_ARRIVAL => fds[Own(s)].queue # <<>>

CarefulInv == Careful => \A s \in Objects : NumberInv(s) /\ ArrivalInv(s)

\* The calls of a careful caller keep what its objects' numbers stand for.  Nobody has
\* two numbers, so what one object does to its descriptor leaves the others' alone.
LEMMA CarefulStep ==
  ASSUME SocketsOK, Careful, \A s \in Objects : NumberInv(s) /\ ArrivalInv(s), [Next]_vars
  PROVE  \A t \in Objects : NumberInv(t)' /\ ArrivalInv(t)'
<1> USE DEF NumberInv, ArrivalInv, Own
<1>n. Nobody \notin Objects
  BY SocketAssumption DEF SocketAssumption
<1>m. MSG_IDLE # MSG_ARRIVAL
  BY DEF MSG_IDLE, MSG_ARRIVAL
<1>t. /\ obj \in [Objects -> Members]
      /\ \A t \in Objects : obj[t] \in Members
      /\ \A n \in DOMAIN fds : fds[n] \in Descriptors
      /\ NotOpen \notin DOMAIN fds
  BY DEF SocketsOK, TableOK, NotOpen
<1>r. ASSUME MayRun
      PROVE  \A t \in Objects : obj[t].life # "dying"
  BY <1>r DEF MayRun, Careful
<1> SUFFICES ASSUME NEW t \in Objects
             PROVE  NumberInv(t)' /\ ArrivalInv(t)'
  OBVIOUS
<1>1. CASE UNCHANGED vars
  BY <1>1 DEF vars
<1>2. ASSUME NEW s \in Objects, Construct(s)
      PROVE  NumberInv(t)' /\ ArrivalInv(t)'
  <2>1. PICK garbage : obj' = [obj EXCEPT ![s] =
                                 [NoObject EXCEPT !.life = "built", !.socket_fd = garbage]]
    BY <1>2 DEF Construct
  <2>2. obj'[s].life = "built" /\ \A u \in Objects \ {s} : obj'[u] = obj[u]
    BY <1>t, <2>1 DEF NoObject
  <2>3. UNCHANGED fds
    BY <1>2 DEF Construct
  <2> QED
    BY <1>n, <2>2, <2>3
<1>3. ASSUME NEW s \in Objects, Create(s)
      PROVE  NumberInv(t)' /\ ArrivalInv(t)'
  <2>1. \A u \in Objects : obj[u].life # "dying"
    BY <1>3, <1>r DEF Create, MayCreate
  <2>2. \A u \in Objects \ {s} : obj'[u] = obj[u]
    BY <1>3, <1>t DEF Create
  <2>3. CASE UNCHANGED fds /\ obj' = [obj EXCEPT ![s].socket_fd = NotOpen, ![s].life = "closed"]
    <3>1. obj'[s].socket_fd = NotOpen /\ obj'[s].life = "closed"
      BY <1>t, <2>3 DEF Members
    <3> QED
      BY <1>n, <2>1, <2>2, <2>3, <3>1
  <2>4. CASE /\ fds' = [n \in DOMAIN fds \cup {LowestFree} |->
                          IF n = LowestFree THEN Socket(s) ELSE fds[n]]
             /\ obj' = [obj EXCEPT ![s].socket_fd = LowestFree, ![s].life = "open",
                                   ![s].wait = MSG_IDLE, ![s].asked = {}]
    <3>1. /\ DOMAIN fds' = DOMAIN fds \cup {LowestFree}
          /\ fds'[LowestFree] = Socket(s)
          /\ \A n \in DOMAIN fds : fds'[n] = fds[n]
      BY <2>4, OpenedTable DEF SocketsOK
    <3>2. /\ obj'[s].life = "open" /\ obj'[s].socket_fd = LowestFree
          /\ obj'[s].wait = MSG_IDLE
      BY <1>t, <2>4 DEF Members
    <3>3. fds'[LowestFree].owner = s
      BY <3>1 DEF Socket
    <3>4. CASE t = s
      BY <1>n, <2>1, <3>1, <3>2, <3>3, <3>4, <1>m
    <3>5. CASE t # s
      BY <1>n, <2>1, <2>2, <3>1, <3>5
    <3> QED
      BY <3>4, <3>5
  <2> QED
    BY <1>3, <2>3, <2>4 DEF Create
<1>4. ASSUME NEW s \in Objects, UseOf(s)
      PROVE  NumberInv(t)' /\ ArrivalInv(t)'
  <2>1. SameOwners
    BY <1>4, UseKeepsOwners
  <2>2. NumberInv(t)'
    BY <2>1, <1>t DEF SameOwners
  <2>3. Own(s) \in DOMAIN fds => obj[s].life = "open" /\ fds[Own(s)].owner = s
    <3>1. Using(s)
      BY <1>4 DEF UseOf, Bind, Connect, SetSendBufSize, SetRecvBufSize, SetBlocking, SendTo,
                Send, RecvFrom, WaitMsg
    <3> QED
      BY <1>t, <3>1 DEF Using, Careful
  <2>4. ASSUME \A n \in DOMAIN fds : fds[n].queue # <<>> => fds'[n].queue # <<>>,
               obj'[t].wait = obj[t].wait
        PROVE  ArrivalInv(t)'
    BY <2>1, <2>4 DEF SameOwners
  <2>5. ASSUME NEW address \in Addresses, Bind(s, address)
        PROVE  ArrivalInv(t)'
    <3>1. obj'[t].wait = obj[t].wait
      BY <1>t, <2>5 DEF Bind, Members
    <3>2. \A n \in DOMAIN fds : fds'[n].queue = fds[n].queue
      BY <1>t, <2>3, <2>5 DEF Bind, Descriptors
    <3> QED
      BY <2>4, <3>1, <3>2
  <2>6. ASSUME NEW address \in Addresses, Connect(s, address)
        PROVE  ArrivalInv(t)'
    <3>1. obj'[t].wait = obj[t].wait /\ UNCHANGED fds
      BY <1>t, <2>6 DEF Connect, Members
    <3> QED
      BY <2>4, <3>1
  <2>7. CASE SetSendBufSize(s) \/ SetRecvBufSize(s)
    <3>1. UNCHANGED obj /\ \A n \in DOMAIN fds : fds'[n].queue = fds[n].queue
      BY <1>t, <2>3, <2>7 DEF SetSendBufSize, SetRecvBufSize, Descriptors
    <3> QED
      BY <2>2, <2>4, <3>1
  <2>8. ASSUME NEW block \in BOOLEAN, SetBlocking(s, block)
        PROVE  ArrivalInv(t)'
    <3>1. obj'[t].wait = obj[t].wait
      BY <1>t, <2>8 DEF SetBlocking, Members
    <3>2. \A n \in DOMAIN fds : fds'[n].queue = fds[n].queue
      <4>1. CASE UNCHANGED fds
        BY <4>1
      <4>2. CASE fds' = [fds EXCEPT ![Own(s)].nonblock = ~block]
        BY <1>t, <2>3, <4>2 DEF Descriptors
      <4> QED
        BY <2>8, <4>1, <4>2 DEF SetBlocking
    <3> QED
      BY <2>4, <3>1, <3>2
  <2>9. ASSUME NEW address, NEW payload \in Payloads, UNCHANGED obj,
               Deliver(s, address, payload)
        PROVE  ArrivalInv(t)'
    BY <2>4, <2>9, DeliverQueues DEF SocketsOK
  <2>10. CASE RecvFrom(s)
    <3>1. CASE t = s
      <4>1. obj'[t].wait = MSG_IDLE
        BY <1>t, <2>10, <3>1 DEF RecvFrom, Members
      <4> QED
        BY <1>m, <2>2, <4>1, Zenon
    <3>2. CASE t # s
      <4>1. obj'[t] = obj[t]
        BY <1>t, <2>10, <3>2 DEF RecvFrom
      <4>2. \A n \in DOMAIN fds \ {Own(s)} : fds'[n] = fds[n]
        BY <2>10 DEF RecvFrom
      <4>3. ASSUME obj[t].life = "open" PROVE Own(t) \in DOMAIN fds \ {Own(s)}
        BY <2>3, <3>2, <4>3
      <4> QED
        BY <2>2, <4>1, <4>2, <4>3
    <3> QED
      BY <3>1, <3>2
  <2>11. CASE WaitMsg(s)
    <3>1. UNCHANGED fds
      BY <2>11 DEF WaitMsg
    <3>2. CASE t # s
      <4>1. obj'[t] = obj[t]
        BY <1>t, <2>11, <3>2 DEF WaitMsg
      <4> QED
        BY <2>2, <2>4, <3>1, <4>1
    <3>3. CASE t = s /\ obj' = [obj EXCEPT ![s].wait = MSG_IDLE]
      <4>1. obj'[t].wait = MSG_IDLE
        BY <1>t, <3>3 DEF Members
      <4> QED
        BY <1>m, <2>2, <4>1, Zenon
    <3>4. CASE t = s /\ fds[Own(s)].queue # <<>>
      BY <2>1, <3>1, <3>4 DEF SameOwners
    <3> QED
      BY <2>11, <3>2, <3>3, <3>4 DEF WaitMsg
  <2> QED
    BY <1>4, <2>2, <2>5, <2>6, <2>7, <2>8, <2>9, <2>10, <2>11 DEF UseOf, SendTo, Send
<1>5. ASSUME NEW s \in Objects, Close(s)
      PROVE  FALSE
  BY <1>5 DEF Close, Careful
<1>6. ASSUME NEW s \in Objects, DestroyUdpSocket(s)
      PROVE  NumberInv(t)' /\ ArrivalInv(t)'
  <2>1. \A u \in Objects : obj[u].life # "dying"
    BY <1>6, <1>r DEF DestroyUdpSocket, Using
  <2>2. /\ \A u \in Objects \ {s} : obj'[u] = obj[u]
        /\ obj'[s].life = "dying" /\ obj'[s].socket_fd = obj[s].socket_fd
    <3>1. obj' = [obj EXCEPT ![s].life = "dying"]
      BY <1>6 DEF DestroyUdpSocket
    <3> QED
      BY <1>t, <3>1 DEF Members
  <2>3. \/ obj[s].life = "open" /\ Own(s) \in DOMAIN fds /\ fds[Own(s)].owner = s
        \/ Own(s) \notin DOMAIN fds
    BY <1>6, <1>t DEF DestroyUdpSocket, Using, Careful
  <2>4. fds' = Closed(Own(s)) \/ UNCHANGED fds
    BY <1>6 DEF DestroyUdpSocket
  <2>5. /\ \A n \in DOMAIN fds' : n \in DOMAIN fds /\ fds'[n] = fds[n]
        /\ \A n \in DOMAIN fds \ {Own(s)} : n \in DOMAIN fds'
    BY <2>4, ClosedTable DEF SocketsOK
  <2>6. CASE t = s
    BY <2>1, <2>2, <2>3, <2>5, <2>6
  <2>7. CASE t # s
    <3>1. ASSUME obj[t].life = "open" PROVE Own(t) \in DOMAIN fds \ {Own(s)}
      BY <2>3, <2>7, <3>1
    <3> QED
      BY <2>1, <2>2, <2>5, <2>7, <3>1
  <2> QED
    BY <2>6, <2>7
<1>7. ASSUME NEW s \in Objects, DestroyCommonSocket(s)
      PROVE  NumberInv(t)' /\ ArrivalInv(t)'
  <2>1. obj[s].life = "dying"
    BY <1>7 DEF DestroyCommonSocket
  <2>2. Own(s) \in DOMAIN fds => fds[Own(s)].owner = s
    BY <2>1
  <2>3. obj'[s].life = "none" /\ \A u \in Objects \ {s} : obj'[u] = obj[u]
    BY <1>7, <1>t DEF DestroyCommonSocket, NoObject
  <2>4. /\ DOMAIN fds' = DOMAIN fds \ {Own(s)}
        /\ \A n \in DOMAIN fds' : fds'[n] = fds[n]
    BY <1>7, ClosedTable DEF DestroyCommonSocket, SocketsOK
  <2>5. CASE t = s
    BY <1>n, <2>1, <2>3, <2>5
  <2>6. CASE t # s
    <3>1. ASSUME obj[t].life = "open" PROVE Own(t) \in DOMAIN fds'
      BY <2>2, <2>4, <2>6, <3>1
    <3> QED
      BY <1>n, <2>1, <2>3, <2>4, <2>6, <3>1
  <2> QED
    BY <2>5, <2>6
<1> QED
  BY <1>1, <1>2, <1>3, <1>4, <1>5, <1>6, <1>7 DEF Next, UseOf

\* What the numbers of a careful caller's objects stand for, in every reachable state.
LEMMA CarefulInvariant == Spec => []CarefulInv
<1>1. Init => CarefulInv
  <2> SUFFICES ASSUME Init, NEW s \in Objects
               PROVE  NumberInv(s) /\ ArrivalInv(s)
    BY DEF CarefulInv
  <2>1. obj[s].life = "none"
    BY DEF Init, NoObject
  <2> QED
    BY <2>1 DEF NumberInv, ArrivalInv
<1>2. SocketsOK /\ CarefulInv /\ [Next]_vars => CarefulInv'
  <2> SUFFICES ASSUME SocketsOK, CarefulInv, [Next]_vars, Careful'
               PROVE  \A t \in Objects : NumberInv(t)' /\ ArrivalInv(t)'
    BY DEF CarefulInv
  <2>1. UNCHANGED caller
    BY SameCaller
  <2>2. Careful
    BY <2>1 DEF Careful
  <2> QED
    BY <2>2, CarefulStep DEF CarefulInv
<1> QED
  BY <1>1, <1>2, SocketTypes, PTL DEF Spec

\* A caller of one thread that creates its sockets and never calls Close keeps them,
\* although ~UdpSocket and ~CommonSocket close the same number one after the other: no
\* open object's number is closed, or given to another object, before its destructor runs.
THEOREM CarefulCallersKeepSockets == Spec => []OwnDescriptor
<1>1. CarefulInv => OwnDescriptor
  BY DEF CarefulInv, NumberInv, OwnDescriptor, OwnsItsNumber, IsOpen
<1> QED
  BY <1>1, CarefulInvariant, PTL

\* After WaitMsg has reported an arrival to such a caller, a datagram waits at the object's
\* socket until RecvFrom takes it: no other object's RecvFrom or destructor takes it.
THEOREM ArrivalsAreReceived == Spec => []ArrivalIsReceived
<1>1. CarefulInv => ArrivalIsReceived
  BY DEF CarefulInv, ArrivalInv, ArrivalIsReceived
<1> QED
  BY <1>1, CarefulInvariant, PTL
============================================================================
