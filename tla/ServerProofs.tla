----------------------------- MODULE ServerProofs -----------------------------
(***************************************************************************)
(* The other safety properties of the logic server, for every value of the *)
(* parameters: the accounts of the connection pool, what is stored and     *)
(* used of the coverage reports, who is told that it is logged in, and the *)
(* limits of retransmission.                                               *)
(***************************************************************************)
EXTENDS ShortMessageProofs

-----------------------------------------------------------------------------
(* The connection pool.                                                    *)

\* The labels at which a worker has a connection, see Holding.
Holds(label) == label \notin {"idle", "GetConnection", "SendReceipt", "SendMessage", "SendReply"}

DaemonHolds == qos.pc \notin {"GetConnection", "Sleep"}

\* The pool is bounded by counting, so the set that is counted must be finite; the
\* number of workers need not be.
PoolInv == IsFiniteSet(conn) /\ ConnectionsAccounted

\* What the operations of the pool do to the count.
LEMMA PoolCount ==
  ASSUME IsFiniteSet(conn), leaked \in Nat, Cardinality(conn) + leaked <= max_size, NEW t
  PROVE  /\ GetConnection(t) \/ Connection_close(t) \/ UNCHANGED pool =>
              IsFiniteSet(conn)' /\ Cardinality(conn') + leaked' <= max_size
         /\ t \in conn /\ Connection_clear(t) =>
              IsFiniteSet(conn)' /\ Cardinality(conn') + leaked' <= max_size
<1>0. max_size \in Nat /\ Cardinality(conn) \in Nat
  BY ServerAssumption, FS_CardinalityType
<1>1. CASE GetConnection(t)
  <2>1. /\ IsFiniteSet(conn \cup {t})
        /\ Cardinality(conn \cup {t}) = IF t \in conn THEN Cardinality(conn) ELSE Cardinality(conn) + 1
    BY FS_AddElement
  <2> QED BY <1>0, <1>1, <2>1 DEF GetConnection
<1>2. /\ IsFiniteSet(conn \ {t})
      /\ Cardinality(conn \ {t}) = IF t \in conn THEN Cardinality(conn) - 1 ELSE Cardinality(conn)
  BY FS_RemoveElement
<1>3. CASE Connection_close(t)
  BY <1>0, <1>2, <1>3 DEF Connection_close
<1>4. CASE t \in conn /\ Connection_clear(t)
  BY <1>0, <1>2, <1>4 DEF Connection_clear
<1>5. CASE UNCHANGED pool
  BY <1>5 DEF pool
<1> QED BY <1>1, <1>3, <1>4, <1>5

\* The account of one worker, when only this worker moves: it takes a connection,
\* returns or leaks it, or goes on with what it has.
LEMMA WorkerAccount ==
  ASSUME TypeOK, PoolInv, NEW w \in Workers, NEW label, Goto(w, label), UNCHANGED qos,
         \/ GetConnection(w) /\ Holds(label)
         \/ Connection_close(w) /\ ~Holds(label)
         \/ Connection_clear(w) /\ Holds(pc[w]) /\ ~Holds(label)
         \/ UNCHANGED pool /\ (Holds(label) <=> Holds(pc[w]))
  PROVE  PoolInv'
<1>1. pc'[w] = label /\ \A v \in Workers : v # w => pc'[v] = pc[v]
  BY JumpFacts DEF TypeOK
<1>2. /\ conn = {v \in Workers : Holds(pc[v])} \cup (IF DaemonHolds THEN {Daemon} ELSE {})
      /\ Cardinality(conn) + leaked <= max_size
      /\ IsFiniteSet(conn) /\ leaked \in Nat /\ w # Daemon
  BY ServerAssumption DEF PoolInv, ConnectionsAccounted, Holding, Holds, DaemonHolds, TypeOK, PoolOK
<1>3. IsFiniteSet(conn)' /\ Cardinality(conn') + leaked' <= max_size
  BY <1>2, PoolCount
<1>4. conn' = {v \in Workers : Holds(pc'[v])} \cup (IF DaemonHolds THEN {Daemon} ELSE {})
  <2>1. CASE GetConnection(w) /\ Holds(label)
    BY <2>1, <1>1, <1>2 DEF GetConnection
  <2>2. CASE (Connection_close(w) \/ Connection_clear(w)) /\ ~Holds(label)
    BY <2>2, <1>1, <1>2 DEF Connection_close, Connection_clear
  <2>3. CASE UNCHANGED pool /\ (Holds(label) <=> Holds(pc[w]))
    BY <2>3, <1>1, <1>2 DEF pool
  <2> QED BY <2>1, <2>2, <2>3
<1> QED BY <1>3, <1>4 DEF PoolInv, ConnectionsAccounted, Holding, Holds, DaemonHolds

\* The same for the daemon.
LEMMA DaemonAccount ==
  ASSUME TypeOK, PoolInv, UNCHANGED threads,
         \/ GetConnection(Daemon) /\ DaemonHolds'
         \/ Connection_close(Daemon) /\ ~DaemonHolds'
         \/ UNCHANGED pool /\ (DaemonHolds' <=> DaemonHolds)
  PROVE  PoolInv'
<1> DEFINE holding == {v \in Workers : Holding(v)}
<1>1. /\ conn = holding \cup (IF DaemonHolds THEN {Daemon} ELSE {})
      /\ Cardinality(conn) + leaked <= max_size
      /\ IsFiniteSet(conn) /\ leaked \in Nat
  BY DEF PoolInv, ConnectionsAccounted, DaemonHolds, TypeOK, PoolOK
<1>2. Daemon \notin holding /\ UNCHANGED holding
  BY ServerAssumption DEF threads, Holding
<1> HIDE DEF holding
<1>3. IsFiniteSet(conn)' /\ Cardinality(conn') + leaked' <= max_size
  BY <1>1, PoolCount
<1>4. conn' = holding \cup (IF DaemonHolds' THEN {Daemon} ELSE {})
  BY <1>1, <1>2 DEF GetConnection, Connection_close, pool
<1> QED BY <1>2, <1>3, <1>4 DEF PoolInv, ConnectionsAccounted, DaemonHolds, holding

\* One step preserves the accounts.
LEMMA PoolStep ==
  ASSUME TypeOK, PoolInv, [Next]_vars
  PROVE  PoolInv'
<1>1. ASSUME NEW w \in Workers, MessageStep(w) PROVE PoolInv'
  <2>1. CASE InsertStoreMessage(w)
    BY <2>1, WorkerAccount DEF InsertStoreMessage, Holds, Return, pool
  <2>2. CASE SimpleCover(w)
    BY <2>2, WorkerAccount DEF SimpleCover, Holds, Return
  <2>3. CASE InsertOfflineMessage(w)
    BY <2>3, WorkerAccount DEF InsertOfflineMessage, Holds
  <2>4. CASE InsertOfflineFails(w)
    BY <2>4, WorkerAccount DEF InsertOfflineFails, Holds, Return
  <2>5. CASE CoverTo(w)
    BY <2>5, WorkerAccount DEF CoverTo, Holds
  <2>6. CASE CoverFrom(w)
    BY <2>6, WorkerAccount DEF CoverFrom, Holds
  <2>7. CASE SendReceipt(w)
    BY <2>7, WorkerAccount DEF SendReceipt, Holds, Return
  <2>8. CASE SendToRecipient(w)
    BY <2>8, WorkerAccount DEF SendToRecipient, Holds, Return
  <2>9. CASE GetOffline(w)
    BY <2>9, WorkerAccount DEF GetOffline, Holds, Return, pool
  <2>10. CASE DeleteOffline(w)
    BY <2>10, WorkerAccount DEF DeleteOffline, Holds
  <2>11. CASE ArchiveMessage(w)
    BY <2>11, WorkerAccount DEF ArchiveMessage, Holds, Return
  <2> QED BY <1>1, <2>1, <2>2, <2>3, <2>4, <2>5, <2>6, <2>7, <2>8, <2>9, <2>10, <2>11 DEF MessageStep
<1>2. ASSUME NEW w \in Workers, MobileStep(w) PROVE PoolInv'
  <2>1. CASE CheckUser(w)
    BY <2>1, WorkerAccount DEF CheckUser, Holds, Answer
  <2>2. CASE LoginUpdate(w)
    BY <2>2, WorkerAccount DEF LoginUpdate, Holds, Answer
  <2>3. CASE LoginCount(w)
    BY <2>3, WorkerAccount DEF LoginCount, Holds, Answer
  <2>4. CASE LogoutCover(w)
    BY <2>4, WorkerAccount DEF LogoutCover, Holds
  <2>5. CASE LogoutUpdate(w)
    BY <2>5, WorkerAccount DEF LogoutUpdate, Holds, Answer
  <2>6. CASE MobileUpdate(w)
    BY <2>6, WorkerAccount DEF MobileUpdate, Holds, Answer
  <2>7. CASE SendReply(w)
    BY <2>7, WorkerAccount DEF SendReply, Holds, Return
  <2> QED BY <1>2, <2>1, <2>2, <2>3, <2>4, <2>5, <2>6, <2>7 DEF MobileStep
<1>3. ASSUME NEW w \in Workers, StartHandler(w) PROVE PoolInv'
  <2>1. FirstStep(loc[w].head) \in {"IsExistUser", "LogoutCover", "MobileUpdate",
          "InsertStoreMessage", "InsertOfflineMessage", "GetOfflineMessage"}
    BY DEF FirstStep
  <2> QED BY <1>3, <2>1, WorkerAccount DEF StartHandler, Holds
<1>4. ASSUME NEW w \in Workers, Request(w) PROVE PoolInv'
  <2>1. ASSUME NEW head, AccessToLogic(w, head) PROVE PoolInv'
    <3>1. CASE UNCHANGED threads
      BY <2>1, <3>1, DaemonAccount DEF AccessToLogic, DaemonHolds
    <3> QED BY <2>1, <3>1, WorkerAccount DEF AccessToLogic, Holds
  <2> QED BY <1>4, <2>1 DEF Request, SubmitMessage, SubmitReceipt, SubmitMobile
<1>5. CASE QosStep
  <2>1. CASE QosGetConnection
    BY <2>1, DaemonAccount DEF QosGetConnection, DaemonHolds, TypeOK, QosOK
  <2>2. CASE QosSelect
    BY <2>2, DaemonAccount DEF QosSelect, DaemonHolds, TypeOK, QosOK
  <2>3. ASSUME NEW row \in qos.rows, QosUpdate(row) PROVE PoolInv'
    BY <2>3, DaemonAccount DEF QosUpdate, DaemonHolds, TypeOK, QosOK
  <2>4. CASE QosCover
    BY <2>4, DaemonAccount DEF QosCover, DaemonHolds, TypeOK, QosOK
  <2>5. CASE QosSend
    BY <2>5, DaemonAccount DEF QosSend, DaemonHolds, TypeOK, QosOK
  <2>6. CASE QosEndRound
    BY <2>6, DaemonAccount DEF QosEndRound, QosIdle, DaemonHolds
  <2>7. CASE QosWake
    BY <2>7, DaemonAccount DEF QosWake, QosIdle, DaemonHolds
  <2> QED BY <1>5, <2>1, <2>2, <2>3, <2>4, <2>5, <2>6, <2>7 DEF QosStep
<1>6. CASE Tick \/ Restart \/ UNCHANGED vars
  BY <1>6, DaemonAccount DEF Tick, Restart, vars, DaemonHolds
<1>7. CASE Crash \/ \E w \in Workers : Abort(w)
  <2>1. conn' = {} /\ leaked' = 0 /\ qos' = QosIdle /\ \A w \in Workers : pc'[w] = "idle"
    BY <1>7 DEF Crash, Abort, Die
  <2>2. IsFiniteSet({}) /\ Cardinality({}) = 0
    BY FS_EmptySet
  <2> QED BY <2>1, <2>2, ServerAssumption DEF PoolInv, ConnectionsAccounted, Holding, QosIdle
<1> QED BY <1>1, <1>2, <1>3, <1>4, <1>5, <1>6, <1>7 DEF Next, WorkerStep

\* Every path of every handler and of the daemon's round, the failing ones included,
\* returns the connection it took exactly once, except the failed insert of
\* ProcessCompleteMessage, whose leaks are counted; the pool is never overdrawn.
THEOREM ConnectionsAreAccounted == Spec => []ConnectionsAccounted
<1>1. Init => PoolInv
  <2>1. IsFiniteSet({}) /\ Cardinality({}) = 0
    BY FS_EmptySet
  <2> QED BY <2>1, ServerAssumption DEF Init, PoolInv, ConnectionsAccounted, Holding, QosIdle
<1>2. TypeOK /\ PoolInv /\ [Next]_vars => PoolInv'
  BY PoolStep
<1>3. PoolInv => ConnectionsAccounted
  BY DEF PoolInv
<1> QED BY <1>1, <1>2, <1>3, TypeCorrect, PTL DEF Spec
-----------------------------------------------------------------------------
(* Coverage, routing and log-ins.                                          *)

\* The beam SendMessage would choose from a list is one that the report c puts first.
ListFits(sates, c) == \A i \in DOMAIN sates : IsBest(sates, i) => FitsReport(sates[i].beam_id, c)

\* A list that is not empty fits one report of the user.
OnReported(sates, u) ==
  DOMAIN sates # {} => u \in Users /\ \E c \in reported[u] : ListFits(sates, c)

\* A worker at a label of logic/mobile_manager.cpp runs that handler, for a report its
\* terminal has sent; an idle worker has fresh locals.
MobileHandler(w) ==
  LET head == loc[w].head IN
  /\ pc[w] = "idle" => loc[w] = NoLocals
  /\ pc[w] \in {"IsExistUser", "LoginUpdate", "GetOfflineMessageNum"} => head.type = Login
  /\ pc[w] \in {"LogoutCover", "LogoutUpdate"} => head.type = Logout
  /\ pc[w] = "MobileUpdate" => head.type = MOBILE_MANAGER_REQUEST
  /\ pc[w] = "SendReply" => head.type \in {Login, Logout, MOBILE_MANAGER_REQUEST}
  /\ pc[w] # "idle" /\ head.type \in {Login, MOBILE_MANAGER_REQUEST} =>
       head.from_id \in Users /\ head.sates \in reported[head.from_id]

\* Whom a worker will tell that it is logged in.
Approved(w) ==
  /\ pc[w] \in {"LoginUpdate", "GetOfflineMessageNum"} => loc[w].head.from_id \in RegisteredUsers
  /\ pc[w] = "LogoutUpdate" => loc[w].reply.receipt_type = LOGOUT_DONE
  /\ pc[w] = "SendReply" /\ loc[w].reply.receipt_type = LOGIN_OK =>
       loc[w].head.from_id \in RegisteredUsers

\* The lists a worker has read from the table are of the user it will send to.
Routed(w) ==
  LET head == loc[w].head IN
  /\ head.type \in {SIMPLE_MESSAGE, COMPLETE_MESSAGE} => OnReported(loc[w].sates, head.to_id)
  /\ head.type = Logout => OnReported(loc[w].sates, head.from_id)
  /\ OnReported(loc[w].sates_from, head.from_id)

WorkerMobility(w) == MobileHandler(w) /\ Approved(w) /\ Routed(w)

\* What is stored is the row of one report of the user, or of a log-out.
CoverReported ==
  \A u \in Users :
    \/ sate_cover[u] = OffLine
    \/ \E c \in reported[u] : CoverAssertion(c) /\ sate_cover[u] = TempSnr(c)

\* Frames go to terminals, never to the server's own identity (which reports no beam).
AddressedToUsers == \A a \in air : a.uid \in Users

DaemonRouted == qos.pc = "Send" => OnReported(qos.sates, Head(qos.messages).to_id)

MobilityInv ==
  /\ \A w \in Workers : WorkerMobility(w)
  /\ CoverReported
  /\ DaemonRouted
  /\ AddressedToUsers
  /\ RoutedToBestBeam
  /\ LoginOkIsRegistered

\* A log-out stores the row of a terminal that hears nothing.
LEMMA TempSnrEmpty == TempSnr(<<>>) = OffLine
BY DEF TempSnr, OffLine

\* The entry of a report that counts for its beam.
LastOf(c, i) == i \in DOMAIN c /\ \A k \in DOMAIN c : k > i => c[k].beam_id # c[i].beam_id

\* The row of a report holds the last entry of each beam ...
LEMMA TempSnrLast ==
  ASSUME NEW c \in Seq(SateParam), NEW i, LastOf(c, i), c[i].beam_id \in Beams
  PROVE  TempSnr(c)[c[i].beam_id] = c[i].snr
<1> DEFINE b == c[i].beam_id
           last == {k \in DOMAIN c :
                      /\ c[k].beam_id = b
                      /\ \A j \in DOMAIN c : j > k => c[j].beam_id # b}
<1>1. DOMAIN c \subseteq Nat
  BY SequenceIsSates DEF IsSates
<1>2. last = {i}
  BY <1>1 DEF LastOf
<1>3. TempSnr(c)[b] = IF last = {} THEN NO_SNR ELSE c[CHOOSE k \in last : TRUE].snr
  BY DEF TempSnr
<1> HIDE DEF last
<1> QED BY <1>2, <1>3

\* ... and -1 for a beam that is not in it.
LEMMA TempSnrListed ==
  ASSUME NEW c \in Seq(SateParam), NEW b \in Beams, TempSnr(c)[b] # NO_SNR
  PROVE  \E i : LastOf(c, i) /\ c[i].beam_id = b
<1> DEFINE last == {k \in DOMAIN c :
                      /\ c[k].beam_id = b
                      /\ \A j \in DOMAIN c : j > k => c[j].beam_id # b}
<1>1. TempSnr(c)[b] = IF last = {} THEN NO_SNR ELSE c[CHOOSE k \in last : TRUE].snr
  BY DEF TempSnr
<1>2. last # {}
  BY <1>1
<1> QED BY <1>2 DEF LastOf

\* GetSateCover drops less than one unit of the SNR.
LEMMA TruncateBounds ==
  ASSUME NEW snr \in Int
  PROVE  Truncate(snr) \in Int /\ Truncate(snr) <= snr /\ snr < Truncate(snr) + 10
<1> QED BY DEF Truncate

\* A report fits itself.
LEMMA ReportFits ==
  ASSUME NEW c \in Seq(SateParam)
  PROVE  ListFits(c, c)
<1> SUFFICES ASSUME NEW i \in DOMAIN c, IsBest(c, i) PROVE FitsReport(c[i].beam_id, c)
  BY DEF ListFits
<1>1. \A j \in DOMAIN c : c[j].snr \in Int
  BY SequenceIsSates DEF IsSates, SateParam
<1>2. ASSUME NEW j \in DOMAIN c, c[j].beam_id \in ScheduleAddress
      PROVE  c[j].snr < c[i].snr + 10
  <2>1. c[i].snr > -10
    BY DEF IsBest, Eligible
  <2>2. c[j].snr > -10 => c[j].snr <= c[i].snr
    BY <1>2 DEF IsBest, Eligible
  <2>3. c[i].snr \in Int /\ c[j].snr \in Int
    BY <1>1
  <2> QED BY <2>1, <2>2, <2>3
<1> QED BY <1>2 DEF FitsReport

\* What GetSateCover makes of the row of a report fits the report.
LEMMA StoredFits ==
  ASSUME NEW cover, NEW u, NEW c \in Seq(SateParam), CoverAssertion(c), cover[u] = TempSnr(c)
  PROVE  ListFits(GetSateCover(cover, u), c)
<1> DEFINE sates == GetSateCover(cover, u)
<1> SUFFICES ASSUME NEW b \in DOMAIN sates, IsBest(sates, b) PROVE FitsReport(sates[b].beam_id, c)
  BY DEF ListFits
<1>1. \A x \in DOMAIN sates :
        x \in Beams /\ cover[u][x] > 0 /\ sates[x].beam_id = x
        /\ sates[x].snr = Truncate(TempSnr(c)[x])
  BY DEF GetSateCover
<1>2. \A x \in Beams : u \in CoverRows /\ TempSnr(c)[x] > 0 => x \in DOMAIN sates
  BY DEF GetSateCover
<1>3. u \in CoverRows
  BY DEF GetSateCover
<1> HIDE DEF sates
<1>4. \A j \in DOMAIN c : c[j].snr \in Int /\ c[j].beam_id \in Beams
  BY SequenceIsSates DEF IsSates, SateParam, CoverAssertion
<1>5. PICK i : LastOf(c, i) /\ c[i].beam_id = b
  BY <1>1, TempSnrListed DEF NO_SNR
<1>6. i \in DOMAIN c /\ TempSnr(c)[b] = c[i].snr /\ c[i].snr > 0 /\ c[i].snr \in Int
  BY <1>1, <1>4, <1>5, TempSnrLast DEF LastOf
<1>7. ASSUME NEW j \in DOMAIN c, c[j].beam_id \in ScheduleAddress, LastOf(c, j)
      PROVE  c[j].snr < c[i].snr + 10
  <2> DEFINE x == c[j].beam_id
  <2>1. x \in Beams /\ TempSnr(c)[x] = c[j].snr /\ c[j].snr \in Int
    BY <1>4, <1>7, TempSnrLast
  <2>2. CASE c[j].snr > 0
    <3>1. x \in DOMAIN sates
      BY <1>2, <1>3, <2>1, <2>2
    <3>2. sates[x].snr = Truncate(c[j].snr) /\ sates[x].beam_id = x
      BY <1>1, <2>1, <3>1
    <3>3. Truncate(c[j].snr) \in Int /\ c[j].snr < Truncate(c[j].snr) + 10
      BY <2>1, TruncateBounds
    <3>4. x \in Eligible(sates)
      BY <1>7, <2>2, <2>1, <3>1, <3>2, <3>3 DEF Eligible
    <3>5. Truncate(c[j].snr) <= Truncate(c[i].snr)
      <4>1. sates[x].snr <= sates[b].snr
        BY <3>4 DEF IsBest
      <4>2. sates[b].snr = Truncate(c[i].snr)
        BY <1>1, <1>6
      <4> QED BY <4>1, <4>2, <3>2
    <3>6. Truncate(c[i].snr) \in Int /\ Truncate(c[i].snr) <= c[i].snr
      BY <1>6, TruncateBounds
    <3> QED BY <1>6, <2>1, <3>3, <3>5, <3>6
  <2>3. CASE ~(c[j].snr > 0)
    BY <2>1, <2>3, <1>6
  <2> QED BY <2>2, <2>3
<1>8. sates[b].beam_id = c[i].beam_id
  BY <1>1, <1>5
<1> QED BY <1>6, <1>7, <1>8 DEF FitsReport, LastOf

\* What the table gives for a user fits one report of the user.
LEMMA CoverOnReported ==
  ASSUME TypeOK, CoverReported, NEW u
  PROVE  OnReported(GetSateCover(sate_cover, u), u)
<1> SUFFICES ASSUME DOMAIN GetSateCover(sate_cover, u) # {}
             PROVE  u \in Users /\ \E c \in reported[u] : ListFits(GetSateCover(sate_cover, u), c)
  BY DEF OnReported
<1>1. PICK b \in Beams : u \in CoverRows /\ sate_cover[u][b] > 0
  BY DEF GetSateCover
<1>2. u \in Users
  BY <1>1, DatabaseAssumption
<1>3. sate_cover[u] # OffLine
  BY <1>1 DEF OffLine, NO_SNR
<1>4. PICK c \in reported[u] : CoverAssertion(c) /\ sate_cover[u] = TempSnr(c)
  BY <1>2, <1>3 DEF CoverReported
<1>5. c \in Seq(SateParam)
  BY <1>2, <1>4 DEF TypeOK, HistoryOK
<1> QED BY <1>2, <1>4, <1>5, StoredFits

\* The frames of one SendMessage go out on a configured beam, the best of its list.
LEMMA FramesRouted ==
  ASSUME NEW u, NEW content, NEW sates, NEW level, OnReported(sates, u),
         NEW a \in Frames(u, content, sates, level)
  PROVE  /\ a.beam_id \in ScheduleAddress
         /\ u \in Users /\ \E c \in reported[u] : FitsReport(a.beam_id, c)
<1>1. PICK i \in DOMAIN sates : IsBest(sates, i) /\ a.beam_id = sates[i].beam_id
  BY DEF Frames
<1>2. a.beam_id \in ScheduleAddress
  BY <1>1 DEF IsBest, Eligible
<1>3. u \in Users /\ \E c \in reported[u] : ListFits(sates, c)
  BY <1>1 DEF OnReported
<1> QED BY <1>1, <1>2, <1>3 DEF ListFits

\* Terminals report, nobody takes a report back.
LEMMA ReportsGrow ==
  ASSUME TypeOK, Next
  PROVE  \A u \in Users : reported[u] \subseteq reported'[u]
<1>1. ASSUME NEW w \in Workers, Request(w) PROVE \A u \in Users : reported[u] \subseteq reported'[u]
  <2>1. ASSUME NEW u \in Users, NEW type, NEW sates, SubmitMobile(w, u, type, sates)
        PROVE  \A v \in Users : reported[v] \subseteq reported'[v]
    BY <2>1 DEF SubmitMobile, TypeOK, HistoryOK
  <2>2. ASSUME NEW m, SubmitMessage(w, m) PROVE UNCHANGED reported
    BY <2>2 DEF SubmitMessage
  <2>3. ASSUME NEW a, NEW receipt_type, SubmitReceipt(w, a, receipt_type) PROVE UNCHANGED reported
    BY <2>3 DEF SubmitReceipt
  <2> QED BY <1>1, <2>1, <2>2, <2>3 DEF Request
<1>2. ASSUME NEW w \in Workers, WorkerStep(w) \/ Abort(w) PROVE UNCHANGED reported
  BY <1>2 DEF WorkerStep, StartHandler, MessageStep, InsertStoreMessage, SimpleCover,
     InsertOfflineMessage, InsertOfflineFails, CoverTo, CoverFrom, SendReceipt, SendToRecipient,
     GetOffline, DeleteOffline, ArchiveMessage, MobileStep, CheckUser, LoginUpdate, LoginCount,
     LogoutCover, LogoutUpdate, MobileUpdate, SendReply, Abort, Die, history
<1>3. QosStep \/ Tick \/ Crash \/ Restart => UNCHANGED reported
  BY DEF QosStep, QosGetConnection, QosSelect, QosUpdate, QosCover, QosSend, QosEndRound, QosWake,
         Tick, Crash, Restart, Die, history
<1> QED BY <1>1, <1>2, <1>3 DEF Next

Grown == \A u \in Users : reported[u] \subseteq reported'[u]

\* A worker that does not move keeps its lists.
LEMMA MobilityBystander ==
  ASSUME Grown, NEW v \in Workers, WorkerMobility(v), pc'[v] = pc[v], loc'[v] = loc[v]
  PROVE  WorkerMobility(v)'
BY DEF Grown, WorkerMobility, MobileHandler, Approved, Routed, OnReported

\* An idle worker has nothing to send.
LEMMA IdleMobility ==
  ASSUME NEW w \in Workers, pc'[w] = "idle", loc'[w] = NoLocals
  PROVE  WorkerMobility(w)'
BY DEF WorkerMobility, MobileHandler, Approved, Routed, OnReported, NoLocals, NoHead, Login, Logout,
       SIMPLE_MESSAGE, COMPLETE_MESSAGE

\* A worker within the message handlers that keeps its request and has a list of the
\* right user.
LEMMA MessageMobility ==
  ASSUME Grown, NEW w \in Workers, WorkerMobility(w), pc[w] # "idle",
         loc'[w].head = loc[w].head,
         pc'[w] \in {"SimpleCover", "InsertOfflineMessage", "CoverTo", "CoverFrom", "SendReceipt",
                     "SendMessage", "DeleteOfflineMessage", "ArchiveMessage"},
         \/ loc'[w].sates = loc[w].sates
         \/ loc[w].head.type # Logout /\ OnReported(loc'[w].sates, loc[w].head.to_id),
         loc'[w].sates_from = loc[w].sates_from \/ OnReported(loc'[w].sates_from, loc[w].head.from_id)
  PROVE  WorkerMobility(w)'
BY DEF Grown, WorkerMobility, MobileHandler, Approved, Routed, OnReported

\* An assignment to one of the lists.
LEMMA ListAssign ==
  ASSUME ThreadsOK, NEW w \in Workers, NEW x
  PROVE  /\ loc' = [loc EXCEPT ![w].sates = x] =>
              loc'[w].sates = x /\ loc'[w].sates_from = loc[w].sates_from
         /\ loc' = [loc EXCEPT ![w].sates_from = x] =>
              loc'[w].sates_from = x /\ loc'[w].sates = loc[w].sates
         /\ loc' = [loc EXCEPT ![w].item = x] \/ loc' = [loc EXCEPT ![w].reply = x] =>
              loc'[w].sates_from = loc[w].sates_from /\ loc'[w].sates = loc[w].sates
<1>1. /\ loc = [v \in Workers |-> loc[v]]
      /\ loc[w] = [head |-> loc[w].head, sates |-> loc[w].sates, sates_from |-> loc[w].sates_from,
                   item |-> loc[w].item, reply |-> loc[w].reply]
  BY DEF ThreadsOK, LocalsOK
<1> QED BY <1>1

\* The steps of the message handlers.
LEMMA MessageMoves ==
  ASSUME TypeOK, CustodyInv, MobilityInv, Grown, NEW w \in Workers, MessageStep(w)
  PROVE  \A v \in Workers : WorkerMobility(v)'
<1>o. ThreadsOK /\ RightHandler(w) /\ WorkerMobility(w)
  BY DEF TypeOK, CustodyInv, MobilityInv
<1>c. \A u : OnReported(GetSateCover(sate_cover, u), u)
  BY CoverOnReported DEF MobilityInv
<1>b. ASSUME \A v \in Workers : v # w => pc'[v] = pc[v] /\ loc'[v] = loc[v], WorkerMobility(w)'
      PROVE  \A v \in Workers : WorkerMobility(v)'
  BY <1>b, MobilityBystander DEF MobilityInv
<1>r. ASSUME Return(w) PROVE \A v \in Workers : WorkerMobility(v)'
  BY <1>r, <1>o, <1>b, ReturnFacts, IdleMobility
\* A jump within the handler; the lists are those of before or fresh ones.
<1>k. ASSUME NEW label \in {"SimpleCover", "InsertOfflineMessage", "CoverTo", "CoverFrom",
                            "SendReceipt", "SendMessage", "DeleteOfflineMessage", "ArchiveMessage"},
             Goto(w, label), pc[w] # "idle", NEW x,
             \/ UNCHANGED loc
             \/ loc' = [loc EXCEPT ![w].item = x]
             \/ /\ loc' = [loc EXCEPT ![w].sates = x]
                /\ loc[w].head.type # Logout /\ OnReported(x, loc[w].head.to_id)
             \/ /\ loc' = [loc EXCEPT ![w].sates_from = x]
                /\ OnReported(x, loc[w].head.from_id)
      PROVE  \A v \in Workers : WorkerMobility(v)'
  <2>1. pc'[w] = label /\ \A v \in Workers : v # w => pc'[v] = pc[v]
    BY <1>k, <1>o, JumpFacts
  <2>2. loc'[w].head = loc[w].head /\ \A v \in Workers : v # w => loc'[v] = loc[v]
    BY <1>k, <1>o, AssignFacts
  <2>3. /\ \/ loc'[w].sates = loc[w].sates
           \/ loc[w].head.type # Logout /\ OnReported(loc'[w].sates, loc[w].head.to_id)
        /\ loc'[w].sates_from = loc[w].sates_from \/ OnReported(loc'[w].sates_from, loc[w].head.from_id)
    <3>1. CASE UNCHANGED loc
      BY <3>1
    <3>2. CASE loc' = [loc EXCEPT ![w].item = x]
      BY <3>2, <1>o, ListAssign
    <3>3. CASE /\ loc' = [loc EXCEPT ![w].sates = x]
               /\ loc[w].head.type # Logout /\ OnReported(x, loc[w].head.to_id)
      <4>1. loc'[w].sates = x /\ loc'[w].sates_from = loc[w].sates_from
        BY <3>3, <1>o, ListAssign
      <4> QED BY <3>3, <4>1
    <3>4. CASE /\ loc' = [loc EXCEPT ![w].sates_from = x]
               /\ OnReported(x, loc[w].head.from_id)
      <4>1. loc'[w].sates_from = x /\ loc'[w].sates = loc[w].sates
        BY <3>4, <1>o, ListAssign
      <4> QED BY <3>4, <4>1
    <3> QED BY <1>k, <3>1, <3>2, <3>3, <3>4
  <2> QED BY <1>k, <1>o, <1>b, <2>1, <2>2, <2>3, MessageMobility
<1>t. /\ pc[w] \in {"SimpleCover", "CoverTo"} => loc[w].head.type # Logout
  BY <1>o DEF RightHandler, SIMPLE_MESSAGE, COMPLETE_MESSAGE, Logout
<1>1. CASE InsertStoreMessage(w)
  BY <1>1, <1>k, <1>r DEF InsertStoreMessage
<1>2. CASE SimpleCover(w)
  <2> DEFINE sates == GetSateCover(sate_cover, loc[w].head.to_id)
  <2>1. OnReported(sates, loc[w].head.to_id) /\ loc[w].head.type # Logout /\ pc[w] # "idle"
    BY <1>2, <1>c, <1>t DEF SimpleCover
  <2>2. Return(w) \/ (loc' = [loc EXCEPT ![w].sates = sates] /\ Goto(w, "SendMessage"))
    BY <1>2 DEF SimpleCover
  <2> HIDE DEF sates
  <2> QED BY <2>1, <2>2, <1>k, <1>r
<1>3. CASE InsertOfflineMessage(w)
  BY <1>3, <1>k DEF InsertOfflineMessage
<1>4. CASE InsertOfflineFails(w)
  BY <1>4, <1>r DEF InsertOfflineFails
<1>5. CASE CoverTo(w)
  <2> DEFINE sates == GetSateCover(sate_cover, loc[w].head.to_id)
  <2>1. OnReported(sates, loc[w].head.to_id) /\ loc[w].head.type # Logout /\ pc[w] # "idle"
    BY <1>5, <1>c, <1>t DEF CoverTo
  <2>2. Goto(w, "CoverFrom") /\ (UNCHANGED loc \/ loc' = [loc EXCEPT ![w].sates = sates])
    BY <1>5 DEF CoverTo
  <2> HIDE DEF sates
  <2> QED BY <2>1, <2>2, <1>k
<1>6. CASE CoverFrom(w)
  <2> DEFINE sates == GetSateCover(sate_cover, loc[w].head.from_id)
  <2>1. OnReported(sates, loc[w].head.from_id) /\ pc[w] # "idle"
    BY <1>6, <1>c DEF CoverFrom
  <2>2. Goto(w, "SendReceipt") /\ (UNCHANGED loc \/ loc' = [loc EXCEPT ![w].sates_from = sates])
    BY <1>6 DEF CoverFrom
  <2> HIDE DEF sates
  <2> QED BY <2>1, <2>2, <1>k
<1>7. CASE SendReceipt(w)
  BY <1>7, <1>k, <1>r DEF SendReceipt
<1>8. CASE SendToRecipient(w)
  BY <1>8, <1>r DEF SendToRecipient
<1>9. CASE GetOffline(w)
  BY <1>9, <1>k, <1>r DEF GetOffline
<1>10. CASE DeleteOffline(w)
  BY <1>10, <1>k DEF DeleteOffline
<1>11. CASE ArchiveMessage(w)
  BY <1>11, <1>r DEF ArchiveMessage
<1> QED BY <1>1, <1>2, <1>3, <1>4, <1>5, <1>6, <1>7, <1>8, <1>9, <1>10, <1>11 DEF MessageStep

\* An answer in the making: the request, the lists and the other workers stay.
LEMMA ReplyFacts ==
  ASSUME ThreadsOK, NEW w \in Workers, NEW receipt_type, NEW receipt_indicate,
         Reply(w, receipt_type, receipt_indicate)
  PROVE  /\ loc'[w].head = loc[w].head /\ loc'[w].reply.receipt_type = receipt_type
         /\ loc'[w].sates = loc[w].sates /\ loc'[w].sates_from = loc[w].sates_from
         /\ \A v \in Workers : v # w => loc'[v] = loc[v]
<1>1. /\ loc = [v \in Workers |-> loc[v]]
      /\ loc[w] = [head |-> loc[w].head, sates |-> loc[w].sates, sates_from |-> loc[w].sates_from,
                   item |-> loc[w].item, reply |-> loc[w].reply]
  BY DEF ThreadsOK, LocalsOK
<1> QED BY <1>1 DEF Reply

\* A worker within the mobility handlers: what it has to know at its next label.
LEMMA MobileMobility ==
  ASSUME Grown, NEW w \in Workers, WorkerMobility(w), pc[w] # "idle",
         loc'[w].head = loc[w].head, loc'[w].sates_from = loc[w].sates_from,
         \/ loc'[w].sates = loc[w].sates
         \/ loc[w].head.type = Logout /\ OnReported(loc'[w].sates, loc[w].head.from_id),
         \/ /\ pc'[w] \in {"LoginUpdate", "GetOfflineMessageNum"} /\ loc[w].head.type = Login
            /\ loc[w].head.from_id \in RegisteredUsers
         \/ /\ pc'[w] = "LogoutUpdate" /\ loc[w].head.type = Logout
            /\ loc'[w].reply.receipt_type = LOGOUT_DONE
         \/ /\ pc'[w] = "SendReply" /\ loc[w].head.type \in {Login, Logout, MOBILE_MANAGER_REQUEST}
            /\ \/ loc'[w].reply.receipt_type # LOGIN_OK
               \/ loc[w].head.from_id \in RegisteredUsers
  PROVE  WorkerMobility(w)'
<1>t. Login = 0 /\ Logout = 2 /\ MOBILE_MANAGER_REQUEST = 3 /\ SIMPLE_MESSAGE = 64
      /\ COMPLETE_MESSAGE = 96
  BY DEF Login, Logout, MOBILE_MANAGER_REQUEST, SIMPLE_MESSAGE, COMPLETE_MESSAGE
<1>1. MobileHandler(w)'
  BY DEF Grown, WorkerMobility, MobileHandler
<1>2. Approved(w)'
  BY DEF Approved
<1>3. Routed(w)'
  BY <1>t DEF Grown, WorkerMobility, Routed, OnReported
<1> QED BY <1>1, <1>2, <1>3 DEF WorkerMobility

\* The two assignments of a log-out at once.
LEMMA LogoutAssign ==
  ASSUME ThreadsOK, NEW w \in Workers, NEW x, NEW r,
         loc' = [loc EXCEPT ![w].sates = x, ![w].reply = r]
  PROVE  /\ loc'[w].head = loc[w].head /\ loc'[w].sates_from = loc[w].sates_from
         /\ loc'[w].sates = x /\ loc'[w].reply = r
         /\ \A v \in Workers : v # w => loc'[v] = loc[v]
<1>1. loc' = [loc EXCEPT ![w] = [[loc[w] EXCEPT !.sates = x] EXCEPT !.reply = r]]
  BY DEF ThreadsOK
<1>2. loc = [v \in Workers |-> loc[v]] /\ LocalsOK(loc[w])
  BY DEF ThreadsOK
<1>3. /\ loc'[w] = [[loc[w] EXCEPT !.sates = x] EXCEPT !.reply = r]
      /\ \A v \in Workers : v # w => loc'[v] = loc[v]
  BY <1>1, <1>2
<1>4. \A l : LocalsOK(l) =>
        /\ [[l EXCEPT !.sates = x] EXCEPT !.reply = r].head = l.head
        /\ [[l EXCEPT !.sates = x] EXCEPT !.reply = r].sates_from = l.sates_from
        /\ [[l EXCEPT !.sates = x] EXCEPT !.reply = r].sates = x
        /\ [[l EXCEPT !.sates = x] EXCEPT !.reply = r].reply = r
  BY DEF LocalsOK
<1> QED BY <1>2, <1>3, <1>4

\* The steps of the mobility handlers.
LEMMA MobileMoves ==
  ASSUME TypeOK, MobilityInv, Grown, NEW w \in Workers, MobileStep(w)
  PROVE  \A v \in Workers : WorkerMobility(v)'
<1>o. ThreadsOK /\ WorkerMobility(w) /\ MobileHandler(w) /\ Approved(w)
  BY DEF TypeOK, MobilityInv, WorkerMobility
<1>c. \A u : OnReported(GetSateCover(sate_cover, u), u)
  BY CoverOnReported DEF MobilityInv
<1>b. ASSUME \A v \in Workers : v # w => pc'[v] = pc[v] /\ loc'[v] = loc[v], WorkerMobility(w)'
      PROVE  \A v \in Workers : WorkerMobility(v)'
  BY <1>b, MobilityBystander DEF MobilityInv
<1>l. LOGIN_OK = 0 /\ LOGIN_FAILED = 1 /\ LOGOUT_DONE = 2 /\ MOBILE_DONE = 3
  BY DEF LOGIN_OK, LOGIN_FAILED, LOGOUT_DONE, MOBILE_DONE
\* The answer is ready.
<1>a. ASSUME NEW receipt_type, NEW receipt_indicate, Reply(w, receipt_type, receipt_indicate),
             Goto(w, "SendReply"), pc[w] # "idle",
             loc[w].head.type \in {Login, MOBILE_MANAGER_REQUEST},
             receipt_type # LOGIN_OK \/ loc[w].head.from_id \in RegisteredUsers
      PROVE  \A v \in Workers : WorkerMobility(v)'
  <2>1. pc'[w] = "SendReply" /\ \A v \in Workers : v # w => pc'[v] = pc[v]
    BY <1>a, <1>o, JumpFacts
  <2>2. /\ loc'[w].head = loc[w].head /\ loc'[w].reply.receipt_type = receipt_type
        /\ loc'[w].sates = loc[w].sates /\ loc'[w].sates_from = loc[w].sates_from
        /\ \A v \in Workers : v # w => loc'[v] = loc[v]
    BY <1>a, <1>o, ReplyFacts
  <2>3. WorkerMobility(w)'
    BY <1>a, <1>o, <2>1, <2>2, MobileMobility
  <2> QED BY <2>1, <2>2, <2>3, <1>b
\* The next statement.
<1>s. ASSUME NEW label, Goto(w, label), UNCHANGED loc, pc[w] # "idle",
             \/ /\ label \in {"LoginUpdate", "GetOfflineMessageNum"} /\ loc[w].head.type = Login
                /\ loc[w].head.from_id \in RegisteredUsers
             \/ /\ label = "SendReply" /\ loc[w].head.type = Logout
                /\ loc[w].reply.receipt_type # LOGIN_OK
      PROVE  \A v \in Workers : WorkerMobility(v)'
  <2>1. pc'[w] = label /\ \A v \in Workers : v # w => pc'[v] = pc[v]
    BY <1>s, <1>o, JumpFacts
  <2>2. WorkerMobility(w)'
    BY <1>s, <1>o, <2>1, MobileMobility
  <2> QED BY <1>s, <2>1, <2>2, <1>b
<1>1. CASE CheckUser(w)
  BY <1>1, <1>o, <1>a, <1>s, <1>l DEF CheckUser, Answer, IsExistUser, MobileHandler
<1>2. CASE LoginUpdate(w)
  BY <1>2, <1>o, <1>a, <1>s, <1>l DEF LoginUpdate, Answer, MobileHandler, Approved
<1>3. CASE LoginCount(w)
  <2>1. \E receipt_indicate : Reply(w, LOGIN_OK, receipt_indicate)
    BY <1>3 DEF LoginCount
  <2>2. /\ pc[w] = "GetOfflineMessageNum" /\ Goto(w, "SendReply")
        /\ loc[w].head.type = Login /\ loc[w].head.from_id \in RegisteredUsers
    BY <1>3, <1>o DEF LoginCount, Answer, MobileHandler, Approved
  <2> QED BY <2>1, <2>2, <1>a
<1>4. CASE LogoutCover(w)
  <2> DEFINE sates == GetSateCover(sate_cover, loc[w].head.from_id)
             r == [receipt_type |-> LOGOUT_DONE, receipt_indicate |-> 0]
  <2>1. /\ pc[w] # "idle" /\ loc[w].head.type = Logout /\ OnReported(sates, loc[w].head.from_id)
        /\ Goto(w, "LogoutUpdate")
    BY <1>4, <1>o, <1>c DEF LogoutCover, MobileHandler
  <2>2. pc'[w] = "LogoutUpdate" /\ \A v \in Workers : v # w => pc'[v] = pc[v]
    BY <2>1, <1>o, JumpFacts
  <2>3. /\ loc'[w].head = loc[w].head /\ loc'[w].reply.receipt_type = LOGOUT_DONE
        /\ loc'[w].sates = loc[w].sates \/ loc'[w].sates = sates
        /\ loc'[w].sates_from = loc[w].sates_from
        /\ \A v \in Workers : v # w => loc'[v] = loc[v]
    <3>1. CASE loc' = [loc EXCEPT ![w].sates = sates, ![w].reply = r]
      <4>1. r.receipt_type = LOGOUT_DONE
        OBVIOUS
      <4> HIDE DEF sates, r
      <4>2. /\ loc'[w].head = loc[w].head /\ loc'[w].sates_from = loc[w].sates_from
            /\ loc'[w].sates = sates /\ loc'[w].reply = r
            /\ \A v \in Workers : v # w => loc'[v] = loc[v]
        BY <3>1, <1>o, LogoutAssign, Zenon
      <4> QED BY <4>1, <4>2
    <3>2. CASE Reply(w, LOGOUT_DONE, 0)
      BY <3>2, <1>o, ReplyFacts
    <3> QED BY <1>4, <3>1, <3>2 DEF LogoutCover
  <2> HIDE DEF sates
  <2>4. WorkerMobility(w)'
    BY <1>o, <2>1, <2>2, <2>3, MobileMobility
  <2> QED BY <2>2, <2>3, <2>4, <1>b
<1>5. CASE LogoutUpdate(w)
  BY <1>5, <1>o, <1>s, <1>l DEF LogoutUpdate, Answer, MobileHandler, Approved
<1>6. CASE MobileUpdate(w)
  BY <1>6, <1>o, <1>a, <1>l DEF MobileUpdate, Answer, MobileHandler
<1>7. CASE SendReply(w)
  BY <1>7, <1>o, <1>b, ReturnFacts, IdleMobility DEF SendReply
<1> QED BY <1>1, <1>2, <1>3, <1>4, <1>5, <1>6, <1>7 DEF MobileStep

\* The start of a handler and the requests.
LEMMA RequestMoves ==
  ASSUME TypeOK, CustodyInv, MobilityInv, Grown, NEW w \in Workers, StartHandler(w) \/ Request(w)
  PROVE  \A v \in Workers : WorkerMobility(v)'
<1>o. ThreadsOK /\ RightHandler(w) /\ WorkerMobility(w)
  BY DEF TypeOK, CustodyInv, MobilityInv
<1>b. ASSUME \A v \in Workers : v # w => pc'[v] = pc[v] /\ loc'[v] = loc[v], WorkerMobility(w)'
      PROVE  \A v \in Workers : WorkerMobility(v)'
  BY <1>b, MobilityBystander DEF MobilityInv
<1>t. Login = 0 /\ Logout = 2 /\ MOBILE_MANAGER_REQUEST = 3 /\ SIMPLE_MESSAGE = 64
      /\ COMPLETE_MESSAGE = 96 /\ RECEIPTE = 128
  BY DEF Login, Logout, MOBILE_MANAGER_REQUEST, SIMPLE_MESSAGE, COMPLETE_MESSAGE, RECEIPTE
<1>1. CASE StartHandler(w)
  <2> DEFINE head == loc[w].head
             label == FirstStep(head)
  <2>1. ~Ignored(head) /\ pc[w] # "idle"
    BY <1>1, <1>o DEF StartHandler, RightHandler
  <2>2. pc'[w] = label /\ UNCHANGED loc /\ \A v \in Workers : v # w => pc'[v] = pc[v]
    BY <1>1, <1>o, JumpFacts DEF StartHandler
  <2>3. \/ head.type = Login /\ label = "IsExistUser"
        \/ head.type = Logout /\ label = "LogoutCover"
        \/ head.type = MOBILE_MANAGER_REQUEST /\ label = "MobileUpdate"
        \/ label \in {"InsertStoreMessage", "InsertOfflineMessage", "GetOfflineMessage"}
    BY <2>1, <1>t DEF FirstStep, Ignored
  <2> HIDE DEF label
  <2>4. MobileHandler(w)' /\ Approved(w)'
    BY <2>1, <2>2, <2>3, <1>o DEF Grown, WorkerMobility, MobileHandler, Approved
  <2>5. Routed(w)'
    BY <2>2, <1>o DEF Grown, WorkerMobility, Routed, OnReported
  <2> QED BY <2>2, <2>4, <2>5, <1>b DEF WorkerMobility
<1>2. ASSUME NEW head, AccessToLogic(w, head),
             ~Ignored(head) /\ head.type \in {Login, MOBILE_MANAGER_REQUEST} =>
               head.from_id \in Users /\ head.sates \in reported'[head.from_id]
      PROVE  \A v \in Workers : WorkerMobility(v)'
  <2>1. CASE UNCHANGED threads
    BY <2>1, <1>o, <1>b, MobilityBystander DEF threads
  <2>2. CASE ~Ignored(head) /\ Goto(w, "GetConnection") /\ loc' = [loc EXCEPT ![w].head = head]
    <3>1. loc[w] = NoLocals
      BY <1>2, <1>o DEF AccessToLogic, WorkerMobility, MobileHandler
    <3>2. /\ loc'[w].head = head
          /\ loc'[w].sates = loc[w].sates /\ loc'[w].sates_from = loc[w].sates_from
          /\ \A v \in Workers : v # w => loc'[v] = loc[v]
      BY <2>2, <1>o DEF ThreadsOK, LocalsOK
    <3>3. loc'[w].sates = <<>> /\ loc'[w].sates_from = <<>>
      BY <3>1, <3>2 DEF NoLocals
    <3>4. pc'[w] = "GetConnection" /\ \A v \in Workers : v # w => pc'[v] = pc[v]
      BY <2>2, <1>o, JumpFacts
    <3>5. MobileHandler(w)' /\ Approved(w)'
      BY <1>2, <2>2, <3>2, <3>4 DEF MobileHandler, Approved
    <3>6. Routed(w)'
      BY <1>2, <2>2, <3>2, <3>3 DEF Routed, OnReported
    <3> QED BY <3>2, <3>4, <3>5, <3>6, <1>b DEF WorkerMobility
  <2> QED BY <1>2, <2>1, <2>2 DEF AccessToLogic
<1>3. ASSUME NEW m \in Messages, SubmitMessage(w, m)
      PROVE  \A v \in Workers : WorkerMobility(v)'
  <2>1. ~Ignored(MessageHead(m)) => MessageHead(m).type \notin {Login, MOBILE_MANAGER_REQUEST}
    BY DEF MessageHead, Ignored
  <2> QED BY <1>3, <2>1, <1>2 DEF SubmitMessage
<1>4. ASSUME NEW a \in air, NEW receipt_type, SubmitReceipt(w, a, receipt_type)
      PROVE  \A v \in Workers : WorkerMobility(v)'
  <2>1. ReceiptHead(a.content, receipt_type).type \notin {Login, MOBILE_MANAGER_REQUEST}
    BY <1>t DEF ReceiptHead
  <2> QED BY <1>4, <2>1, <1>2 DEF SubmitReceipt
<1>5. ASSUME NEW u \in Users, NEW type, NEW sates, SubmitMobile(w, u, type, sates)
      PROVE  \A v \in Workers : WorkerMobility(v)'
  <2> DEFINE head == MobileHead(u, type, sates)
  <2>1. head.type = type /\ head.from_id = u /\ head.sates = sates
    BY DEF MobileHead
  <2>2. sates \in reported'[u]
    BY <1>5 DEF SubmitMobile, TypeOK, HistoryOK
  <2>3. AccessToLogic(w, head)
    BY <1>5 DEF SubmitMobile
  <2> HIDE DEF head
  <2> QED BY <1>2, <1>5, <1>t, <2>1, <2>2, <2>3
<1> QED BY <1>1, <1>3, <1>4, <1>5 DEF Request

\* Every worker keeps its part of the invariant.
LEMMA WorkersMobility ==
  ASSUME TypeOK, CustodyInv, MobilityInv, Grown, Next
  PROVE  \A v \in Workers : WorkerMobility(v)'
<1>1. ASSUME NEW w \in Workers, Request(w) \/ WorkerStep(w)
      PROVE  \A v \in Workers : WorkerMobility(v)'
  BY <1>1, MessageMoves, MobileMoves, RequestMoves DEF WorkerStep
<1>2. CASE UNCHANGED threads
  BY <1>2, MobilityBystander DEF threads, MobilityInv
<1>3. CASE QosStep \/ Tick \/ Restart
  BY <1>3, <1>2 DEF QosStep, QosGetConnection, QosSelect, QosUpdate, QosCover, QosSend,
                    QosEndRound, QosWake, Tick, Restart
<1>4. CASE Crash \/ \E w \in Workers : Abort(w)
  <2>1. \A w \in Workers : pc'[w] = "idle" /\ loc'[w] = NoLocals
    BY <1>4 DEF Crash, Abort, Die
  <2> QED BY <2>1, IdleMobility
<1> QED BY <1>1, <1>3, <1>4 DEF Next

\* What is stored is one report of the user, or nothing.
LEMMA CoverMobility ==
  ASSUME TypeOK, MobilityInv, Grown, Next
  PROVE  CoverReported'
<1>1. CASE UNCHANGED sate_cover
  BY <1>1 DEF MobilityInv, CoverReported, Grown
<1>2. ASSUME NEW u, NEW sates, sate_cover' = UpdateSateCover(sate_cover, u, sates),
             sates = <<>> \/ (CoverAssertion(sates) /\ u \in Users /\ sates \in reported[u])
      PROVE  CoverReported'
  <2> SUFFICES ASSUME NEW v \in Users
               PROVE  \/ sate_cover'[v] = OffLine
                      \/ \E c \in reported'[v] : CoverAssertion(c) /\ sate_cover'[v] = TempSnr(c)
    BY DEF CoverReported
  <2>1. CASE v = u /\ v \in CoverRows
    <3>1. sate_cover'[v] = TempSnr(sates)
      BY <1>2, <2>1 DEF UpdateSateCover
    <3> QED BY <1>2, <2>1, <3>1, TempSnrEmpty DEF Grown
  <2>2. CASE ~(v = u /\ v \in CoverRows)
    <3>1. sate_cover'[v] = sate_cover[v]
      BY <1>2, <2>2 DEF UpdateSateCover
    <3> QED BY <3>1 DEF MobilityInv, CoverReported, Grown
  <2> QED BY <2>1, <2>2
<1>3. ASSUME NEW w \in Workers, LoginUpdate(w) \/ MobileUpdate(w) \/ LogoutUpdate(w)
      PROVE  CoverReported'
  <2>1. pc[w] \in {"LoginUpdate", "MobileUpdate"} =>
          loc[w].head.from_id \in Users /\ loc[w].head.sates \in reported[loc[w].head.from_id]
    BY DEF MobilityInv, WorkerMobility, MobileHandler
  <2> QED BY <1>1, <1>2, <1>3, <2>1 DEF LoginUpdate, MobileUpdate, LogoutUpdate
<1>4. ASSUME NEW w \in Workers, Request(w) \/ WorkerStep(w) \/ Abort(w),
             ~(LoginUpdate(w) \/ MobileUpdate(w) \/ LogoutUpdate(w))
      PROVE  UNCHANGED sate_cover
  BY <1>4 DEF Request, SubmitMessage, SubmitReceipt, SubmitMobile, AccessToLogic, WorkerStep,
      StartHandler, MessageStep, InsertStoreMessage, SimpleCover, InsertOfflineMessage,
      InsertOfflineFails, CoverTo, CoverFrom, SendReceipt, SendToRecipient, GetOffline,
      DeleteOffline, ArchiveMessage, MobileStep, CheckUser, LoginCount, LogoutCover, SendReply,
      Abort, Die, tables
<1>5. QosStep \/ Tick \/ Crash \/ Restart => UNCHANGED sate_cover
  BY DEF QosStep, QosGetConnection, QosSelect, QosUpdate, QosCover, QosSend, QosEndRound, QosWake,
         Tick, Crash, Restart, Die, tables
<1> QED BY <1>1, <1>3, <1>4, <1>5 DEF Next

\* The list the daemon sends a message by is of its recipient.
LEMMA DaemonMobility ==
  ASSUME TypeOK, MobilityInv, Grown, Next
  PROVE  DaemonRouted'
<1>q. qos = [pc |-> qos.pc, rows |-> qos.rows, messages |-> qos.messages,
             sates |-> qos.sates, now |-> qos.now]
  BY DEF TypeOK, QosOK
<1>1. CASE UNCHANGED qos
  BY <1>1 DEF MobilityInv, DaemonRouted, OnReported, Grown
<1>2. CASE qos'.pc # "Send"
  BY <1>2 DEF DaemonRouted
<1>3. CASE QosCover
  <2> DEFINE sates == GetSateCover(sate_cover, Head(qos.messages).to_id)
  <2>1. OnReported(sates, Head(qos.messages).to_id)
    BY CoverOnReported DEF MobilityInv
  <2>2. CASE qos' = [qos EXCEPT !.pc = "Send", !.sates = sates]
    <3>1. qos'.sates = sates /\ qos'.messages = qos.messages
      BY <2>2, <1>q
    <3> HIDE DEF sates
    <3> QED BY <2>1, <3>1 DEF DaemonRouted, OnReported, Grown
  <2>3. CASE qos' = [qos EXCEPT !.messages = Tail(@)]
    <3>1. qos'.pc # "Send"
      BY <1>3, <2>3, <1>q DEF QosCover
    <3> QED BY <3>1, <1>2
  <2> QED BY <1>3, <2>2, <2>3 DEF QosCover
<1>4. CASE QosStep /\ ~QosCover
  <2>1. ASSUME QosGetConnection \/ QosSend PROVE qos'.pc # "Send"
    BY <2>1, <1>q DEF QosGetConnection, QosSend
  <2>2. ASSUME QosSelect PROVE qos'.pc # "Send"
    BY <2>2, <1>q DEF QosSelect
  <2>3. ASSUME NEW row \in qos.rows, QosUpdate(row) PROVE qos'.pc # "Send"
    BY <2>3, <1>q DEF QosUpdate
  <2>4. ASSUME QosEndRound \/ QosWake PROVE qos'.pc # "Send"
    BY <2>4 DEF QosEndRound, QosWake, QosIdle
  <2> QED BY <1>4, <2>1, <2>2, <2>3, <2>4, <1>2 DEF QosStep
<1>5. ASSUME NEW w \in Workers, Request(w) \/ WorkerStep(w) PROVE UNCHANGED qos
  BY <1>5 DEF Request, SubmitMessage, SubmitReceipt, SubmitMobile, AccessToLogic, WorkerStep,
      StartHandler, MessageStep, InsertStoreMessage, SimpleCover, InsertOfflineMessage,
      InsertOfflineFails, CoverTo, CoverFrom, SendReceipt, SendToRecipient, GetOffline,
      DeleteOffline, ArchiveMessage, MobileStep, CheckUser, LoginUpdate, LoginCount, LogoutCover,
      LogoutUpdate, MobileUpdate, SendReply
<1>6. CASE Tick \/ Restart
  BY <1>6, <1>1 DEF Tick, Restart
<1>7. CASE Crash \/ \E w \in Workers : Abort(w)
  BY <1>7, <1>2 DEF Crash, Abort, Die, QosIdle
<1> QED BY <1>1, <1>3, <1>4, <1>5, <1>6, <1>7 DEF Next

\* A frame that joins the air is on the best beam of a report, and only a registered
\* terminal is told that it is logged in.
LEMMA AirMobility ==
  ASSUME TypeOK, CustodyInv, MobilityInv, Grown, Next
  PROVE  AddressedToUsers' /\ RoutedToBestBeam' /\ LoginOkIsRegistered'
<1> DEFINE Good(a) ==
      /\ a.uid \in Users
      /\ a.beam_id \in ScheduleAddress /\ \E c \in reported'[a.uid] : FitsReport(a.beam_id, c)
      /\ a.content.type = RECEIPTE /\ a.content.receipt_type = LOGIN_OK => a.uid \in RegisteredUsers
<1>t. /\ SIMPLE_MESSAGE = 64 /\ COMPLETE_MESSAGE = 96 /\ RECEIPTE = 128
      /\ Login = 0 /\ Logout = 2 /\ MOBILE_MANAGER_REQUEST = 3
      /\ LOGIN_OK = 0 /\ SENDER_RECEIPT = 80
  BY DEF SIMPLE_MESSAGE, COMPLETE_MESSAGE, RECEIPTE, Login, Logout, MOBILE_MANAGER_REQUEST,
         LOGIN_OK, SENDER_RECEIPT
\* The frames of one call, for a list that fits a report of the addressee.
<1>f. ASSUME NEW u, NEW content, NEW sates, NEW level, OnReported(sates, u),
             content.type = RECEIPTE /\ content.receipt_type = LOGIN_OK => u \in RegisteredUsers,
             NEW a \in Frames(u, content, sates, level)
      PROVE  Good(a)
  <2>1. a.uid = u /\ a.content = content
    BY FrameFields
  <2>2. /\ a.beam_id \in ScheduleAddress
        /\ u \in Users /\ \E c \in reported[u] : FitsReport(a.beam_id, c)
    BY <1>f, FramesRouted
  <2>4. \E c \in reported'[u] : FitsReport(a.beam_id, c)
    BY <2>2 DEF Grown
  <2> QED BY <1>f, <2>1, <2>2, <2>4
<1>1. \A a \in air : Good(a)
  <2> SUFFICES ASSUME NEW a \in air PROVE Good(a)
    OBVIOUS
  <2>1. a.beam_id \in ScheduleAddress /\ \E c \in reported[a.uid] : FitsReport(a.beam_id, c)
    BY DEF MobilityInv, RoutedToBestBeam
  <2>2. a.uid \in Users
    BY DEF MobilityInv, AddressedToUsers
  <2>3. a.content.type = RECEIPTE /\ a.content.receipt_type = LOGIN_OK => a.uid \in RegisteredUsers
    BY DEF MobilityInv, LoginOkIsRegistered
  <2> QED BY <2>1, <2>2, <2>3 DEF Grown
<1> HIDE DEF Good
<1>2. ASSUME NEW w \in Workers, SendReceipt(w)
      PROVE  \A a \in air' : Good(a)
  <2> DEFINE head == loc[w].head
             content == ResponseEncode(head.from_id, ServerId, head.frame_id, SENDER_RECEIPT, 0)
             frames == Frames(head.from_id, content, loc[w].sates_from, 10)
  <2>1. air' \subseteq air \cup frames
    BY <1>2 DEF SendReceipt, SendMessage
  <2>2. OnReported(loc[w].sates_from, head.from_id)
    BY DEF MobilityInv, WorkerMobility, Routed
  <2>3. content.receipt_type # LOGIN_OK
    BY <1>t DEF ResponseEncode
  <2>4. \A a \in frames : Good(a)
    <3> HIDE DEF content
    <3> QED BY <2>2, <2>3, <1>f
  <2> QED BY <2>1, <2>4, <1>1
<1>3. ASSUME NEW w \in Workers, SendToRecipient(w)
      PROVE  \A a \in air' : Good(a)
  <2> DEFINE head == loc[w].head
             content == MessageEncode(head)
             frames == Frames(head.to_id, content, loc[w].sates, 5)
  <2>1. air' \subseteq air \cup frames
    BY <1>3 DEF SendToRecipient, SendMessage
  <2>2. head.type \in {SIMPLE_MESSAGE, COMPLETE_MESSAGE}
    BY <1>3 DEF SendToRecipient, CustodyInv, RightHandler
  <2>3. OnReported(loc[w].sates, head.to_id)
    BY <2>2 DEF MobilityInv, WorkerMobility, Routed
  <2>4. content.type # RECEIPTE
    BY <2>2, <1>t DEF MessageEncode
  <2>5. \A a \in frames : Good(a)
    <3> HIDE DEF content
    <3> QED BY <2>3, <2>4, <1>f
  <2> QED BY <2>1, <2>5, <1>1
<1>4. ASSUME NEW w \in Workers, SendReply(w)
      PROVE  \A a \in air' : Good(a)
  <2> DEFINE head == loc[w].head
             reply == loc[w].reply
             content == ResponseEncode(head.from_id, head.to_id, head.frame_id,
                                       reply.receipt_type, reply.receipt_indicate)
             sates == IF head.type = Logout THEN loc[w].sates ELSE head.sates
             frames == Frames(head.from_id, content, sates, 10)
  <2>1. air' \subseteq air \cup frames
    BY <1>4 DEF SendReply, SendMessage
  <2>2. OnReported(sates, head.from_id)
    <3>1. CASE head.type = Logout
      BY <3>1 DEF MobilityInv, WorkerMobility, Routed
    <3>2. CASE head.type # Logout
      <4>1. head.from_id \in Users /\ head.sates \in reported[head.from_id]
        BY <1>4, <3>2 DEF SendReply, MobilityInv, WorkerMobility, MobileHandler
      <4>2. head.sates \in Seq(SateParam)
        BY <4>1 DEF TypeOK, HistoryOK
      <4> QED BY <3>2, <4>1, <4>2, ReportFits DEF OnReported
    <3> QED BY <3>1, <3>2
  <2>3. content.receipt_type = LOGIN_OK => head.from_id \in RegisteredUsers
    BY <1>4 DEF SendReply, ResponseEncode, MobilityInv, WorkerMobility, Approved
  <2>4. \A a \in frames : Good(a)
    <3> HIDE DEF content, sates
    <3> QED BY <2>2, <2>3, <1>f
  <2> QED BY <2>1, <2>4, <1>1
<1>5. ASSUME QosSend
      PROVE  \A a \in air' : Good(a)
  <2> DEFINE message == Head(qos.messages)
             content == MessageEncode(message)
             frames == Frames(message.to_id, content, qos.sates, 5)
  <2>1. air' \subseteq air \cup frames
    BY <1>5 DEF QosSend, SendMessage
  <2>2. message.type = COMPLETE_MESSAGE
    <3>1. qos.messages \in Seq(FilledItem) /\ qos.messages # <<>>
      BY <1>5 DEF QosSend, TypeOK, QosOK
    <3>2. 1 \in DOMAIN qos.messages /\ message = qos.messages[1]
      BY <3>1
    <3> QED BY <3>2 DEF CustodyInv, DaemonEnsured
  <2>3. OnReported(qos.sates, message.to_id)
    BY <1>5 DEF QosSend, MobilityInv, DaemonRouted
  <2>4. content.type # RECEIPTE
    BY <2>2, <1>t DEF MessageEncode
  <2>5. \A a \in frames : Good(a)
    <3> HIDE DEF content
    <3> QED BY <2>3, <2>4, <1>f
  <2> QED BY <2>1, <2>5, <1>1
<1>6. ASSUME NEW w \in Workers, Request(w) \/ WorkerStep(w) \/ Abort(w),
             ~SendReceipt(w), ~SendToRecipient(w), ~SendReply(w)
      PROVE  UNCHANGED air
  BY <1>6 DEF Request, SubmitMessage, SubmitReceipt, SubmitMobile, AccessToLogic, WorkerStep,
      StartHandler, MessageStep, InsertStoreMessage, SimpleCover, InsertOfflineMessage,
      InsertOfflineFails, CoverTo, CoverFrom, GetOffline, DeleteOffline, ArchiveMessage,
      MobileStep, CheckUser, LoginUpdate, LoginCount, LogoutCover, LogoutUpdate, MobileUpdate,
      Abort, Die, history
<1>7. ASSUME QosStep, ~QosSend PROVE UNCHANGED air
  BY <1>7 DEF QosStep, QosGetConnection, QosSelect, QosUpdate, QosCover, QosEndRound, QosWake, history
<1>8. Tick \/ Crash \/ Restart => UNCHANGED air
  BY DEF Tick, Crash, Restart, Die, history
<1>9. \A a \in air' : Good(a)
  <2>1. CASE UNCHANGED air
    BY <2>1, <1>1
  <2> QED BY <2>1, <1>2, <1>3, <1>4, <1>5, <1>6, <1>7, <1>8 DEF Next
<1> QED BY <1>9 DEF Good, AddressedToUsers, RoutedToBestBeam, LoginOkIsRegistered

\* One step preserves the invariant.
LEMMA MobilityStep ==
  ASSUME TypeOK, CustodyInv, MobilityInv, [Next]_vars
  PROVE  MobilityInv'
<1>1. CASE UNCHANGED vars
  BY <1>1 DEF vars, tables, pool, threads, history, env, MobilityInv, WorkerMobility, MobileHandler,
     Approved, Routed, OnReported, CoverReported, DaemonRouted, AddressedToUsers,
     RoutedToBestBeam, LoginOkIsRegistered
<1>2. CASE Next
  <2>1. Grown
    BY <1>2, ReportsGrow DEF Grown
  <2> QED BY <1>2, <2>1, WorkersMobility, CoverMobility, DaemonMobility, AirMobility DEF MobilityInv
<1> QED BY <1>1, <1>2

\* The first row of a user is the row of what the user had reported.
LEMMA StoredReportRow ==
  ASSUME NEW u \in Users
  PROVE  CoverAssertion(StoredReport(u)) /\ InitCover[u] = TempSnr(StoredReport(u))
<1> DEFINE c == StoredReport(u)
<1>1. DOMAIN c = Beams /\ \A b \in Beams : c[b].beam_id = b /\ c[b].snr = InitCover[u][b]
  BY DEF StoredReport
<1>2. c \in Seq(SateParam)
  BY StoredReportType
<1> HIDE DEF c
<1>3. \A b \in Beams : LastOf(c, b)
  BY <1>1 DEF LastOf, Beams
<1>4. \A b \in Beams : TempSnr(c)[b] = InitCover[u][b]
  BY <1>1, <1>2, <1>3, TempSnrLast
<1>5. InitCover[u] = [b \in Beams |-> InitCover[u][b]]
  BY ServerAssumption
<1>6. TempSnr(c) = [b \in Beams |-> TempSnr(c)[b]]
  BY DEF TempSnr
<1> QED BY <1>1, <1>4, <1>5, <1>6 DEF CoverAssertion, c

\* The invariant holds in every run.
LEMMA MobilityInvariant == Spec => []MobilityInv
<1>1. Init => MobilityInv
  <2> SUFFICES ASSUME Init PROVE MobilityInv
    OBVIOUS
  <2>1. \A w \in Workers : WorkerMobility(w)
    <3> SUFFICES ASSUME NEW w \in Workers PROVE WorkerMobility(w)
      OBVIOUS
    <3>1. pc[w] = "idle" /\ loc[w] = NoLocals
      BY DEF Init
    <3> QED BY <3>1 DEF WorkerMobility, MobileHandler, Approved, Routed, OnReported, NoLocals,
                        NoHead, Login, Logout, SIMPLE_MESSAGE, COMPLETE_MESSAGE
  <2>2. CoverReported
    <3> SUFFICES ASSUME NEW u \in Users
                 PROVE  \E c \in reported[u] : CoverAssertion(c) /\ sate_cover[u] = TempSnr(c)
      BY DEF CoverReported
    <3>1. CoverAssertion(StoredReport(u)) /\ InitCover[u] = TempSnr(StoredReport(u))
      BY StoredReportRow
    <3> QED BY <3>1 DEF Init
  <2>3. DaemonRouted
    BY DEF Init, DaemonRouted, QosIdle
  <2>4. AddressedToUsers /\ RoutedToBestBeam /\ LoginOkIsRegistered
    BY DEF Init, AddressedToUsers, RoutedToBestBeam, LoginOkIsRegistered
  <2> QED BY <2>1, <2>2, <2>3, <2>4 DEF MobilityInv
<1>2. TypeOK /\ CustodyInv /\ MobilityInv /\ [Next]_vars => MobilityInv'
  BY MobilityStep
<1> QED BY <1>1, <1>2, TypeCorrect, CustodyInvariant, PTL DEF Spec

\* Every frame, answer, message or retransmission, goes out on a beam that has an access
\* server and that one report of its addressee puts first among those (to within the
\* fraction GetSateCover drops), also when the list was read from the table several
\* statements before and other reports and log-outs were stored meanwhile.
THEOREM FramesTakeTheBestBeam == Spec => []RoutedToBestBeam
<1>1. MobilityInv => RoutedToBestBeam
  BY DEF MobilityInv
<1> QED BY <1>1, MobilityInvariant, PTL

\* ProcessLogin answers 0 only to a terminal that is in user_info.
THEOREM LoginMeansRegistered == Spec => []LoginOkIsRegistered
<1>1. MobilityInv => LoginOkIsRegistered
  BY DEF MobilityInv
<1> QED BY <1>1, MobilityInvariant, PTL

-----------------------------------------------------------------------------
(* Retransmission, for a message_cache with a unique index.                *)

\* A row keeps its identity and its key; the daemon holds copies of rows, at most one
\* of each key.
RowIdentity ==
  /\ \A r \in message_cache, s \in message_cache : r.rid = s.rid \/ RowKey(r) = RowKey(s) => r = s
  /\ \A r \in qos.rows, s \in qos.rows : r.rid = s.rid \/ RowKey(r) = RowKey(s) => r = s
  /\ \A r \in qos.rows, s \in message_cache : r.rid = s.rid => RowKey(r) = RowKey(s)

\* Nobody but the daemon advances a count: a row that has the key of a copy, the one
\* that was copied or one inserted later, has a count not above that of the copy.
CopyIsAhead ==
  \A row \in qos.rows, r \in message_cache : RowKey(r) = RowKey(row) => r.retry_num <= row.retry_num

\* How often a row has been fetched.
PicksCounted ==
  /\ \A row \in message_cache \cup qos.rows : picked[row.rid] <= row.retry_num + Failures
  /\ \A row \in message_cache : row.retry_num <= max_retry_count
  /\ \A row \in qos.rows : row.retry_num < max_retry_count
  /\ PickBudget

RetryInv ==
  /\ left["fault"] <= Budget["fault"]
  /\ UniqueKey => RowIdentity /\ CopyIsAhead /\ PicksCounted

\* Faults are counted and never given back.
LEMMA FaultsGrow ==
  ASSUME TypeOK, Next
  PROVE  left'["fault"] \in Nat /\ left'["fault"] <= left["fault"]
<1>o. left \in [BudgetKinds -> Nat] /\ BudgetKinds = {"submit", "receipt", "mobile", "fault", "crash"}
  BY DEF TypeOK, EnvOK, BudgetKinds
<1>1. ASSUME UNCHANGED left \/ SQLException \/ \E kind \in BudgetKinds : Spend(kind)
      PROVE  left'["fault"] \in Nat /\ left'["fault"] <= left["fault"]
  <2>1. CASE UNCHANGED left
    BY <2>1, <1>o
  <2>2. CASE SQLException
    BY <2>2, <1>o DEF SQLException
  <2>3. ASSUME NEW kind \in BudgetKinds, Spend(kind)
        PROVE  left'["fault"] \in Nat /\ left'["fault"] <= left["fault"]
    BY <2>3, <1>o DEF Spend
  <2> QED BY <1>1, <2>1, <2>2, <2>3
<1>2. ASSUME NEW w \in Workers, MessageStep(w) PROVE UNCHANGED left \/ SQLException
  BY <1>2 DEF MessageStep, InsertStoreMessage, SimpleCover, InsertOfflineMessage,
     InsertOfflineFails, CoverTo, CoverFrom, SendReceipt, SendToRecipient, GetOffline, DeleteOffline,
     ArchiveMessage, env
<1>3. ASSUME NEW w \in Workers, MobileStep(w) \/ StartHandler(w) \/ Abort(w)
      PROVE  UNCHANGED left \/ SQLException
  BY <1>3 DEF MobileStep, CheckUser, LoginUpdate, LoginCount, LogoutCover, LogoutUpdate,
     MobileUpdate, SendReply, StartHandler, Abort, env
<1>4. ASSUME NEW w \in Workers, Request(w) PROVE \E kind \in BudgetKinds : Spend(kind)
  BY <1>4, <1>o DEF Request, SubmitMessage, SubmitReceipt, SubmitMobile
<1>5. ASSUME QosStep PROVE UNCHANGED left \/ SQLException
  BY <1>5 DEF QosStep, QosGetConnection, QosSelect, QosUpdate, QosCover, QosSend, QosEndRound,
     QosWake, env
<1>6. ASSUME Tick \/ Crash \/ Restart PROVE UNCHANGED left \/ \E kind \in BudgetKinds : Spend(kind)
  BY <1>6, <1>o DEF Tick, Crash, Restart
<1> QED BY <1>1, <1>2, <1>3, <1>4, <1>5, <1>6 DEF Next, WorkerStep

\* Which steps touch the rows, the daemon's copies and the counts.
LEMMA RetryWriters ==
  ASSUME TypeOK, Next
  PROVE  \/ \E w \in Workers : InsertOfflineMessage(w)
         \/ \E row \in qos.rows : QosUpdate(row)
         \/ /\ UNCHANGED picked
            /\ message_cache' \subseteq message_cache
            /\ qos'.rows \subseteq qos.rows
         \/ /\ UNCHANGED <<picked, message_cache>>
            /\ qos'.rows = DueRows(message_cache, max_retry_count, clock)
<1> DEFINE P == \/ \E w \in Workers : InsertOfflineMessage(w)
                \/ \E row \in qos.rows : QosUpdate(row)
                \/ /\ UNCHANGED picked
                   /\ message_cache' \subseteq message_cache
                   /\ qos'.rows \subseteq qos.rows
                \/ /\ UNCHANGED <<picked, message_cache>>
                   /\ qos'.rows = DueRows(message_cache, max_retry_count, clock)
<1>q. qos = [pc |-> qos.pc, rows |-> qos.rows, messages |-> qos.messages,
             sates |-> qos.sates, now |-> qos.now]
  BY DEF TypeOK, QosOK
<1>1. ASSUME NEW w \in Workers, MessageStep(w) PROVE P
  <2>1. CASE InsertOfflineMessage(w)
    BY <2>1
  <2>2. CASE DeleteOffline(w)
    BY <2>2 DEF DeleteOffline, DeleteOfflineMessage, history
  <2>3. CASE ~InsertOfflineMessage(w) /\ ~DeleteOffline(w)
    BY <1>1, <2>3 DEF MessageStep, InsertStoreMessage, SimpleCover, InsertOfflineFails, CoverTo,
       CoverFrom, SendReceipt, SendToRecipient, GetOffline, ArchiveMessage, tables, history
  <2> QED BY <2>1, <2>2, <2>3
<1>2. ASSUME NEW w \in Workers, MobileStep(w) \/ StartHandler(w) \/ Request(w) PROVE P
  <2>1. CASE MobileStep(w) \/ StartHandler(w)
    BY <2>1 DEF MobileStep, CheckUser, LoginUpdate, LoginCount, LogoutCover, LogoutUpdate,
       MobileUpdate, SendReply, StartHandler, tables, history
  <2>2. ASSUME NEW head, AccessToLogic(w, head) PROVE P
    BY <2>2 DEF AccessToLogic, tables
  <2> QED BY <1>2, <2>1, <2>2 DEF Request, SubmitMessage, SubmitReceipt, SubmitMobile
<1>3. CASE QosSelect
  <2>1. qos'.rows = DueRows(message_cache, max_retry_count, clock) \/ qos'.rows = qos.rows
    BY <1>3, <1>q DEF QosSelect
  <2> QED BY <1>3, <2>1 DEF QosSelect, tables, history
<1>4. CASE QosGetConnection \/ QosCover \/ QosSend
  <2>1. qos'.rows = qos.rows
    BY <1>4, <1>q DEF QosGetConnection, QosCover, QosSend
  <2> QED BY <1>4, <2>1 DEF QosGetConnection, QosCover, QosSend, tables, history
<1>5. CASE QosEndRound \/ QosWake \/ Crash \/ \E w \in Workers : Abort(w)
  <2>1. qos'.rows = {}
    BY <1>5 DEF QosEndRound, QosWake, Crash, Abort, Die, QosIdle
  <2> QED BY <1>5, <2>1 DEF QosEndRound, QosWake, Crash, Abort, Die, tables, history
<1>6. CASE Tick \/ Restart
  BY <1>6 DEF Tick, Restart, tables, history
<1>7. CASE QosStep
  <2>1. CASE \E row \in qos.rows : QosUpdate(row)
    BY <2>1
  <2> QED BY <1>3, <1>4, <1>5, <1>7, <2>1 DEF QosStep
<1>8. ASSUME NEW w \in Workers, Request(w) \/ WorkerStep(w) \/ Abort(w) PROVE P
  BY <1>1, <1>2, <1>5, <1>8, Zenon DEF WorkerStep
<1> QED BY <1>5, <1>6, <1>7, <1>8, Zenon DEF Next

\* What the UPDATE for a copy makes of a row.
Advanced(s, row) ==
  IF RowKey(s) = RowKey(row)
  THEN [s EXCEPT !.retry_num = row.retry_num + 1,
                 !.retry_time = qos.now + (row.retry_num + 1) * msg_interval]
  ELSE s

\* The rows of the key get the next count of the copy, the others stay; identities and
\* keys do not change.
LEMMA UpdateRetryRows ==
  ASSUME TypeOK, NEW row \in qos.rows
  PROVE  /\ UpdateRetry(message_cache, row, qos.now, msg_interval) =
              {Advanced(s, row) : s \in message_cache}
         /\ \A s \in message_cache :
              /\ Advanced(s, row).rid = s.rid
              /\ RowKey(Advanced(s, row)) = RowKey(s)
              /\ RowKey(s) = RowKey(row) => Advanced(s, row).retry_num = row.retry_num + 1
              /\ RowKey(s) # RowKey(row) => Advanced(s, row) = s
<1>1. UpdateRetry(message_cache, row, qos.now, msg_interval) =
        {Advanced(s, row) : s \in message_cache}
  BY DEF UpdateRetry, Advanced
<1>2. ASSUME NEW s \in message_cache
      PROVE  /\ Advanced(s, row).rid = s.rid
             /\ RowKey(Advanced(s, row)) = RowKey(s)
             /\ RowKey(s) = RowKey(row) => Advanced(s, row).retry_num = row.retry_num + 1
             /\ RowKey(s) # RowKey(row) => Advanced(s, row) = s
  <2>1. s \in CacheRow
    BY DEF TypeOK, TablesOK
  <2> QED BY <2>1 DEF Advanced, CacheRow, RowKey
<1> QED BY <1>1, <1>2

\* A new row: its identity is fresh, its key is not in the table.
LEMMA RetryInsert ==
  ASSUME TypeOK, RowIdentity, CopyIsAhead, PicksCounted, UniqueKey,
         left["fault"] <= Budget["fault"], NEW w \in Workers, InsertOfflineMessage(w)
  PROVE  RowIdentity' /\ CopyIsAhead' /\ PicksCounted'
<1> DEFINE new == OfflineRow(loc[w].head, Len(picked) + 1, clock)
<1>1. /\ message_cache' = message_cache \cup {new} /\ picked' = Append(picked, 0)
      /\ UNCHANGED <<qos, left>>
      /\ \A r \in message_cache : RowKey(r) # HeadKey(loc[w].head)
  BY DEF InsertOfflineMessage, RowsOf, env
<1>2. new.rid = Len(picked) + 1 /\ new.retry_num = 0 /\ RowKey(new) = HeadKey(loc[w].head)
  BY DEF OfflineRow, RowKey, HeadKey
<1> HIDE DEF new
<1>3. /\ picked \in Seq(Nat) /\ Len(picked) \in Nat /\ DOMAIN picked = 1 .. Len(picked)
      /\ DOMAIN picked' = 1 .. Len(picked) + 1 /\ picked'[Len(picked) + 1] = 0
      /\ \A i \in DOMAIN picked : picked'[i] = picked[i]
  <2>1. picked \in Seq(Nat)
    BY DEF TypeOK, HistoryOK
  <2> QED BY <1>1, <2>1, LenProperties
<1>4. \A r \in message_cache \cup qos.rows : r.rid \in 1 .. Len(picked) /\ r.retry_num \in Nat
  BY <1>3 DEF TypeOK, TablesOK, QosOK, RowsInserted, CacheRow
<1>5. RowIdentity'
  BY <1>1, <1>2, <1>3, <1>4 DEF RowIdentity
<1>6. CopyIsAhead'
  BY <1>1, <1>2, <1>4 DEF CopyIsAhead
<1>7. Failures' = Failures /\ Failures \in Nat /\ max_retry_count \in Nat
  BY <1>1, ServerAssumption DEF Failures, TypeOK, EnvOK, BudgetKinds
<1>8. PicksCounted'
  <2>1. \A row \in message_cache' \cup qos'.rows : picked'[row.rid] <= row.retry_num + Failures
    BY <1>1, <1>2, <1>3, <1>4, <1>7 DEF PicksCounted
  <2>2. /\ \A row \in message_cache' : row.retry_num <= max_retry_count
        /\ \A row \in qos'.rows : row.retry_num < max_retry_count
    BY <1>1, <1>2, <1>7 DEF PicksCounted
  <2>3. \A rid \in DOMAIN picked' : picked'[rid] <= max_retry_count + Failures
    BY <1>3, <1>7 DEF PicksCounted, PickBudget
  <2> QED BY <1>7, <2>1, <2>2, <2>3 DEF PicksCounted, PickBudget
<1> QED BY <1>5, <1>6, <1>8

\* One turn of the daemon's loop: the row it fetched is counted, and the count of the
\* rows of its key moves on, or a failure is on record.
LEMMA RetryUpdate ==
  ASSUME TypeOK, RowIdentity, CopyIsAhead, PicksCounted,
         left["fault"] <= Budget["fault"], NEW row \in qos.rows, QosUpdate(row)
  PROVE  RowIdentity' /\ CopyIsAhead' /\ PicksCounted'
<1>o. /\ picked \in Seq(Nat) /\ row.rid \in DOMAIN picked /\ max_retry_count \in Nat
      /\ left["fault"] \in Nat /\ Budget["fault"] \in Nat
      /\ row.retry_num \in Nat /\ \A r \in message_cache \cup qos.rows : r.retry_num \in Nat
  BY ServerAssumption
  DEF TypeOK, HistoryOK, RowsInserted, EnvOK, BudgetKinds, TablesOK, QosOK, CacheRow
<1>q. qos = [pc |-> qos.pc, rows |-> qos.rows, messages |-> qos.messages,
             sates |-> qos.sates, now |-> qos.now]
  BY DEF TypeOK, QosOK
<1>p. /\ DOMAIN picked' = DOMAIN picked
      /\ picked'[row.rid] = picked[row.rid] + 1 \/ picked'[row.rid] = picked[row.rid]
      /\ \A rid \in DOMAIN picked : rid # row.rid => picked'[rid] = picked[rid]
      /\ \A rid \in DOMAIN picked : picked[rid] \in Nat
  <2>1. picked' = [picked EXCEPT ![row.rid] = @ + 1] \/ UNCHANGED picked
    BY DEF QosUpdate
  <2> QED BY <2>1, <1>o
<1>d. \A r \in message_cache \cup qos.rows : r.rid \in DOMAIN picked
  BY DEF TypeOK, RowsInserted
<1>c. /\ \A r \in message_cache \cup qos.rows : picked[r.rid] <= r.retry_num + Failures
      /\ row.retry_num < max_retry_count
      /\ \A rid \in DOMAIN picked : picked[rid] <= max_retry_count + Failures
  BY DEF PicksCounted, PickBudget
<1>1. CASE /\ message_cache' = UpdateRetry(message_cache, row, qos.now, msg_interval)
           /\ qos'.rows = qos.rows \ {row}
           /\ UNCHANGED left
  <2>1. /\ message_cache' = {Advanced(s, row) : s \in message_cache}
        /\ \A s \in message_cache :
             /\ Advanced(s, row).rid = s.rid
             /\ RowKey(Advanced(s, row)) = RowKey(s)
             /\ RowKey(s) = RowKey(row) => Advanced(s, row).retry_num = row.retry_num + 1
             /\ RowKey(s) # RowKey(row) => Advanced(s, row) = s
    BY <1>1, UpdateRetryRows
  <2>2. Failures' = Failures /\ Failures \in Nat
    BY <1>1, <1>o DEF Failures
  <2>3. RowIdentity'
    <3>1. \A r \in message_cache', s \in message_cache' :
            r.rid = s.rid \/ RowKey(r) = RowKey(s) => r = s
      BY <2>1 DEF RowIdentity
    <3>2. \A r \in qos'.rows, s \in message_cache' : r.rid = s.rid => RowKey(r) = RowKey(s)
      BY <1>1, <2>1 DEF RowIdentity
    <3>3. \A r \in qos'.rows, s \in qos'.rows : r.rid = s.rid \/ RowKey(r) = RowKey(s) => r = s
      BY <1>1 DEF RowIdentity
    <3> QED BY <3>1, <3>2, <3>3 DEF RowIdentity
  <2>4. \A r \in qos'.rows : r \in qos.rows /\ r.rid # row.rid /\ RowKey(r) # RowKey(row)
    BY <1>1 DEF RowIdentity
  <2>5. CopyIsAhead'
    BY <2>1, <2>4 DEF CopyIsAhead
  <2>6. ASSUME NEW s \in message_cache
        PROVE  /\ picked'[s.rid] <= Advanced(s, row).retry_num + Failures
               /\ Advanced(s, row).retry_num <= max_retry_count
    <3>1. CASE RowKey(s) # RowKey(row)
      <4>1. s.rid # row.rid
        BY <3>1 DEF RowIdentity
      <4> QED BY <2>1, <3>1, <4>1, <1>c, <1>d, <1>p DEF PicksCounted
    <3>2. CASE RowKey(s) = RowKey(row)
      <4>1. s.retry_num <= row.retry_num
        BY <3>2 DEF CopyIsAhead
      <4>2. Advanced(s, row).retry_num = row.retry_num + 1
        BY <2>1, <3>2
      <4>3. picked'[s.rid] \in Nat /\ picked'[s.rid] <= picked[s.rid] + 1
        BY <1>d, <1>p
      <4>4. picked[s.rid] \in Nat /\ picked[s.rid] <= s.retry_num + Failures
        BY <1>c, <1>d, <1>p
      <4>5. s.retry_num \in Nat /\ row.retry_num \in Nat /\ row.retry_num < max_retry_count
            /\ max_retry_count \in Nat /\ Failures \in Nat
        BY <1>o, <1>c, <2>2
      <4> QED BY <4>1, <4>2, <4>3, <4>4, <4>5
    <3> QED BY <3>1, <3>2
  <2>7. /\ \A r \in message_cache' : /\ picked'[r.rid] <= r.retry_num + Failures
                                     /\ r.retry_num <= max_retry_count
        /\ \A r \in qos'.rows : /\ picked'[r.rid] <= r.retry_num + Failures
                                /\ r.retry_num < max_retry_count
    <3>1. \A r \in message_cache' : /\ picked'[r.rid] <= r.retry_num + Failures
                                    /\ r.retry_num <= max_retry_count
      BY <2>1, <2>6
    <3>2. \A r \in qos'.rows : /\ picked'[r.rid] <= r.retry_num + Failures
                               /\ r.retry_num < max_retry_count
      BY <2>4, <1>c, <1>d, <1>p DEF PicksCounted
    <3> QED BY <3>1, <3>2
  <2>8. \A rid \in DOMAIN picked' : picked'[rid] <= max_retry_count + Failures
    <3>1. picked[row.rid] \in Nat /\ picked[row.rid] <= row.retry_num + Failures
      BY <1>c, <1>o, <1>p
    <3>2. picked'[row.rid] <= max_retry_count + Failures
      BY <3>1, <1>o, <1>p, <1>c, <2>2
    <3> QED BY <3>2, <1>p, <1>c
  <2> QED BY <2>2, <2>3, <2>5, <2>7, <2>8 DEF PicksCounted, PickBudget
<1>2. CASE UNCHANGED message_cache /\ qos'.rows = {} /\ SQLException
  <2>1. Failures' = Failures + 1 /\ Failures \in Nat
    BY <1>2, <1>o DEF SQLException, Failures, TypeOK, EnvOK, BudgetKinds
  <2>2. RowIdentity' /\ CopyIsAhead'
    BY <1>2 DEF RowIdentity, CopyIsAhead
  <2>3. ASSUME NEW r \in message_cache PROVE picked'[r.rid] <= r.retry_num + Failures'
    <3>1. /\ picked[r.rid] \in Nat /\ picked'[r.rid] \in Nat /\ picked'[r.rid] <= picked[r.rid] + 1
          /\ picked[r.rid] <= r.retry_num + Failures /\ r.retry_num \in Nat
      BY <1>c, <1>d, <1>o, <1>p
    <3> QED BY <3>1, <2>1
  <2>4. ASSUME NEW rid \in DOMAIN picked' PROVE picked'[rid] <= max_retry_count + Failures'
    <3>1. /\ picked[rid] \in Nat /\ picked'[rid] \in Nat /\ picked'[rid] <= picked[rid] + 1
          /\ picked[rid] <= max_retry_count + Failures /\ max_retry_count \in Nat
      BY <1>c, <1>o, <1>p
    <3> QED BY <3>1, <2>1
  <2> QED BY <1>2, <2>2, <2>3, <2>4 DEF PicksCounted, PickBudget
<1>3. \/ /\ message_cache' = UpdateRetry(message_cache, row, qos.now, msg_interval)
         /\ qos'.rows = qos.rows \ {row}
         /\ UNCHANGED left
      \/ UNCHANGED message_cache /\ qos'.rows = {} /\ SQLException
  BY <1>q DEF QosUpdate
<1> QED BY <1>1, <1>2, <1>3

\* One step preserves the invariant.
LEMMA RetryStep ==
  ASSUME TypeOK, RetryInv, [Next]_vars
  PROVE  RetryInv'
<1>1. CASE UNCHANGED vars
  BY <1>1 DEF vars, tables, history, env, RetryInv, RowIdentity, CopyIsAhead, PicksCounted,
     PickBudget, Failures
<1>2. CASE Next
  <2>1. left'["fault"] \in Nat /\ left'["fault"] <= left["fault"]
    BY <1>2, FaultsGrow
  <2>2. /\ left["fault"] \in Nat /\ Budget["fault"] \in Nat /\ max_retry_count \in Nat
        /\ left["fault"] <= Budget["fault"]
    BY ServerAssumption DEF RetryInv, TypeOK, EnvOK, BudgetKinds
  <2>3. Failures \in Nat /\ Failures' \in Nat /\ Failures <= Failures'
    BY <2>1, <2>2 DEF Failures
  <2>4. ASSUME UniqueKey PROVE RowIdentity' /\ CopyIsAhead' /\ PicksCounted'
    <3>o. RowIdentity /\ CopyIsAhead /\ PicksCounted
      BY <2>4 DEF RetryInv
    <3>n. /\ \A r \in message_cache \cup qos.rows : r.retry_num \in Nat /\ picked[r.rid] \in Nat
          /\ \A rid \in DOMAIN picked : picked[rid] \in Nat
      <4>1. picked \in Seq(Nat)
        BY DEF TypeOK, HistoryOK
      <4> QED BY <4>1 DEF TypeOK, RowsInserted, TablesOK, QosOK, CacheRow
    <3>1. ASSUME NEW w \in Workers, InsertOfflineMessage(w)
          PROVE  RowIdentity' /\ CopyIsAhead' /\ PicksCounted'
      BY <2>2, <2>4, <3>o, <3>1, RetryInsert
    <3>2. ASSUME NEW row \in qos.rows, QosUpdate(row)
          PROVE  RowIdentity' /\ CopyIsAhead' /\ PicksCounted'
      BY <2>2, <3>o, <3>2, RetryUpdate
    <3>3. ASSUME UNCHANGED picked, message_cache' \subseteq message_cache,
                 \/ qos'.rows \subseteq qos.rows
                 \/ UNCHANGED message_cache /\ qos'.rows = DueRows(message_cache, max_retry_count, clock)
          PROVE  RowIdentity' /\ CopyIsAhead' /\ PicksCounted'
      <4>1. CASE qos'.rows \subseteq qos.rows
        <5>1. RowIdentity' /\ CopyIsAhead'
          BY <3>3, <3>o, <4>1 DEF RowIdentity, CopyIsAhead
        <5>2. \A r \in message_cache' \cup qos'.rows :
                r \in message_cache \cup qos.rows /\ picked'[r.rid] <= r.retry_num + Failures'
          BY <3>3, <3>o, <3>n, <4>1, <2>3 DEF PicksCounted
        <5>3. \A rid \in DOMAIN picked' : picked'[rid] <= max_retry_count + Failures'
          BY <3>3, <3>o, <3>n, <2>2, <2>3 DEF PicksCounted, PickBudget
        <5> QED BY <3>3, <3>o, <4>1, <5>1, <5>2, <5>3 DEF PicksCounted, PickBudget
      <4>2. CASE UNCHANGED message_cache /\ qos'.rows = DueRows(message_cache, max_retry_count, clock)
        <5>1. \A r \in qos'.rows : r \in message_cache /\ r.retry_num < max_retry_count
          BY <4>2 DEF DueRows
        <5>2. RowIdentity'
          BY <3>o, <4>2, <5>1 DEF RowIdentity
        <5>3. CopyIsAhead'
          BY <3>o, <3>n, <4>2, <5>1 DEF RowIdentity, CopyIsAhead
        <5>4. \A r \in message_cache' \cup qos'.rows : picked'[r.rid] <= r.retry_num + Failures'
          BY <3>3, <3>o, <3>n, <4>2, <5>1, <2>3 DEF PicksCounted
        <5>5. \A rid \in DOMAIN picked' : picked'[rid] <= max_retry_count + Failures'
          BY <3>3, <3>o, <3>n, <2>2, <2>3 DEF PicksCounted, PickBudget
        <5> QED BY <3>o, <4>2, <5>1, <5>2, <5>3, <5>4, <5>5 DEF PicksCounted, PickBudget
      <4> QED BY <3>3, <4>1, <4>2
    <3> QED BY <1>2, <3>1, <3>2, <3>3, RetryWriters
  <2> QED BY <2>1, <2>2, <2>4 DEF RetryInv
<1> QED BY <1>1, <1>2

\* The invariant holds in every run.
LEMMA RetryInvariant == Spec => []RetryInv
<1>1. Init => RetryInv
  BY ServerAssumption DEF Init, RetryInv, RowIdentity, CopyIsAhead, PicksCounted, PickBudget, QosIdle,
     BudgetKinds
<1>2. TypeOK /\ RetryInv /\ [Next]_vars => RetryInv'
  BY RetryStep
<1> QED BY <1>1, <1>2, TypeCorrect, PTL DEF Spec

\* With a unique index on message_cache, the daemon fetches a row at most
\* max_retry_count times, plus once for every failed statement, although it counts with
\* values of an earlier SELECT, crashes between the SELECT and the UPDATE, and messages
\* are receipted and submitted again meanwhile.
THEOREM PicksAreBounded ==
  ASSUME UniqueKey
  PROVE  Spec => []PickBudget
<1>1. RetryInv => PickBudget
  BY DEF RetryInv, PicksCounted
<1> QED BY <1>1, RetryInvariant, PTL

\* With a unique index, the count of a row never goes back.
THEOREM RetryNumGrows ==
  ASSUME UniqueKey
  PROVE  Spec => RetryNumMonotone
<1> DEFINE A == \A row \in message_cache, r \in message_cache' :
                  r.rid = row.rid => row.retry_num <= r.retry_num
<1>1. TypeOK /\ RetryInv /\ [Next]_vars => [A]_vars
  <2> SUFFICES ASSUME TypeOK, RetryInv, Next PROVE A
    OBVIOUS
  <2> SUFFICES ASSUME NEW row \in message_cache, NEW r \in message_cache', r.rid = row.rid
               PROVE  row.retry_num <= r.retry_num
    OBVIOUS
  <2>o. /\ RowIdentity /\ CopyIsAhead
        /\ \A s \in message_cache \cup qos.rows : s.retry_num \in Nat
    BY DEF RetryInv, TypeOK, TablesOK, QosOK, CacheRow
  <2>s. CASE r \in message_cache
    BY <2>s, <2>o DEF RowIdentity
  <2>1. ASSUME NEW w \in Workers, InsertOfflineMessage(w) PROVE r \in message_cache
    <3> DEFINE new == OfflineRow(loc[w].head, Len(picked) + 1, clock)
    <3>1. message_cache' = message_cache \cup {new}
      BY <2>1 DEF InsertOfflineMessage
    <3>2. row.rid \in 1 .. Len(picked) /\ Len(picked) \in Nat
      BY LenProperties DEF TypeOK, HistoryOK, RowsInserted
    <3>3. new.rid = Len(picked) + 1
      BY DEF OfflineRow
    <3> HIDE DEF new
    <3> QED BY <3>1, <3>2, <3>3
  <2>2. ASSUME NEW copy \in qos.rows, QosUpdate(copy) PROVE row.retry_num <= r.retry_num
    <3>1. CASE message_cache' = UpdateRetry(message_cache, copy, qos.now, msg_interval)
      <4>1. PICK s \in message_cache : r = Advanced(s, copy)
        BY <3>1, UpdateRetryRows
      <4>2. /\ Advanced(s, copy).rid = s.rid
            /\ RowKey(s) = RowKey(copy) => Advanced(s, copy).retry_num = copy.retry_num + 1
            /\ RowKey(s) # RowKey(copy) => Advanced(s, copy) = s
        BY UpdateRetryRows
      <4>3. s = row
        BY <4>1, <4>2, <2>o DEF RowIdentity
      <4>4. RowKey(s) = RowKey(copy) => s.retry_num <= copy.retry_num
        BY <2>o DEF CopyIsAhead
      <4> QED BY <4>1, <4>2, <4>3, <4>4, <2>o
    <3>2. CASE UNCHANGED message_cache
      BY <3>2, <2>s
    <3> QED BY <2>2, <3>1, <3>2 DEF QosUpdate
  <2> QED BY <2>1, <2>2, <2>s, RetryWriters
<1> QED BY <1>1, TypeCorrect, RetryInvariant, PTL DEF Spec, RetryNumMonotone
=============================================================================
