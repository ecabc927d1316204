--------------------------- MODULE LifecycleProofs ---------------------------
(***************************************************************************)
(* Start-up and shutdown for any number of workers: the connection pool is *)
(* open whenever a thread uses it.                                         *)
(***************************************************************************)
EXTENDS Lifecycle, TLAPS

\* The constructors establish the types and the invariant of the life cycle.
LEMMA InitHolds == Init => TypeOK /\ LifecycleInv
<1>1. Init => TypeOK
  BY Zenon DEF Init, TypeOK, MainLabels
<1>2. Init => LifecycleInv
  BY SMT DEF Init, LifecycleInv, Ends, Starting, Stopping, NoThreads, PoolOutlivesUsers
<1> QED
  BY <1>1, <1>2

\* Every step of main, of the run thread, of a worker, of the daemon and of the
\* signal handler preserves both.
LEMMA NextHolds == TypeOK /\ LifecycleInv /\ [Next]_vars => (TypeOK /\ LifecycleInv)'
<1> SUFFICES ASSUME TypeOK, LifecycleInv, [Next]_vars
             PROVE  (TypeOK /\ LifecycleInv)'
  OBVIOUS
<1> USE DEF TypeOK, LifecycleInv, MainLabels, Ends, Starting, Stopping, NoThreads,
            PoolOutlivesUsers, Alive
<1>1. CASE LogInit \/ ReadFile
  BY <1>1 DEF LogInit, ReadFile
<1>2. CASE InitDatabase
  BY <1>2 DEF InitDatabase, InitStep
<1>3. CASE InitSendHelper
  BY <1>3 DEF InitSendHelper, InitStep
<1>4. CASE InitQos
  BY <1>4 DEF InitQos, InitStep
<1>5. CASE InitServer
  BY <1>5 DEF InitServer, InitStep
<1>6. CASE SpawnRun \/ SpawnQos
  BY <1>6 DEF SpawnRun, SpawnQos
<1>7. CASE sig_int
  BY <1>7 DEF sig_int
<1>8. CASE Wait \/ Stop
  <2>1. TypeOK'
    BY <1>8, Zenon DEF Wait, Stop
  <2>2. LifecycleInv'
    BY <1>8, SMT DEF Wait, Stop
  <2> QED
    BY <2>1, <2>2
<1>9. CASE StopServer
  <2>1. TypeOK'
    BY <1>9, Zenon DEF StopServer
  <2>2. LifecycleInv'
    BY <1>9, SMT DEF StopServer
  <2> QED
    BY <2>1, <2>2
<1>10. CASE StopQos
  <2>1. TypeOK'
    BY <1>10, Zenon DEF StopQos
  <2>2. LifecycleInv'
    BY <1>10, SMT DEF StopQos
  <2> QED
    BY <2>1, <2>2
<1>11. CASE JoinRun \/ JoinQos \/ Destroy
  BY <1>11 DEF JoinRun, JoinQos, Destroy
<1>12. CASE RunBuild
  <2>1. TypeOK'
    BY <1>12, Zenon DEF RunBuild
  <2>2. LifecycleInv'
    BY <1>12, SMT DEF RunBuild
  <2> QED
    BY <2>1, <2>2
<1>13. CASE RunListen
  BY <1>13 DEF RunListen
<1>14. CASE Interrupted \/ Drained
  BY <1>14 DEF Interrupted, Drained
<1>15. ASSUME NEW w \in Workers, Accept(w)
       PROVE  (TypeOK /\ LifecycleInv)'
  BY <1>15 DEF Accept
<1>16. ASSUME NEW w \in Workers, Finish(w) \/ Hang(w)
       PROVE  (TypeOK /\ LifecycleInv)'
  BY <1>16 DEF Finish, Hang
<1>17. CASE QosStep \/ QosHang
  BY <1>17 DEF QosStep, QosTest, QosRound, QosWake, QosHang
<1>18. CASE UNCHANGED vars
  BY <1>18 DEF vars
<1> QED
  BY <1>1, <1>2, <1>3, <1>4, <1>5, <1>6, <1>7, <1>8, <1>9, <1>10, <1>11, <1>12, <1>13,
     <1>14, <1>15, <1>16, <1>17, <1>18
  DEF Next, MainStep, RunStep

\* The types and the invariant of the life cycle (Controller, main) hold always.
THEOREM LifecycleInvariant == Spec => [](TypeOK /\ LifecycleInv)
  BY InitHolds, NextHolds, PTL DEF Spec

\* No worker and no round of the daemon uses the connection pool before
\* Database::Init has started it or after ~Database has freed it.
THEOREM PoolIsOpenWhenUsed == Spec => []PoolOutlivesUsers
<1>1. LifecycleInv => PoolOutlivesUsers
  BY DEF LifecycleInv
<1> QED
  BY <1>1, LifecycleInvariant, PTL
=============================================================================
