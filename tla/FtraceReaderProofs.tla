------------------------- MODULE FtraceReaderProofs -------------------------
(***************************************************************************)
(* Proofs about the readers and the start barrier of FtraceReader, for     *)
(* every number of cpus and every width of unsigned int.                   *)
(***************************************************************************)
EXTENDS FtraceReader, BarrierProofs

(***************************************************************************)
(* ReadersStartAfterTracingOn is not inductive.  A reader out of wait()    *)
(* must know that the barrier released it, that a release needs every      *)
(* participant, the control thread included, and that the control thread   *)
(* arrives only after writing tracing_on.  So the invariant carries the    *)
(* barrier's own inductive invariant IInv (mCount counts the arrivals      *)
(* down), the types that the EXCEPTs of the reader steps need, and three   *)
(* links: a reader past "wait" has returned from Barrier::wait, the        *)
(* control thread has left "start" only by writing tracing_on, and it has  *)
(* called wait() only after leaving "start".                               *)
(***************************************************************************)
RInv ==
  /\ IInv
  /\ rpc \in [Readers -> ReaderPcs]
  /\ cpc \in ControlPcs
  /\ cur \in Readers
  /\ \A c \in Readers : rpc[c] # "wait" => pc[c] = "done"
  /\ cpc # "start" => started
  /\ pc[Main] # "idle" => started

USE ReaderAssumption, BarrierAssumption

\* A step of reader c, out of Barrier::wait, that leaves the barrier alone.
ReaderMove(c, x) ==
  /\ pc[c] = "done"
  /\ x \in ReaderPcs \ {"wait"}
  /\ rpc' = [rpc EXCEPT ![c] = x]
  /\ UNCHANGED <<startVars, cpc, cur>>

\* A step that changes no pc of a reader and nothing of the start.
ReaderStay == rpc' = rpc /\ UNCHANGED <<startVars, cpc, cur>>

\* A step of stop() once start() has returned.
ControlMove ==
  /\ UNCHANGED startVars
  /\ cpc # "start" /\ cpc' \in ControlPcs \ {"start"}
  /\ cur' \in Readers
  /\ \/ rpc' = rpc
     \/ \E c \in Readers : rpc[c] = "blocked" /\ rpc' = [rpc EXCEPT ![c] = "loop"]

\* The barrier's variables are left alone, so its invariant is kept.
LEMMA BarrierFrame ==
  ASSUME IInv, UNCHANGED startVars
  PROVE  IInv'
  <1>1. UNCHANGED barrierVars
    BY DEF startVars
  <1>2. QED
    BY <1>1, NextIInv

LEMMA ReaderMoveInv ==
  ASSUME RInv, NEW c \in Readers, NEW x, ReaderMove(c, x)
  PROVE  RInv'
  <1>1. IInv'
    BY BarrierFrame DEF RInv, ReaderMove
  <1>2. pc' = pc /\ started' = started
    BY DEF ReaderMove, startVars, barrierVars
  <1>3. \A d \in Readers : rpc'[d] # "wait" => pc'[d] = "done"
    BY <1>2 DEF RInv, ReaderMove
  <1>4. QED
    BY <1>1, <1>2, <1>3 DEF RInv, ReaderMove

LEMMA ReaderStayInv ==
  ASSUME RInv, ReaderStay
  PROVE  RInv'
  <1>1. IInv'
    BY BarrierFrame DEF RInv, ReaderStay
  <1>2. pc' = pc /\ started' = started
    BY DEF ReaderStay, startVars, barrierVars
  <1>3. QED
    BY <1>1, <1>2 DEF RInv, ReaderStay

LEMMA ControlMoveInv ==
  ASSUME RInv, ControlMove
  PROVE  RInv'
  <1>1. IInv'
    BY BarrierFrame DEF RInv, ControlMove
  <1>2. pc' = pc /\ started' = started
    BY DEF ControlMove, startVars, barrierVars
  <1>3. rpc' \in [Readers -> ReaderPcs]
    BY DEF RInv, ControlMove, ReaderPcs
  <1>4. \A d \in Readers : rpc'[d] # "wait" => pc'[d] = "done"
    BY <1>2 DEF RInv, ControlMove
  <1>5. QED
    BY <1>1, <1>2, <1>3, <1>4 DEF RInv, ControlMove

\* A step of reader c from a pc other than "wait" to another one.
LEMMA GotoMove ==
  ASSUME RInv, NEW c \in Readers, NEW from, NEW to,
         from # "wait", to \in ReaderPcs \ {"wait"}, Goto(c, from, to)
  PROVE  ReaderMove(c, to)
  BY DEF Goto, ReaderMove, startVars, RInv

\* stop()'s walk over mHead stays on the list.
LEMMA NextOnListType ==
  ASSUME cur \in Readers
  PROVE  NextOnList \in Readers
  BY DEF NextOnList, Readers

LEMMA ReaderStepInv ==
  ASSUME RInv, NEW c \in Readers,
         ReaderStep(c) \/ PageArrives(c) \/ WatchdogThread(c)
  PROVE  RInv'
  <1> USE DEF ReaderPcs
  <1>1. CASE LeaveBarrier(c)
    BY <1>1, ReaderMoveInv DEF LeaveBarrier, Goto, ReaderMove, startVars
  <1>2. CASE TestActive(c)
    BY <1>2, GotoMove, ReaderMoveInv DEF TestActive
  <1>3. CASE Splice(c)
    BY <1>3, GotoMove, ReaderMoveInv DEF Splice
  <1>4. CASE ArmWatchdog(c)
    BY <1>4, ReaderMoveInv DEF ArmWatchdog, ReaderMove, startVars, RInv
  <1>5. CASE Drain(c)
    BY <1>5, GotoMove, ReaderMoveInv DEF Drain
  <1>6. CASE Slop(c)
    <2>1. CASE tfdCloses[c] > 0
      BY <1>6, <2>1, ReaderStayInv DEF Slop, ReaderStay, startVars
    <2>2. CASE ~(tfdCloses[c] > 0)
      BY <1>6, <2>2, ReaderMoveInv DEF Slop, ReaderMove, startVars, RInv
    <2>3. QED
      BY <2>1, <2>2
  <1>7. CASE ClearStuck(c) \/ ReaderCloseTfd(c) \/ ReaderClosePfd(c)
    BY <1>7, ReaderMoveInv
    DEF ClearStuck, ReaderCloseTfd, ReaderClosePfd, ReaderMove, startVars, RInv
  <1>8. CASE PageArrives(c)
    BY <1>8, GotoMove, ReaderMoveInv DEF PageArrives
  <1>9. CASE WatchdogThread(c)
    BY <1>9, ReaderStayInv
    DEF WatchdogThread, WatchdogFire, WatchdogCloseTfd, WatchdogClosePfd, WatchdogKill,
        WatchdogStep, ReaderStay, startVars
  <1>10. QED
    BY <1>1, <1>2, <1>3, <1>4, <1>5, <1>6, <1>7, <1>8, <1>9 DEF ReaderStep

\* A step of Barrier::wait keeps the links: a thread whose wait() has
\* returned stays returned, and the control thread arrives only in "barrier".
LEMMA BarrierStepInv ==
  ASSUME RInv, NEW t \in Threads,
         \/ BarrierStep(t, Arrive(t))
         \/ BarrierStep(t, SpuriousWakeup(t))
         \/ BarrierStep(t, Wake(t))
  PROVE  RInv'
  <1>1. [BarrierNext]_barrierVars
    BY DEF BarrierStep, BarrierNext
  <1>2. IInv'
    BY <1>1, NextIInv DEF RInv
  <1>3. UNCHANGED <<rpc, cpc, cur, started>>
    BY DEF BarrierStep, readerVars
  <1>4. pc \in [Threads -> {"idle", "sleep", "done"}]
    BY DEF RInv, IInv, BarrierTypeOK
  <1>5. \A d \in Threads : pc[d] = "done" => pc'[d] = "done"
    BY <1>4 DEF BarrierStep, Arrive, SpuriousWakeup, Wake
  <1>6. \A d \in Threads : d # t => pc'[d] = pc[d]
    BY <1>4 DEF BarrierStep, Arrive, SpuriousWakeup, Wake
  <1>7. pc'[Main] # "idle" => started'
    <2>1. CASE pc[Main] # "idle"
      BY <2>1, <1>3 DEF RInv
    <2>2. CASE pc[Main] = "idle" /\ t # Main
      BY <2>2, <1>6
    <2>3. CASE t = Main
      <3>1. cpc = "barrier"
        BY <2>3 DEF BarrierStep, AtBarrier, Readers
      <3>2. QED
        BY <3>1, <1>3 DEF RInv
    <2>4. QED
      BY <2>1, <2>2, <2>3
  <1>8. \A c \in Readers : rpc'[c] # "wait" => pc'[c] = "done"
    BY <1>3, <1>5 DEF RInv
  <1>9. QED
    BY <1>2, <1>3, <1>7, <1>8 DEF RInv

\* start() writes tracing_on before it reaches its own wait().
LEMMA StartTracingInv ==
  ASSUME RInv, StartTracing
  PROVE  RInv'
  <1>1. IInv'
    BY NextIInv DEF StartTracing, RInv
  <1>2. UNCHANGED <<rpc, cur, pc>> /\ started' /\ cpc' = "barrier"
    BY DEF StartTracing, readerVars, barrierVars
  <1>3. QED
    BY <1>1, <1>2 DEF RInv, ControlPcs

\* The steps of the control thread after its wait() returned.
LEMMA ControlStepInv ==
  ASSUME RInv, StartReturns \/ Interrupt \/ Signal \/ Join
  PROVE  RInv'
  <1>1. NextOnList \in Readers
    BY NextOnListType DEF RInv
  <1>2. ControlMove
    BY <1>1 DEF StartReturns, Interrupt, Signal, Join, ControlMove, ControlPcs,
                readerVars, RInv
  <1>3. QED
    BY <1>2, ControlMoveInv

LEMMA InitRInv == Init => RInv
  <1> SUFFICES ASSUME Init PROVE RInv
    OBVIOUS
  <1>1. IInv
    BY InitIInv DEF Init
  <1>2. pc[Main] = "idle"
    BY DEF Init, BarrierInit
  <1>3. QED
    BY <1>1, <1>2 DEF Init, RInv, ReaderPcs, ControlPcs, Readers

LEMMA NextRInv == RInv /\ [Next]_vars => RInv'
  <1> SUFFICES ASSUME RInv, [Next]_vars PROVE RInv'
    OBVIOUS
  <1>1. CASE \E t \in Threads : \/ BarrierStep(t, Arrive(t))
                               \/ BarrierStep(t, SpuriousWakeup(t))
                               \/ BarrierStep(t, Wake(t))
    BY <1>1, BarrierStepInv
  <1>2. CASE \E c \in Readers : ReaderStep(c) \/ PageArrives(c) \/ WatchdogThread(c)
    BY <1>2, ReaderStepInv
  <1>3. CASE StartTracing
    BY <1>3, StartTracingInv
  <1>4. CASE StartReturns \/ Interrupt \/ Signal \/ Join
    BY <1>4, ControlStepInv
  <1>5. CASE Ended \/ UNCHANGED vars
    <2>1. UNCHANGED <<rpc, cpc, cur, startVars>>
      BY <1>5 DEF Ended, vars, readerVars
    <2>2. IInv'
      BY <2>1, BarrierFrame DEF RInv
    <2>3. UNCHANGED <<pc, started>>
      BY <2>1 DEF startVars, barrierVars
    <2>4. QED
      BY <2>1, <2>2, <2>3 DEF RInv
  <1>6. QED
    BY <1>1, <1>2, <1>3, <1>4, <1>5 DEF Next

\* Every thread has returned from wait() only if all NumCpus + 1 arrived.
LEMMA ThreadsCount == IsFiniteSet(Threads) /\ Cardinality(Threads) = NumCpus + 1
  <1>1. IsFiniteSet(Readers) /\ Cardinality(Readers) = NumCpus
    BY FS_Interval DEF Readers
  <1>2. QED
    BY <1>1, FS_AddElement

LEMMA RInvSafe == RInv => ReadersStartAfterTracingOn
  <1> SUFFICES ASSUME RInv, NEW c \in Readers, rpc[c] # "wait" PROVE started
    BY DEF ReadersStartAfterTracingOn
  <1>1. pc[c] = "done"
    BY DEF RInv
  <1>2. Cardinality(Arrived) >= NumCpus + 1
    BY <1>1 DEF RInv, IInv, ReleaseExact, Readers
  <1>3. Arrived \subseteq Threads
    BY DEF Arrived
  <1>4. Cardinality(Arrived) <= Cardinality(Threads)
        /\ (Cardinality(Threads) = Cardinality(Arrived) => Threads = Arrived)
    BY <1>3, ThreadsCount, FS_Subset
  <1>5. Cardinality(Threads) = Cardinality(Arrived)
    BY <1>2, <1>3, <1>4, ThreadsCount, FS_Subset, FS_CardinalityType
  <1>6. Arrived = Threads
    BY <1>4, <1>5
  <1>7. QED
    BY <1>6 DEF Arrived, RInv

(***************************************************************************)
(* No reader leaves mBarrier->wait() and starts splicing before the        *)
(* control thread of FtraceDriver::start() has written tracing_on: true    *)
(* for every number of cpus, since the barrier releases no one before all  *)
(* NumCpus + 1 participants have arrived.                                  *)
(***************************************************************************)
THEOREM ReadersStartAfterTracingOnProved == Spec => []ReadersStartAfterTracingOn
  <1>1. Init => RInv
    BY InitRInv
  <1>2. RInv /\ [Next]_vars => RInv'
    BY NextRInv
  <1>3. RInv => ReadersStartAfterTracingOn
    BY RInvSafe
  <1>4. QED
    BY <1>1, <1>2, <1>3, PTL DEF Spec

=============================================================================
