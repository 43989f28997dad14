------------------------------ MODULE Barrier -------------------------------
(***************************************************************************)
(* The StartBarrier of FtraceDriver.cpp (class Barrier): init(count) sets  *)
(* the unsigned mCount; wait() locks mMutex, decrements mCount, and either *)
(* broadcasts mCond when the count reaches 0 or waits on mCond, looping    *)
(* while mCount is not 0 to guard against spurious wake-ups.               *)
(*                                                                         *)
(* Every access to mCount is made with mMutex held, and pthread_cond_wait  *)
(* releases the mutex and joins the wait set atomically, so each critical  *)
(* section is one step and the mutex needs no variable of its own.  The    *)
(* condition variable is the set condWaiters of threads blocked in         *)
(* pthread_cond_wait; a thread that has left it (by a broadcast or a       *)
(* spurious wake-up) runs again once it takes the mutex back.              *)
(***************************************************************************)
EXTENDS Naturals, FiniteSets

CONSTANTS
  Threads,   \* the threads that call wait()
  Count,     \* the argument of init(count)
  UIntMax    \* the largest unsigned int of the build

ASSUME BarrierAssumption ==
  /\ IsFiniteSet(Threads)
  /\ UIntMax \in Nat \ {0}
  /\ Count \in 0 .. UIntMax
  /\ Cardinality(Threads) <= UIntMax

VARIABLES
  mCount,       \* Barrier::mCount
  condWaiters,  \* threads blocked in pthread_cond_wait(&mCond, &mMutex)
  pc            \* "idle" before wait(), "sleep" inside its loop, "done" after

barrierVars == <<mCount, condWaiters, pc>>

\* The threads that have called wait(), i.e. decremented mCount.
Arrived == {t \in Threads : pc[t] # "idle"}

\* mCount-- on an unsigned int: 0 wraps to the largest value.
Decr(c) == IF c = 0 THEN UIntMax ELSE c - 1

\* init(count) happens before the threads are started.
BarrierInit ==
  /\ mCount = Count
  /\ condWaiters = {}
  /\ pc = [t \in Threads |-> "idle"]

\* Variant of wait() whose last arrival forgets pthread_cond_broadcast.
ArriveNoBroadcast(t) ==
  /\ pc[t] = "idle"
  /\ mCount' = Decr(mCount)
  /\ condWaiters' = IF mCount' = 0 THEN condWaiters ELSE condWaiters \cup {t}
  /\ pc' = [pc EXCEPT ![t] = IF mCount' = 0 THEN "done" ELSE "sleep"]

(***************************************************************************)
(* wait(), up to the first pthread_cond_wait: decrement, then either       *)
(* broadcast and unlock, or block on mCond (which releases the mutex).     *)
(***************************************************************************)
Arrive(t) ==
  /\ pc[t] = "idle"
  /\ mCount' = Decr(mCount)
  /\ IF mCount' = 0
       THEN /\ condWaiters' = {}
            /\ pc' = [pc EXCEPT ![t] = "done"]
       ELSE /\ condWaiters' = condWaiters \cup {t}
            /\ pc' = [pc EXCEPT ![t] = "sleep"]

\* pthread_cond_wait may return with no broadcast at all.
SpuriousWakeup(t) ==
  /\ t \in condWaiters
  /\ condWaiters' = condWaiters \ {t}
  /\ UNCHANGED <<mCount, pc>>

\* Variant of the wake-up that leaves the loop without testing mCount.
WakeNoRecheck(t) ==
  /\ pc[t] = "sleep"
  /\ t \notin condWaiters
  /\ pc' = [pc EXCEPT ![t] = "done"]
  /\ UNCHANGED <<mCount, condWaiters>>

(***************************************************************************)
(* pthread_cond_wait returns with the mutex held: if (mCount <= 0) break,  *)
(* which for the unsigned mCount is mCount = 0; otherwise wait again.      *)
(***************************************************************************)
Wake(t) ==
  /\ pc[t] = "sleep"
  /\ t \notin condWaiters
  /\ IF mCount = 0
       THEN /\ pc' = [pc EXCEPT ![t] = "done"]
            /\ UNCHANGED condWaiters
       ELSE /\ condWaiters' = condWaiters \cup {t}
            /\ UNCHANGED pc
  /\ UNCHANGED mCount

BarrierNext == \E t \in Threads : Arrive(t) \/ SpuriousWakeup(t) \/ Wake(t)

(***************************************************************************)
(* Each participant is a thread that calls wait() and is scheduled when it *)
(* can run.  A spurious wake-up may happen but never has to.               *)
(***************************************************************************)
BarrierFairness == \A t \in Threads : WF_barrierVars(Arrive(t)) /\ WF_barrierVars(Wake(t))

BarrierSpec == BarrierInit /\ [][BarrierNext]_barrierVars /\ BarrierFairness

-----------------------------------------------------------------------------

BarrierTypeOK ==
  /\ mCount \in 0 .. UIntMax
  /\ condWaiters \subseteq Threads
  /\ pc \in [Threads -> {"idle", "sleep", "done"}]

(***************************************************************************)
(* Release exactness (spec section 8): no thread returns from wait(), on a *)
(* broadcast or a spurious wake-up, before Count threads have called it.   *)
(***************************************************************************)
ReleaseExact == \A t \in Threads : pc[t] = "done" => Cardinality(Arrived) >= Count

=============================================================================
