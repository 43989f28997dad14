---------------------------- MODULE BarrierProofs ----------------------------
(***************************************************************************)
(* Proofs about the Barrier model for every set of threads, every count    *)
(* and every width of unsigned int.                                        *)
(***************************************************************************)
EXTENDS Barrier, FiniteSetTheorems, TLAPS

(***************************************************************************)
(* ReleaseExact is not inductive: a thread woken while mCount = 0 must     *)
(* know that Count threads have arrived.  That follows from mCount         *)
(* counting down the arrivals exactly, wrapping below 0 as an unsigned     *)
(* int does once more than Count threads arrive.                           *)
(***************************************************************************)
CountTracksArrivals ==
  mCount = IF Cardinality(Arrived) <= Count
             THEN Count - Cardinality(Arrived)
             ELSE UIntMax + 1 + Count - Cardinality(Arrived)

IInv == BarrierTypeOK /\ CountTracksArrivals /\ ReleaseExact

\* The arrivals form a finite set no larger than the set of threads.
LEMMA ArrivedBound ==
  ASSUME BarrierTypeOK
  PROVE  /\ IsFiniteSet(Arrived)
         /\ Cardinality(Arrived) \in Nat
         /\ Cardinality(Arrived) <= Cardinality(Threads)
  BY BarrierAssumption, FS_Subset, FS_CardinalityType DEF Arrived

LEMMA InitIInv == BarrierInit => IInv
  <1> SUFFICES ASSUME BarrierInit PROVE IInv
    OBVIOUS
  <1>1. Arrived = {}
    BY DEF BarrierInit, Arrived
  <1>2. Cardinality(Arrived) = 0
    BY <1>1, FS_EmptySet
  <1>3. QED
    BY <1>2, BarrierAssumption
    DEF BarrierInit, IInv, BarrierTypeOK, CountTracksArrivals, ReleaseExact

LEMMA NextIInv == IInv /\ [BarrierNext]_barrierVars => IInv'
  <1> SUFFICES ASSUME IInv, [BarrierNext]_barrierVars PROVE IInv'
    OBVIOUS
  <1> USE BarrierAssumption
  <1>0. /\ IsFiniteSet(Arrived)
        /\ Cardinality(Arrived) \in Nat
        /\ Cardinality(Arrived) <= Cardinality(Threads)
        /\ Cardinality(Threads) \in Nat
    BY ArrivedBound, FS_CardinalityType DEF IInv
  <1> DEFINE k == Cardinality(Arrived)
  <1> USE DEF k
  <1>1. ASSUME NEW t \in Threads, Arrive(t) PROVE IInv'
    <2>1. Arrived' = Arrived \cup {t} /\ t \notin Arrived
      BY <1>1 DEF Arrive, Arrived, IInv, BarrierTypeOK
    <2>2. Cardinality(Arrived') = k + 1
      BY <2>1, <1>0, FS_AddElement
    <2>3. k + 1 <= Cardinality(Threads)
      BY <2>1, <2>2, FS_Subset, ArrivedBound DEF IInv, BarrierTypeOK, Arrived
    <2>a. mCount' = Decr(mCount)
      BY <1>1 DEF Arrive
    <2>b. k \in Nat /\ Count \in Nat /\ UIntMax \in Nat /\ k + 1 <= UIntMax
      BY <1>0, <2>3
    <2>c. mCount = IF k <= Count THEN Count - k ELSE UIntMax + 1 + Count - k
      BY DEF IInv, CountTracksArrivals
    <2>4. CountTracksArrivals'
      <3> SUFFICES mCount' = IF k + 1 <= Count THEN Count - (k + 1)
                                               ELSE UIntMax + 1 + Count - (k + 1)
        BY <2>2 DEF CountTracksArrivals
      <3>1. CASE k < Count
        BY <3>1, <2>a, <2>b, <2>c DEF Decr
      <3>2. CASE k = Count
        BY <3>2, <2>a, <2>b, <2>c DEF Decr
      <3>3. CASE k > Count
        BY <3>3, <2>a, <2>b, <2>c DEF Decr
      <3>4. QED
        BY <3>1, <3>2, <3>3, <2>b
    <2>5. BarrierTypeOK'
      BY <1>1, <2>4, <2>2, <2>3, <1>0 DEF Arrive, Decr, IInv, BarrierTypeOK, CountTracksArrivals
    <2>6. ReleaseExact'
      BY <1>1, <1>0, <2>2, <2>4 DEF Arrive, IInv, BarrierTypeOK, CountTracksArrivals, ReleaseExact
    <2>7. QED
      BY <2>4, <2>5, <2>6 DEF IInv
  <1>2. ASSUME NEW t \in Threads, SpuriousWakeup(t) PROVE IInv'
    <2>1. Arrived' = Arrived
      BY <1>2 DEF SpuriousWakeup, Arrived
    <2>2. QED
      BY <1>2, <2>1 DEF SpuriousWakeup, IInv, BarrierTypeOK, CountTracksArrivals, ReleaseExact
  <1>3. ASSUME NEW t \in Threads, Wake(t) PROVE IInv'
    <2>1. Arrived' = Arrived
      BY <1>3 DEF Wake, Arrived, IInv, BarrierTypeOK
    <2>2. mCount = 0 => k >= Count
      BY <1>0 DEF IInv, CountTracksArrivals, BarrierTypeOK
    <2>3. QED
      BY <1>3, <2>1, <2>2 DEF Wake, IInv, BarrierTypeOK, CountTracksArrivals, ReleaseExact
  <1>4. CASE UNCHANGED barrierVars
    <2>1. Arrived' = Arrived
      BY <1>4 DEF barrierVars, Arrived
    <2>2. QED
      BY <1>4, <2>1 DEF barrierVars, IInv, BarrierTypeOK, CountTracksArrivals, ReleaseExact
  <1>5. QED
    BY <1>1, <1>2, <1>3, <1>4 DEF BarrierNext

(***************************************************************************)
(* Release exactness of Barrier::wait for every number of participants and *)
(* every count: a thread leaves wait(), by the last arrival's broadcast or *)
(* by a spurious wake-up, only once Count threads have decremented mCount. *)
(***************************************************************************)
THEOREM BarrierReleaseExact == BarrierSpec => []ReleaseExact
  <1>1. BarrierInit => IInv
    BY InitIInv
  <1>2. IInv /\ [BarrierNext]_barrierVars => IInv'
    BY NextIInv
  <1>3. IInv => ReleaseExact
    BY DEF IInv
  <1>4. QED
    BY <1>1, <1>2, <1>3, PTL DEF BarrierSpec

=============================================================================
