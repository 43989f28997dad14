----------------------------- MODULE FifoProofs -----------------------------
(***************************************************************************)
(* Proofs about the Fifo model for every value of its constants.           *)
(***************************************************************************)
EXTENDS Fifo, TLAPS

(***************************************************************************)
(* TypeOK is not inductive by itself: a Write step stores mWrite + length  *)
(* and fills mBuffer[mWrite .. mWrite + length - 1], which stay inside the *)
(* arena only because mWrite is below mWrapThreshold whenever the producer *)
(* fills.  mWrite is at or past the threshold only on the wrap path before *)
(* mWrite = 0 is stored, and then it is wnext; the wrap stores put wnext   *)
(* in mRaggedEnd, which is a ragged end only because wnext >=              *)
(* mWrapThreshold on that path; and the stored byte indices stay below     *)
(* MaxBytes because each non-empty write adds at most SingleBufferSize     *)
(* bytes.                                                                  *)
(***************************************************************************)
WriteBelowThreshold ==
  IF wpc \in {"wrap", "wrapWrite"} THEN mWrite = wnext ELSE mWrite < mWrapThreshold

WrapPathWraps ==
  wpc \in {"wrap", "wrapWrite", "wrapRagged"} => wnext >= mWrapThreshold

BytesWithinWrites == nbytes <= nwritten * SingleBufferSize

\* TypeOK split into its Boolean part, for Zenon, and the rest, for SMT.
TypeBool == mEnd \in BOOLEAN /\ rfinal \in BOOLEAN

TypeRest ==
  /\ mWrite \in BufIdx /\ mRead \in BufIdx /\ mReadCommit \in BufIdx
  /\ mRaggedEnd \in {0} \cup (mWrapThreshold .. (BufferSize + SingleBufferSize - 1))
  /\ mWaitForSpaceSem \in 0 .. SemValueMax /\ readerSem \in 0 .. SemValueMax
  /\ mBuffer \in [BufIdx -> 0 .. MaxBytes]
  /\ wpc \in WriterPcs /\ wnext \in BufIdx /\ wread \in BufIdx /\ wread2 \in BufIdx
  /\ nwritten \in 0 .. MaxWrites /\ nbytes \in 0 .. MaxBytes
  /\ rpc \in ReaderPcs
  /\ received \in Seq(0 .. MaxBytes)

Rest == TypeRest /\ WriteBelowThreshold /\ WrapPathWraps /\ BytesWithinWrites

IInv == TypeBool /\ Rest

LEMMA TypeSplit == TypeOK <=> TypeRest /\ TypeBool
  BY Zenon DEF TypeOK, TypeRest, TypeBool

LEMMA MaxBytesType == MaxBytes \in Nat
  BY SizeAssumption, BoundAssumption DEF MaxBytes

LEMMA MaxWritesBytes ==
  ASSUME NEW n \in 0 .. MaxWrites PROVE n * SingleBufferSize <= MaxBytes
  BY SizeAssumption, BoundAssumption DEF MaxBytes

LEMMA InitIInv == Init => IInv
  <1>1. Init => TypeBool
    BY Zenon DEF Init, TypeBool
  <1>2. Init => BytesWithinWrites
    BY SizeAssumption DEF Init, BytesWithinWrites
  <1>3. Init => Rest
    BY <1>2, SizeAssumption, BoundAssumption, MaxBytesType
    DEF Init, Rest, TypeRest, WriteBelowThreshold, WrapPathWraps,
        BufIdx, mWrapThreshold, WriterPcs, ReaderPcs
  <1>4. QED
    BY <1>1, <1>3 DEF IInv

\* The Boolean fields: mEnd is only ever or-ed with a test, rfinal set to one.
LEMMA NextTypeBool == TypeBool /\ [Next]_vars => TypeBool'
  <1> SUFFICES ASSUME TypeBool, [Next]_vars PROVE TypeBool'
    OBVIOUS
  <1>1. CASE \E length \in WriterLengths : Write(length)
    BY <1>1, Zenon DEF Write, TypeBool, readerVars
  <1>2. CASE ReadRagged \/ ReadWrite
    BY <1>2, Zenon DEF ReadRagged, ReadWrite, CommitLoaded, TypeBool, writerVars
  <1>3. CASE ~(\E length \in WriterLengths : Write(length)) /\ ~(ReadRagged \/ ReadWrite)
    BY <1>3, Zenon
    DEF Next, WriterStep, ReaderStep, TypeBool, vars, fifoVars, writerVars, readerVars,
        WrapStoreRagged, WrapStoreWrite, WrapFinish, PostReader, CheckFull,
        CheckFullCount, CheckFullRagged, WaitForSpace, WaitReader, ReadCheck,
        ReadCheckRagged, ReadCheckEnd, Consume, Release, ReleaseReset,
        ReleaseResetRagged, PostSpace, Finished
  <1>4. QED
    BY <1>1, <1>2, <1>3

LEMMA NextRest == Rest /\ [Next]_vars => Rest'
  <1> SUFFICES ASSUME Rest, [Next]_vars PROVE Rest'
    OBVIOUS
  <1> USE SizeAssumption, BoundAssumption
  <1> USE MaxBytesType
  <1> USE DEF Rest, TypeRest, WriteBelowThreshold, WrapPathWraps,
              BufIdx, mWrapThreshold, WriterPcs, ReaderPcs,
              fifoVars, writerVars, readerVars
  \* The only step that writes bytes is Write; the bound is kept by the others.
  <1>0. nbytes' = nbytes /\ nwritten' = nwritten => BytesWithinWrites'
    BY DEF BytesWithinWrites
  <1>1. ASSUME NEW length \in WriterLengths, Write(length) PROVE Rest'
    <2>1. length \in 0 .. SingleBufferSize /\ (length > 0 => nwritten < MaxWrites)
      BY <1>1 DEF WriterLengths
    <2>2. nbytes + length <= nwritten' * SingleBufferSize
      BY <1>1, <2>1 DEF Write, BytesWithinWrites
    <2>3. nwritten' \in 0 .. MaxWrites
      BY <1>1, <2>1 DEF Write
    <2>4. nwritten' * SingleBufferSize <= MaxBytes
      BY <2>3, MaxWritesBytes
    <2>5. mBuffer' \in [BufIdx -> 0 .. MaxBytes]
      BY <1>1, <2>1, <2>2, <2>4 DEF Write
    <2>6. BytesWithinWrites'
      BY <1>1, <2>2 DEF Write, BytesWithinWrites
    <2>7. QED
      BY <1>1, <2>1, <2>2, <2>3, <2>4, <2>5, <2>6 DEF Write, Wraps
  <1>2. CASE WrapStoreRagged
    BY <1>2, <1>0 DEF WrapStoreRagged
  <1>3. CASE WrapStoreWrite
    BY <1>3, <1>0 DEF WrapStoreWrite
  <1>4. CASE WrapFinish
    <2>1. /\ wpc' = "post"
          /\ UNCHANGED <<mRead, mReadCommit, mEnd, mWaitForSpaceSem, readerSem,
                         mBuffer, wnext, wread, wread2, nwritten, nbytes, rpc,
                         rfinal, received>>
      BY <1>4 DEF WrapFinish
    <2>2. CASE wpc = "wrapWrite"
      <3>1. mWrite' = 0 /\ mRaggedEnd' = mRaggedEnd
        BY <1>4, <2>2 DEF WrapFinish
      <3>2. QED
        BY <2>1, <3>1, <1>0
    <2>3. CASE wpc = "wrapRagged"
      <3>1. mRaggedEnd' = wnext /\ mWrite' = mWrite
        BY <1>4, <2>3 DEF WrapFinish
      <3>2. QED
        BY <2>1, <2>3, <3>1, <1>0
    <2>4. QED
      BY <1>4, <2>2, <2>3 DEF WrapFinish
  <1>5. CASE PostReader
    BY <1>5, <1>0 DEF PostReader, SemPost
  <1>6. CASE CheckFull \/ CheckFullCount \/ CheckFullRagged
    <2>1. CASE CheckFull
      BY <2>1, <1>0 DEF CheckFull
    <2>2. CASE CheckFullCount
      BY <2>2, <1>0 DEF CheckFullCount
    <2>3. CASE CheckFullRagged
      BY <2>3, <1>0 DEF CheckFullRagged
    <2>4. QED
      BY <1>6, <2>1, <2>2, <2>3
  <1>7. CASE WaitForSpace
    BY <1>7, <1>0 DEF WaitForSpace
  <1>8. CASE WaitReader
    BY <1>8, <1>0 DEF WaitReader
  <1>9. CASE ReadCheck \/ ReadCheckRagged \/ ReadCheckEnd
    BY <1>9, <1>0 DEF ReadCheck, ReadCheckRagged, ReadCheckEnd
  <1>10. CASE ReadRagged
    BY <1>10, <1>0 DEF ReadRagged, CommitLoaded
  <1>11. CASE ReadWrite
    BY <1>11, <1>0 DEF ReadWrite, CommitLoaded
  <1>12. CASE Consume
    <2> DEFINE span == [j \in 1 .. (mReadCommit - mRead) |-> mBuffer[mRead + j - 1]]
    <2>1. span \in Seq(0 .. MaxBytes)
      OBVIOUS
    <2>2. received' = received \o span
      BY <1>12 DEF Consume
    <2>3. received' \in Seq(0 .. MaxBytes)
      BY <2>1, <2>2
    <2>4. QED
      BY <1>12, <1>0, <2>3 DEF Consume
  <1>13. CASE Release
    BY <1>13, <1>0 DEF Release
  <1>14. CASE ReleaseReset
    BY <1>14, <1>0 DEF ReleaseReset
  <1>15. CASE ReleaseResetRagged
    BY <1>15, <1>0 DEF ReleaseResetRagged
  <1>16. CASE PostSpace
    BY <1>16, <1>0 DEF PostSpace, SemPost
  <1>17. CASE Finished \/ UNCHANGED vars
    BY <1>17, <1>0 DEF Finished, vars, fifoVars, writerVars, readerVars
  <1>18. QED
    BY <1>1, <1>2, <1>3, <1>4, <1>5, <1>6, <1>7, <1>8, <1>9, <1>10, <1>11,
       <1>12, <1>13, <1>14, <1>15, <1>16, <1>17
    DEF Next, WriterStep, ReaderStep

LEMMA NextIInv == IInv /\ [Next]_vars => IInv'
  BY NextTypeBool, NextRest DEF IInv

(***************************************************************************)
(* Type correctness of the Fifo: every cursor stays inside the arena of    *)
(* bufferSize + singleBufferSize bytes, mRaggedEnd is 0 or a wrap point,   *)
(* and the semaphores stay within their range, for every size of the      *)
(* buffer and every store order of the wrap-around.                        *)
(***************************************************************************)
THEOREM TypeCorrect == Spec => []TypeOK
  <1>1. Init => IInv
    BY InitIInv
  <1>2. IInv /\ [Next]_vars => IInv'
    BY NextIInv
  <1>3. IInv => TypeOK
    BY TypeSplit DEF IInv, Rest
  <1>4. QED
    BY <1>1, <1>2, <1>3, PTL DEF Spec

=============================================================================
