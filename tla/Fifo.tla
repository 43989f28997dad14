-------------------------------- MODULE Fifo --------------------------------
(***************************************************************************)
(* The single-producer/single-consumer byte buffer of gatord               *)
(* (src/daemon/Fifo.cpp, class Fifo).                                      *)
(*                                                                         *)
(* Two threads share the object with no lock: the writer calls             *)
(* write(length) after filling the region the previous call returned, the  *)
(* consumer calls read(&length), uses the span and calls release().  The   *)
(* cursors mWrite, mRead, mRaggedEnd and the flag mEnd are plain fields    *)
(* shared by both threads, so every load and store of one of them by the   *)
(* other thread's side is a step of its own here, in the order the source  *)
(* performs it; mReadCommit is the consumer's alone, and the chained reset *)
(* of release() stores it with mRead.  The two sem_t are counters.         *)
(*                                                                         *)
(* Data is abstracted to the index of each byte in the stream: the k-th    *)
(* byte the producer ever writes holds the value k.  The consumer appends  *)
(* what it finds in its span to the history variable received, so a lost,  *)
(* duplicated, reordered or overwritten byte shows up in received.         *)
(*                                                                         *)
(* The update "mWrite += length; if (mWrite >= mWrapThreshold)             *)
(* { mRaggedEnd = mWrite; mWrite = 0; }" races with the consumer's loads   *)
(* (a data race: nothing orders the stores, so the compiler and the CPU    *)
(* may make the two wrap stores visible in either order).  The store of    *)
(* mWrite + length is visible before the wrap, and WrapOrders is the set   *)
(* of orders in which the two wrap stores may become visible:              *)
(* "raggedFirst" (source order) and "writeFirst"; the code as built allows *)
(* both.                                                                   *)
(***************************************************************************)
EXTENDS Naturals, Sequences

CONSTANTS
  SingleBufferSize,       \* constructor argument singleBufferSize
  BufferSize,             \* constructor argument bufferSize = mWrapThreshold
  MaxWrites,              \* bound: number of non-empty writes the producer makes
  SemValueMax,            \* bound: SEM_VALUE_MAX, where sem_post saturates
  WrapOrders              \* orders in which the wrap's two stores become visible

ASSUME SizeAssumption ==
  /\ SingleBufferSize \in Nat \ {0}
  /\ BufferSize \in Nat
  /\ BufferSize > SingleBufferSize
ASSUME BoundAssumption == MaxWrites \in Nat /\ SemValueMax \in Nat \ {0}
ASSUME BuildAssumption ==
  WrapOrders \in (SUBSET {"raggedFirst", "writeFirst"}) \ {{}}

VARIABLES
  mWrite, mRead, mReadCommit, mRaggedEnd, mEnd,  \* the Fifo's fields
  mWaitForSpaceSem,   \* value of the semaphore the writer waits on
  readerSem,          \* value of the semaphore given as readerSem
  mBuffer,            \* byte offset -> stream index of the byte stored there
  wpc,                \* writer thread: where it is in write()
  wnext,              \* writer's value of mWrite + length
  wread,              \* willFill's load of mRead for the test mWrite > mRead
  wread2,             \* numBytesFilled's load of mRead
  nwritten,           \* number of non-empty writes made
  nbytes,             \* number of bytes the producer has written
  rpc,                \* consumer thread: where it is in read()/release()
  rfinal,             \* the span being handled is the empty one after mEnd
  received            \* history: the bytes the consumer has handled, in order

fifoVars == <<mWrite, mRead, mReadCommit, mRaggedEnd, mEnd>>
writerVars == <<wpc, wnext, wread, wread2, nwritten, nbytes>>
readerVars == <<rpc, rfinal, received>>
vars == <<fifoVars, mWaitForSpaceSem, readerSem, mBuffer, writerVars, readerVars>>

mWrapThreshold == BufferSize

\* The arena: new char[bufferSize + singleBufferSize].
BufIdx == 0 .. (BufferSize + SingleBufferSize - 1)

MaxBytes == MaxWrites * SingleBufferSize

(***************************************************************************)
(* Fifo::numBytesFilled and Fifo::willFill(0), i.e. isFull, for a given    *)
(* view of the cursors.                                                    *)
(***************************************************************************)
NumBytesFilled(w, r, ragged) == w - r + ragged

\* willFill(0): the test loads mRead as r, numBytesFilled() is filled.
IsFull(w, r, filled) ==
  IF w > r THEN ~(filled < mWrapThreshold)
           ELSE ~(filled < mWrapThreshold - SingleBufferSize)

\* Variant that wraps only past the threshold.
WrapsLate(next) == next > mWrapThreshold

\* if (mWrite >= mWrapThreshold): the advanced cursor must wrap.
Wraps(next) == next >= mWrapThreshold

\* sem_post: fails with EOVERFLOW, leaving the value, once it is SEM_VALUE_MAX.
SemPost(v) == IF v < SemValueMax THEN v + 1 ELSE v

Init ==
  /\ mWrite = 0 /\ mRead = 0 /\ mReadCommit = 0 /\ mRaggedEnd = 0
  /\ mEnd = FALSE
  /\ mWaitForSpaceSem = 0
  /\ readerSem = 0
  /\ mBuffer = [i \in BufIdx |-> 0]
  /\ wpc = "write" /\ wnext = 0 /\ wread = 0 /\ wread2 = 0
  /\ nwritten = 0 /\ nbytes = 0
  /\ rpc = "wait" /\ rfinal = FALSE /\ received = << >>

-----------------------------------------------------------------------------
(* Writer thread                                                           *)

(***************************************************************************)
(* The producer has filled length bytes at &mBuffer[mWrite] and calls      *)
(* write(length); length <= 0 ends the stream.  The step sets mEnd, stores  *)
(* mWrite += length, and tests whether the new value wraps.                *)
(***************************************************************************)
Write(length) ==
  LET next == mWrite + length IN
  /\ wpc = "write"
  /\ mBuffer' = [i \in BufIdx |->
                   IF mWrite <= i /\ i < next THEN nbytes + (i - mWrite) + 1
                                              ELSE mBuffer[i]]
  /\ nbytes' = nbytes + length
  /\ nwritten' = IF length > 0 THEN nwritten + 1 ELSE nwritten
  /\ mEnd' = (mEnd \/ length = 0)
  /\ wnext' = next
  /\ mWrite' = next
  /\ wpc' = IF Wraps(next) THEN "wrap" ELSE "post"
  /\ UNCHANGED <<mRead, mReadCommit, mRaggedEnd, mWaitForSpaceSem, readerSem,
                 wread, wread2, readerVars>>

(***************************************************************************)
(* The wrap-around: mRaggedEnd = mWrite; mWrite = 0.  The first of the two *)
(* stores to become visible to the consumer.                               *)
(***************************************************************************)
WrapStoreRagged ==
  /\ wpc = "wrap"
  /\ "raggedFirst" \in WrapOrders
  /\ mRaggedEnd' = wnext
  /\ wpc' = "wrapWrite"
  /\ UNCHANGED <<mWrite, mRead, mReadCommit, mEnd, mWaitForSpaceSem, readerSem,
                 mBuffer, wnext, wread, wread2, nwritten, nbytes, readerVars>>

WrapStoreWrite ==
  /\ wpc = "wrap"
  /\ "writeFirst" \in WrapOrders
  /\ mWrite' = 0
  /\ wpc' = "wrapRagged"
  /\ UNCHANGED <<mRead, mReadCommit, mRaggedEnd, mEnd, mWaitForSpaceSem, readerSem,
                 mBuffer, wnext, wread, wread2, nwritten, nbytes, readerVars>>

\* The second of the two wrap stores.
WrapFinish ==
  /\ \/ /\ wpc = "wrapWrite"
        /\ mWrite' = 0
        /\ UNCHANGED mRaggedEnd
     \/ /\ wpc = "wrapRagged"
        /\ mRaggedEnd' = wnext
        /\ UNCHANGED mWrite
  /\ wpc' = "post"
  /\ UNCHANGED <<mRead, mReadCommit, mEnd, mWaitForSpaceSem, readerSem,
                 mBuffer, wnext, wread, wread2, nwritten, nbytes, readerVars>>

\* sem_post(mReaderSem): data is ready.
PostReader ==
  /\ wpc = "post"
  /\ readerSem' = SemPost(readerSem)
  /\ wpc' = "full"
  /\ UNCHANGED <<fifoVars, mWaitForSpaceSem, mBuffer, wnext, wread, wread2,
                 nwritten, nbytes, readerVars>>

(***************************************************************************)
(* while (isFull()) sem_wait(&mWaitForSpaceSem); return &mBuffer[mWrite]. *)
(* willFill(0) loads the consumer's mRead for its test, loads it again in *)
(* numBytesFilled() and then mRaggedEnd; a build that loads mRead once is  *)
(* the case where the consumer takes no step between the first two loads.  *)
(* When the test fails, write() returns and the producer fills the next    *)
(* region, or stops after the write that ended the stream.                 *)
(***************************************************************************)
CheckFull ==
  /\ wpc = "full"
  /\ wread' = mRead
  /\ wpc' = "fullCount"
  /\ UNCHANGED <<fifoVars, mWaitForSpaceSem, readerSem, mBuffer, wnext, wread2,
                 nwritten, nbytes, readerVars>>

CheckFullCount ==
  /\ wpc = "fullCount"
  /\ wread2' = mRead
  /\ wpc' = "fullRagged"
  /\ UNCHANGED <<fifoVars, mWaitForSpaceSem, readerSem, mBuffer, wnext, wread,
                 nwritten, nbytes, readerVars>>

CheckFullRagged ==
  /\ wpc = "fullRagged"
  /\ wpc' = IF IsFull(mWrite, wread, NumBytesFilled(mWrite, wread2, mRaggedEnd))
               THEN "wait"
             ELSE IF mEnd THEN "done" ELSE "write"
  /\ UNCHANGED <<fifoVars, mWaitForSpaceSem, readerSem, mBuffer, wnext, wread, wread2,
                 nwritten, nbytes, readerVars>>

WaitForSpace ==
  /\ wpc = "wait"
  /\ mWaitForSpaceSem > 0
  /\ mWaitForSpaceSem' = mWaitForSpaceSem - 1
  /\ wpc' = "full"
  /\ UNCHANGED <<fifoVars, readerSem, mBuffer, wnext, wread, wread2, nwritten, nbytes, readerVars>>

-----------------------------------------------------------------------------
(* Consumer thread                                                         *)

(***************************************************************************)
(* The consumer sleeps on readerSem and, once woken, calls read() until it *)
(* returns null, handling and releasing each span it gets.                 *)
(***************************************************************************)
WaitReader ==
  /\ rpc = "wait"
  /\ readerSem > 0
  /\ readerSem' = readerSem - 1
  /\ rpc' = "read"
  /\ UNCHANGED <<fifoVars, mWaitForSpaceSem, mBuffer, writerVars, rfinal, received>>

(***************************************************************************)
(* read(): if (isEmpty() && !mEnd) return nullptr;  isEmpty() is           *)
(* mRead == mWrite && mRaggedEnd == 0: the writer's mWrite, mRaggedEnd and *)
(* mEnd are loaded one at a time, each only when the test needs it.        *)
(***************************************************************************)
ReadCheck ==
  /\ rpc = "read"
  /\ rpc' = IF mRead = mWrite THEN "readRagged" ELSE "length"
  /\ UNCHANGED <<fifoVars, mWaitForSpaceSem, readerSem, mBuffer, writerVars,
                 rfinal, received>>

ReadCheckRagged ==
  /\ rpc = "readRagged"
  /\ rpc' = IF mRaggedEnd = 0 THEN "readEnd" ELSE "length"
  /\ UNCHANGED <<fifoVars, mWaitForSpaceSem, readerSem, mBuffer, writerVars,
                 rfinal, received>>

ReadCheckEnd ==
  /\ rpc = "readEnd"
  /\ rpc' = IF mEnd THEN "length" ELSE "wait"
  /\ UNCHANGED <<fifoVars, mWaitForSpaceSem, readerSem, mBuffer, writerVars,
                 rfinal, received>>

(***************************************************************************)
(* One pass of the loop                                                    *)
(*   do { mReadCommit = mRaggedEnd != 0 ? mRaggedEnd : mWrite;             *)
(*        length = mReadCommit - mRead; } while (length < 0);             *)
(* ReadRagged loads mRaggedEnd; when it is 0, ReadWrite loads mWrite.      *)
(***************************************************************************)
CommitLoaded(commit) ==
  /\ mReadCommit' = commit
  /\ rpc' = IF commit - mRead < 0 THEN "length" ELSE "consume"
  /\ rfinal' = (commit - mRead = 0 /\ mEnd)

\* Variant of the length read that never looks at mRaggedEnd.
ReadRaggedSkipped ==
  /\ rpc = "length"
  /\ rpc' = "lengthWrite"
  /\ UNCHANGED <<mWrite, mRead, mRaggedEnd, mEnd, mWaitForSpaceSem, readerSem,
                 mBuffer, writerVars, received, mReadCommit, rfinal>>

ReadRagged ==
  /\ rpc = "length"
  /\ IF mRaggedEnd # 0
       THEN CommitLoaded(mRaggedEnd)
       ELSE /\ rpc' = "lengthWrite"
            /\ UNCHANGED <<mReadCommit, rfinal>>
  /\ UNCHANGED <<mWrite, mRead, mRaggedEnd, mEnd, mWaitForSpaceSem, readerSem,
                 mBuffer, writerVars, received>>

ReadWrite ==
  /\ rpc = "lengthWrite"
  /\ CommitLoaded(mWrite)
  /\ UNCHANGED <<mWrite, mRead, mRaggedEnd, mEnd, mWaitForSpaceSem, readerSem,
                 mBuffer, writerVars, received>>

\* The consumer handles the span [mRead, mReadCommit) that read() returned.
Consume ==
  /\ rpc = "consume"
  /\ received' = received \o [j \in 1 .. (mReadCommit - mRead) |-> mBuffer[mRead + j - 1]]
  /\ rpc' = "release"
  /\ UNCHANGED <<fifoVars, mWaitForSpaceSem, readerSem, mBuffer, writerVars, rfinal>>

\* release(): mRead = mReadCommit;
Release ==
  /\ rpc = "release"
  /\ mRead' = mReadCommit
  /\ rpc' = IF mReadCommit >= mWrapThreshold THEN "reset" ELSE "post"
  /\ UNCHANGED <<mWrite, mReadCommit, mRaggedEnd, mEnd, mWaitForSpaceSem, readerSem,
                 mBuffer, writerVars, rfinal, received>>

(***************************************************************************)
(* if (mRead >= mWrapThreshold) mRaggedEnd = mRead = mReadCommit = 0;      *)
(* The chained assignment stores mReadCommit and mRead, then mRaggedEnd.   *)
(***************************************************************************)
ReleaseReset ==
  /\ rpc = "reset"
  /\ mReadCommit' = 0
  /\ mRead' = 0
  /\ rpc' = "resetRagged"
  /\ UNCHANGED <<mWrite, mRaggedEnd, mEnd, mWaitForSpaceSem, readerSem,
                 mBuffer, writerVars, rfinal, received>>

ReleaseResetRagged ==
  /\ rpc = "resetRagged"
  /\ mRaggedEnd' = 0
  /\ rpc' = "post"
  /\ UNCHANGED <<mWrite, mRead, mReadCommit, mEnd, mWaitForSpaceSem, readerSem,
                 mBuffer, writerVars, rfinal, received>>

(***************************************************************************)
(* sem_post(&mWaitForSpaceSem), then back to read(); the consumer stops    *)
(* after releasing the empty span read() returns once the stream ended.    *)
(***************************************************************************)
PostSpace ==
  /\ rpc = "post"
  /\ mWaitForSpaceSem' = SemPost(mWaitForSpaceSem)
  /\ rpc' = IF rfinal THEN "done" ELSE "read"
  /\ UNCHANGED <<fifoVars, readerSem, mBuffer, writerVars, rfinal, received>>

-----------------------------------------------------------------------------

\* Both threads have finished: the stream ended and was drained.
Finished ==
  /\ wpc = "done" /\ rpc = "done"
  /\ UNCHANGED vars

WriterLengths ==
  IF nwritten < MaxWrites THEN 0 .. SingleBufferSize ELSE {0}

WriterStep ==
  \/ \E length \in WriterLengths : Write(length)
  \/ WrapStoreRagged \/ WrapStoreWrite \/ WrapFinish
  \/ PostReader \/ CheckFull \/ CheckFullCount \/ CheckFullRagged \/ WaitForSpace

ReaderStep ==
  \/ WaitReader \/ ReadCheck \/ ReadCheckRagged \/ ReadCheckEnd \/ ReadRagged \/ ReadWrite
  \/ Consume \/ Release \/ ReleaseReset \/ ReleaseResetRagged \/ PostSpace

Next == WriterStep \/ ReaderStep \/ Finished

(***************************************************************************)
(* Both are operating-system threads, so each step of write() and of the   *)
(* consumer loop that stays enabled is eventually taken.  The producer is  *)
(* not obliged to write: Write has no fairness.                            *)
(***************************************************************************)
Fairness ==
  /\ WF_vars(WrapStoreRagged \/ WrapStoreWrite \/ WrapFinish)
  /\ WF_vars(PostReader) /\ WF_vars(WaitForSpace)
  /\ WF_vars(CheckFull \/ CheckFullCount \/ CheckFullRagged)
  /\ WF_vars(ReaderStep)

Spec == Init /\ [][Next]_vars /\ Fairness

-----------------------------------------------------------------------------
(* Properties                                                              *)

WriterPcs == {"write", "wrap", "wrapWrite", "wrapRagged", "post", "full", "fullCount",
              "fullRagged", "wait", "done"}
ReaderPcs == {"wait", "read", "readRagged", "readEnd", "length", "lengthWrite", "consume", "release",
              "reset", "resetRagged", "post", "done"}

TypeOK ==
  /\ mWrite \in BufIdx /\ mRead \in BufIdx /\ mReadCommit \in BufIdx
  /\ mRaggedEnd \in {0} \cup (mWrapThreshold .. (BufferSize + SingleBufferSize - 1))
  /\ mEnd \in BOOLEAN
  /\ mWaitForSpaceSem \in 0 .. SemValueMax /\ readerSem \in 0 .. SemValueMax
  /\ mBuffer \in [BufIdx -> 0 .. MaxBytes]
  /\ wpc \in WriterPcs /\ wnext \in BufIdx /\ wread \in BufIdx /\ wread2 \in BufIdx
  /\ nwritten \in 0 .. MaxWrites /\ nbytes \in 0 .. MaxBytes
  /\ rpc \in ReaderPcs /\ rfinal \in BOOLEAN
  /\ received \in Seq(0 .. MaxBytes)

(***************************************************************************)
(* The consumer gets the stream exactly as the producer wrote it: the j-th *)
(* byte it handles is the j-th byte written.  Violated if read() hands out *)
(* a span twice, skips one, or returns bytes write() has overwritten.      *)
(***************************************************************************)
ReceivedInOrder == \A j \in 1 .. Len(received) : received[j] = j

(***************************************************************************)
(* A writer blocked in write() on mWaitForSpaceSem is eventually let go:   *)
(* release() always frees the space isFull() waits for.                    *)
(***************************************************************************)
WriterNeverStuck == (wpc = "wait") ~> (wpc \in {"write", "done"})

=============================================================================
