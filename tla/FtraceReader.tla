---------------------------- MODULE FtraceReader ----------------------------
(***************************************************************************)
(* The per-CPU trace readers of FtraceDriver.cpp (class FtraceReader) and  *)
(* the control thread's shutdown of them in FtraceDriver::stop().          *)
(*                                                                         *)
(* Each reader thread, once past the start barrier, splices pages from its *)
(* CPU's trace_pipe_raw (mTfd) into its pipe (mPfd1) while                 *)
(* mSessionIsActive holds.  stop() clears the flag and sends SIGUSR1 to    *)
(* every reader on the list, then joins them.  An interrupted reader sets  *)
(* mTfd non-blocking, starts a detached watchdog thread, drains what is    *)
(* left, clears isStuck and closes mTfd and mPfd1.  The watchdog, after    *)
(* its timeout, closes both fds and sends SIGKILL if isStuck is still set. *)
(*                                                                         *)
(* Readers and the control thread meet first at the start barrier        *)
(* (module Barrier): prepare() arms it with init(mNumberOfCores + 1), each *)
(* reader waits on it before its first splice, and start() waits on it    *)
(* after writing 1 to tracing_on.                                          *)
(*                                                                         *)
(* Trace data is not modelled: a splice either moves a page or finds none. *)
(* The kernel may also never return from a splice (an uninterruptible      *)
(* wait, deaf to signals), in the loops the constant HangsIn names.        *)
(* Timing is not modelled: the watchdog's timeout may end at any point.    *)
(***************************************************************************)
EXTENDS Naturals, Barrier

CONSTANTS
  NumCpus,        \* mNumberOfCores: one reader per CPU
  HangsIn,        \* the splice loops, "splice" and/or "drain", that may block for good
  Main            \* the control thread, as a participant of mBarrier

\* The reader created for CPU c.  Each constructor pushes the reader on the
\* front of the process-wide list mHead, so stop() walks it from the last
\* CPU down to CPU 0.
Readers == 0 .. (NumCpus - 1)

\* mBarrier's participants are the readers and the control thread, and
\* prepare() arms it with init(mNumberOfCores + 1).
ASSUME ReaderAssumption ==
  /\ NumCpus \in Nat \ {0}
  /\ HangsIn \subseteq {"splice", "drain"}
  /\ Main \notin Readers
  /\ Threads = Readers \cup {Main}
  /\ Count = NumCpus + 1

VARIABLES
  active,     \* mSessionIsActive of each reader
  rpc,        \* where each reader thread is in run()
  isStuck,    \* *isStuck, shared by a reader and its watchdog
  wpc,        \* where each reader's watchdog thread is
  tfdCloses,  \* close() calls made on each reader's mTfd
  pfdCloses,  \* close() calls made on each reader's mPfd1
  alive,      \* the daemon process has not been terminated
  cpc,        \* where the control thread is in stop()
  cur,        \* the reader stop() is at in its current loop over mHead
  started     \* start() has written 1 to tracing_on

readerVars == <<active, rpc, isStuck, wpc, tfdCloses, pfdCloses>>
startVars == <<barrierVars, started>>
vars == <<readerVars, alive, cpc, cur, startVars>>

ReaderPcs == {"wait", "loop", "splice", "blocked", "hung", "arm", "drain", "slop",
              "clear", "closeT", "closeP", "done"}
WatchdogPcs == {"none", "sleep", "closeT", "closeP", "kill", "done"}
ControlPcs == {"start", "barrier", "interrupt", "signal", "join", "returned"}

\* The readers have been started and reach mBarrier->wait(), their fds
\* open; the control thread is about to call start().
Init ==
  /\ BarrierInit
  /\ started = FALSE
  /\ active = [c \in Readers |-> TRUE]
  /\ rpc = [c \in Readers |-> "wait"]
  /\ isStuck = [c \in Readers |-> FALSE]
  /\ wpc = [c \in Readers |-> "none"]
  /\ tfdCloses = [c \in Readers |-> 0]
  /\ pfdCloses = [c \in Readers |-> 0]
  /\ alive = TRUE
  /\ cpc = "start"
  /\ cur = NumCpus - 1

\* A step of reader thread c that changes only its pc.
Goto(c, from, to) ==
  /\ alive
  /\ rpc[c] = from
  /\ rpc' = [rpc EXCEPT ![c] = to]
  /\ UNCHANGED <<startVars, active, isStuck, wpc, tfdCloses, pfdCloses, alive, cpc, cur>>

(***************************************************************************)
(* mBarrier->wait() in thread t, a reader at the top of run() or the       *)
(* control thread in start(): a step A of Barrier::wait, with the rest of  *)
(* the process unchanged.                                                  *)
(***************************************************************************)
AtBarrier(t) ==
  \/ t = Main /\ cpc = "barrier"
  \/ t \in Readers /\ rpc[t] = "wait"

BarrierStep(t, A) ==
  /\ alive
  /\ AtBarrier(t)
  /\ A
  /\ UNCHANGED <<readerVars, alive, cpc, cur, started>>

\* Variant of a reader that enters its splice loop without waiting.
LeaveBarrierEarly(c) == Goto(c, "wait", "loop")

\* mBarrier->wait() has returned in reader c: it enters the splice loop.
LeaveBarrier(c) == pc[c] = "done" /\ Goto(c, "wait", "loop")

\* Variant whose loop test never sees the flag cleared, as when a plain bool
\* load is hoisted out of the loop.
TestActiveHoisted(c) == Goto(c, "loop", "splice")

\* while (mSessionIsActive)
TestActive(c) == Goto(c, "loop", IF active[c] THEN "splice" ELSE "arm")

(***************************************************************************)
(* splice(mTfd, ..., mPfd1, ..., pageSize, SPLICE_F_MOVE) on the blocking  *)
(* fd: it moves a page, or sleeps until a page comes or a signal arrives,  *)
(* or (where the kernel may hang) never returns.                           *)
(***************************************************************************)
Splice(c) ==
  \/ Goto(c, "splice", "loop")
  \/ Goto(c, "splice", "blocked")
  \/ "splice" \in HangsIn /\ Goto(c, "splice", "hung")

\* A page arrives while splice sleeps; it returns pageSize.
PageArrives(c) == Goto(c, "blocked", "loop")

(***************************************************************************)
(* lib::setNonblock(mTfd), then isStuck = true and the watchdog thread is  *)
(* created and detached.                                                   *)
(***************************************************************************)
ArmWatchdog(c) ==
  /\ alive
  /\ rpc[c] = "arm"
  /\ rpc' = [rpc EXCEPT ![c] = "drain"]
  /\ isStuck' = [isStuck EXCEPT ![c] = TRUE]
  /\ wpc' = [wpc EXCEPT ![c] = "sleep"]
  /\ UNCHANGED <<startVars, active, tfdCloses, pfdCloses, alive, cpc, cur>>

(***************************************************************************)
(* The drain loop: non-blocking splices until one returns <= 0 (no data,   *)
(* or mTfd already closed by the watchdog).  The pages it moves change no  *)
(* modelled state; where the kernel may hang, a splice never returns.      *)
(***************************************************************************)
Drain(c) ==
  \/ Goto(c, "drain", "slop")
  \/ "drain" \in HangsIn /\ Goto(c, "drain", "hung")

(***************************************************************************)
(* The slop loop: read(mTfd) until EAGAIN.  On a mTfd the watchdog has     *)
(* closed, read fails with EBADF, not EAGAIN, and handleException() ends   *)
(* the daemon.                                                             *)
(***************************************************************************)
Slop(c) ==
  /\ alive
  /\ rpc[c] = "slop"
  /\ IF tfdCloses[c] > 0
       THEN /\ alive' = FALSE
            /\ UNCHANGED rpc
       ELSE /\ rpc' = [rpc EXCEPT ![c] = "clear"]
            /\ UNCHANGED alive
  /\ UNCHANGED <<startVars, active, isStuck, wpc, tfdCloses, pfdCloses, cpc, cur>>

\* *isStuck = false: the watchdog is disarmed.
ClearStuck(c) ==
  /\ alive
  /\ rpc[c] = "clear"
  /\ rpc' = [rpc EXCEPT ![c] = "closeT"]
  /\ isStuck' = [isStuck EXCEPT ![c] = FALSE]
  /\ UNCHANGED <<startVars, active, wpc, tfdCloses, pfdCloses, alive, cpc, cur>>

\* close(mTfd); close(mPfd1); and run() returns.
ReaderCloseTfd(c) ==
  /\ alive
  /\ rpc[c] = "closeT"
  /\ rpc' = [rpc EXCEPT ![c] = "closeP"]
  /\ tfdCloses' = [tfdCloses EXCEPT ![c] = @ + 1]
  /\ UNCHANGED <<startVars, active, isStuck, wpc, pfdCloses, alive, cpc, cur>>

ReaderClosePfd(c) ==
  /\ alive
  /\ rpc[c] = "closeP"
  /\ rpc' = [rpc EXCEPT ![c] = "done"]
  /\ pfdCloses' = [pfdCloses EXCEPT ![c] = @ + 1]
  /\ UNCHANGED <<startVars, active, isStuck, wpc, tfdCloses, alive, cpc, cur>>

(***************************************************************************)
(* The watchdog lambda: after sleep_for(FTRACE_TIMEOUT), if *isStuck      *)
(* close(mTfd); close(mPfd1); pthread_kill(mThread, SIGKILL).  SIGKILL     *)
(* cannot be caught and terminates the whole process, not one thread.      *)
(***************************************************************************)
WatchdogStep(c, from, to) ==
  /\ alive
  /\ wpc[c] = from
  /\ wpc' = [wpc EXCEPT ![c] = to]

WatchdogFire(c) ==
  /\ WatchdogStep(c, "sleep", IF isStuck[c] THEN "closeT" ELSE "done")
  /\ UNCHANGED <<startVars, active, rpc, isStuck, tfdCloses, pfdCloses, alive, cpc, cur>>

WatchdogCloseTfd(c) ==
  /\ WatchdogStep(c, "closeT", "closeP")
  /\ tfdCloses' = [tfdCloses EXCEPT ![c] = @ + 1]
  /\ UNCHANGED <<startVars, active, rpc, isStuck, pfdCloses, alive, cpc, cur>>

WatchdogClosePfd(c) ==
  /\ WatchdogStep(c, "closeP", "kill")
  /\ pfdCloses' = [pfdCloses EXCEPT ![c] = @ + 1]
  /\ UNCHANGED <<startVars, active, rpc, isStuck, tfdCloses, alive, cpc, cur>>

WatchdogKill(c) ==
  /\ WatchdogStep(c, "kill", "done")
  /\ alive' = FALSE
  /\ UNCHANGED <<startVars, active, rpc, isStuck, tfdCloses, pfdCloses, cpc, cur>>

-----------------------------------------------------------------------------
(***************************************************************************)
(* FtraceDriver::start() in raw mode: writeCStringToFile(tracing_on, "1"), *)
(* then mBarrier.wait(); start() returns once the barrier has released the *)
(* control thread, and the capture runs until stop().                     *)
(***************************************************************************)
StartTracing ==
  /\ alive
  /\ cpc = "start"
  /\ started' = TRUE
  /\ cpc' = "barrier"
  /\ UNCHANGED <<readerVars, alive, cur, barrierVars>>

StartReturns ==
  /\ alive
  /\ cpc = "barrier"
  /\ pc[Main] = "done"
  /\ cpc' = "interrupt"
  /\ UNCHANGED <<readerVars, alive, cur, startVars>>

(***************************************************************************)
(* FtraceDriver::stop() in raw mode: for each reader on mHead,             *)
(* interrupt() (mSessionIsActive = false; pthread_kill(mThread, SIGUSR1)), *)
(* then for each reader on mHead, join().                                  *)
(***************************************************************************)
\* The list position after cur, and the loop that follows the last one.
NextOnList == IF cur = 0 THEN NumCpus - 1 ELSE cur - 1

Interrupt ==
  /\ alive
  /\ cpc = "interrupt"
  /\ active' = [active EXCEPT ![cur] = FALSE]
  /\ cpc' = "signal"
  /\ UNCHANGED <<startVars, rpc, isStuck, wpc, tfdCloses, pfdCloses, alive, cur>>

(***************************************************************************)
(* SIGUSR1 runs the empty handlerUsr1 in the reader.  Installed without    *)
(* SA_RESTART, it makes a splice asleep in the kernel return EINTR; at any *)
(* other point of the reader it has no effect.                             *)
(***************************************************************************)
Signal ==
  /\ alive
  /\ cpc = "signal"
  /\ rpc' = IF rpc[cur] = "blocked" THEN [rpc EXCEPT ![cur] = "loop"] ELSE rpc
  /\ cpc' = IF cur = 0 THEN "join" ELSE "interrupt"
  /\ cur' = NextOnList
  /\ UNCHANGED <<startVars, active, isStuck, wpc, tfdCloses, pfdCloses, alive>>

\* pthread_join returns once the reader thread has left run().
Join ==
  /\ alive
  /\ cpc = "join"
  /\ rpc[cur] = "done"
  /\ cpc' = IF cur = 0 THEN "returned" ELSE "join"
  /\ cur' = NextOnList
  /\ UNCHANGED <<startVars, readerVars, alive>>

\* The daemon has been terminated, or stop() returned and every watchdog ended.
Ended ==
  /\ \/ ~alive
     \/ cpc = "returned" /\ \A c \in Readers : wpc[c] = "done"
  /\ UNCHANGED vars

ReaderStep(c) ==
  \/ LeaveBarrier(c) \/ TestActive(c) \/ Splice(c) \/ ArmWatchdog(c) \/ Drain(c) \/ Slop(c)
  \/ ClearStuck(c) \/ ReaderCloseTfd(c) \/ ReaderClosePfd(c)

WatchdogThread(c) ==
  WatchdogFire(c) \/ WatchdogCloseTfd(c) \/ WatchdogClosePfd(c) \/ WatchdogKill(c)

Next ==
  \/ \E t \in Threads : \/ BarrierStep(t, Arrive(t))
                       \/ BarrierStep(t, SpuriousWakeup(t))
                       \/ BarrierStep(t, Wake(t))
  \/ \E c \in Readers : ReaderStep(c) \/ PageArrives(c) \/ WatchdogThread(c)
  \/ StartTracing \/ StartReturns
  \/ Interrupt \/ Signal \/ Join
  \/ Ended

(***************************************************************************)
(* Every thread is an OS thread that runs when it can: the readers, the    *)
(* watchdogs (whose sleep always ends) and the control thread.  No page    *)
(* ever has to arrive: after stop() restores tracing_on a CPU may produce  *)
(* no more trace data.                                                     *)
(***************************************************************************)
Fairness ==
  /\ \A t \in Threads : WF_vars(BarrierStep(t, Arrive(t))) /\ WF_vars(BarrierStep(t, Wake(t)))
  /\ \A c \in Readers : WF_vars(ReaderStep(c)) /\ WF_vars(WatchdogThread(c))
  /\ WF_vars(StartTracing \/ StartReturns \/ Interrupt \/ Signal \/ Join)

Spec == Init /\ [][Next]_vars /\ Fairness

-----------------------------------------------------------------------------

TypeOK ==
  /\ active \in [Readers -> BOOLEAN]
  /\ rpc \in [Readers -> ReaderPcs]
  /\ isStuck \in [Readers -> BOOLEAN]
  /\ wpc \in [Readers -> WatchdogPcs]
  /\ tfdCloses \in [Readers -> 0 .. 2]
  /\ pfdCloses \in [Readers -> 0 .. 2]
  /\ alive \in BOOLEAN
  /\ cpc \in ControlPcs
  /\ cur \in Readers
  /\ started \in BOOLEAN
  /\ BarrierTypeOK

(***************************************************************************)
(* Forced-shutdown bound (spec section 8): a reader that has seen          *)
(* mSessionIsActive cleared leaves run(), or the daemon is terminated:     *)
(* however the kernel behaves, the drain, the watchdog and the SIGKILL     *)
(* leave no interrupted reader running for good.                           *)
(***************************************************************************)
InterruptedReaderEnds ==
  \A c \in Readers :
    (~active[c] /\ rpc[c] = "loop") ~> (rpc[c] = "done" \/ ~alive)

(***************************************************************************)
(* stop() returns, or the daemon is terminated (spec sections 4.3 and 5:   *)
(* the two-phase cancellation bounds the time stop() takes).               *)
(***************************************************************************)
StopReturns == <>(cpc = "returned" \/ ~alive)

(***************************************************************************)
(* Each of mTfd and mPfd1 is closed once (spec section 9: the watchdog     *)
(* must not close a descriptor its reader has already closed).             *)
(***************************************************************************)
FdClosedOnce == \A c \in Readers : tfdCloses[c] <= 1 /\ pfdCloses[c] <= 1

(***************************************************************************)
(* Readers start with tracing on (spec section 4.4: start() synchronises   *)
(* the engine's start with every reader's first transfer): no reader       *)
(* leaves mBarrier->wait() for its splice loop before start() has written  *)
(* 1 to tracing_on, because the barrier counts the control thread, which   *)
(* arrives only after that write, among its NumCpus + 1 participants.      *)
(***************************************************************************)
ReadersStartAfterTracingOn == \A c \in Readers : rpc[c] # "wait" => started

(***************************************************************************)
(* Every reader gets past the start barrier (spec section 8, end-to-end    *)
(* scenario: start() makes every reader begin transferring), unless gatord *)
(* has been killed first: the last of the NumCpus + 1 arrivals broadcasts  *)
(* to every thread blocked in pthread_cond_wait.                           *)
(***************************************************************************)
EveryReaderStarts == <>(~alive \/ \A c \in Readers : rpc[c] # "wait")

=============================================================================
