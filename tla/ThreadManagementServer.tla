----------------------- MODULE ThreadManagementServer -----------------------
(***************************************************************************)
(* armnn::ThreadManagementServer (armnn/ThreadManagementServer.cpp): an    *)
(* acceptor thread that accepts Arm NN sessions and starts one thread per  *)
(* session, a reaper thread that joins the session threads whose read loop *)
(* has ended, and the control thread's startCapture, stopCapture and stop. *)
(*                                                                         *)
(* mMutex guards mThreads, mEnabled, mDone and each session's done flag.   *)
(* Every critical section except the reaper's is short and never blocks,   *)
(* so it is one step taken when the reaper does not hold the mutex.  The   *)
(* reaper holds it across removeCompletedThreads, whose thread->join()     *)
(* blocks, and gives it up only inside mSessionDiedCV.wait.  The wait set  *)
(* of mSessionDiedCV has at most the reaper in it (rpc = "wait").          *)
(*                                                                         *)
(* A session is a model value; the ISession and IAcceptor implementations  *)
(* are not in the sources: runReadLoop may return at any time (the client  *)
(* went away) and must return after close(); accept() returns a new       *)
(* session or null, and null for good once interrupt() was called.  The    *)
(* members' initial values (mIsRunning true, mEnabled and mDone false) are *)
(* the header's.                                                           *)
(***************************************************************************)
EXTENDS Naturals, FiniteSets

CONSTANTS
  Sessions,        \* the sessions accept() may return
  NoSession,       \* no session in hand
  MaxCaptureCalls  \* bound on the startCapture/stopCapture calls before stop

ASSUME TmsAssumption ==
  /\ IsFiniteSet(Sessions) /\ NoSession \notin Sessions
  /\ MaxCaptureCalls \in Nat

VARIABLES
  mEnabled, mDone, mIsRunning,
  mThreads,     \* the sessions in the vector mThreads
  done,         \* *ThreadData::done of each session
  spc,          \* each session thread: "new" (not accepted) ... "joined"
  capture,      \* TRUE after enableCapture(), FALSE after disableCapture()
  closed,       \* close() was called on the session
  apc,          \* acceptor thread: "accept", "got" (accept returned) or "exited"
  pending,      \* the session accept() returned, not yet registered
  interrupted,  \* mAcceptor->interrupt() was called
  rpc,          \* reaper thread: "lock", "remove", "wait" or "exited"
  toVisit,      \* the entries removeCompletedThreads has still to visit
  cpc,          \* control thread: "running", then the steps of stop()
  calls         \* startCapture/stopCapture calls made

vars == <<mEnabled, mDone, mIsRunning, mThreads, done, spc, capture, closed,
          apc, pending, interrupted, rpc, toVisit, cpc, calls>>

\* The reaper holds mMutex from its lock to its wait or exit.
Locked == rpc = "remove"

Init ==
  /\ mEnabled = FALSE /\ mDone = FALSE /\ mIsRunning = TRUE
  /\ mThreads = {}
  /\ done = [s \in Sessions |-> FALSE]
  /\ spc = [s \in Sessions |-> "new"]
  /\ capture = [s \in Sessions |-> FALSE]
  /\ closed = [s \in Sessions |-> FALSE]
  /\ apc = "accept" /\ pending = NoSession /\ interrupted = FALSE
  /\ rpc = "lock" /\ toVisit = {}
  /\ cpc = "running" /\ calls = 0

\* Variant of mSessionDiedCV.notify_all() that wakes nobody.
NotifyNone == rpc

\* mSessionDiedCV.notify_all(): the reaper, if it waits, wants the mutex back.
NotifyAll == IF rpc = "wait" THEN "lock" ELSE rpc

-----------------------------------------------------------------------------
(* Control thread *)

\* startCapture() / stopCapture(): under the mutex, set every session and mEnabled.
SetCapture(on) ==
  /\ cpc = "running" /\ ~Locked /\ calls < MaxCaptureCalls
  /\ capture' = [s \in Sessions |-> IF s \in mThreads THEN on ELSE capture[s]]
  /\ mEnabled' = on
  /\ calls' = calls + 1
  /\ UNCHANGED <<mDone, mIsRunning, mThreads, done, spc, closed, apc, pending,
                 interrupted, rpc, toVisit, cpc>>

\* stop(), called once capture is stopped, as its assert(!mEnabled) demands.
CallStop ==
  /\ cpc = "running" /\ ~mEnabled
  /\ cpc' = IF mIsRunning THEN "interrupt" ELSE "returned"
  /\ UNCHANGED <<mEnabled, mDone, mIsRunning, mThreads, done, spc, capture,
                 closed, apc, pending, interrupted, rpc, toVisit, calls>>

InterruptAcceptor ==
  /\ cpc = "interrupt"
  /\ interrupted' = TRUE
  /\ cpc' = "joinAcceptor"
  /\ UNCHANGED <<mEnabled, mDone, mIsRunning, mThreads, done, spc, capture,
                 closed, apc, pending, rpc, toVisit, calls>>

JoinAcceptor ==
  /\ cpc = "joinAcceptor" /\ apc = "exited"
  /\ cpc' = "close"
  /\ UNCHANGED <<mEnabled, mDone, mIsRunning, mThreads, done, spc, capture,
                 closed, apc, pending, interrupted, rpc, toVisit, calls>>

\* Under the mutex: closeThreads(), then mDone = true.
CloseThreads ==
  /\ cpc = "close" /\ ~Locked
  /\ closed' = [s \in Sessions |-> closed[s] \/ s \in mThreads]
  /\ mDone' = TRUE
  /\ cpc' = "notify"
  /\ UNCHANGED <<mEnabled, mIsRunning, mThreads, done, spc, capture, apc,
                 pending, interrupted, rpc, toVisit, calls>>

StopNotify ==
  /\ cpc = "notify"
  /\ rpc' = NotifyAll
  /\ cpc' = "joinReaper"
  /\ UNCHANGED <<mEnabled, mDone, mIsRunning, mThreads, done, spc, capture,
                 closed, apc, pending, interrupted, toVisit, calls>>

JoinReaper ==
  /\ cpc = "joinReaper" /\ rpc = "exited"
  /\ mIsRunning' = FALSE
  /\ cpc' = "returned"
  /\ UNCHANGED <<mEnabled, mDone, mThreads, done, spc, capture, closed, apc,
                 pending, interrupted, rpc, toVisit, calls>>

-----------------------------------------------------------------------------
(* Acceptor thread: acceptLoop() *)

Accept(s) ==
  /\ apc = "accept" /\ ~interrupted /\ spc[s] = "new" /\ s # pending
  /\ apc' = "got" /\ pending' = s
  /\ UNCHANGED <<mEnabled, mDone, mIsRunning, mThreads, done, spc, capture,
                 closed, interrupted, rpc, toVisit, cpc, calls>>

\* accept() returns null: after interrupt(), or on an error of the acceptor.
AcceptNull ==
  /\ apc = "accept"
  /\ apc' = "exited"
  /\ UNCHANGED <<mEnabled, mDone, mIsRunning, mThreads, done, spc, capture,
                 closed, pending, interrupted, rpc, toVisit, cpc, calls>>

\* Variant that leaves every new session's capture disabled.
CaptureOnRegisterOff(on) == FALSE

\* if (mEnabled) enableCapture() else disableCapture(), read under the mutex.
CaptureOnRegister(on) == on

\* Under the lock_guard: set the capture, start the thread, push the ThreadData.
Register ==
  /\ apc = "got" /\ ~Locked
  /\ capture' = [capture EXCEPT ![pending] = CaptureOnRegister(mEnabled)]
  /\ spc' = [spc EXCEPT ![pending] = "reading"]
  /\ mThreads' = mThreads \cup {pending}
  /\ apc' = "accept" /\ pending' = NoSession
  /\ UNCHANGED <<mEnabled, mDone, mIsRunning, done, closed, interrupted, rpc,
                 toVisit, cpc, calls>>

-----------------------------------------------------------------------------
(* Session threads: runIndividualThread() *)

\* session.runReadLoop() returns.
ReadLoopEnds(s) ==
  /\ spc[s] = "reading"
  /\ spc' = [spc EXCEPT ![s] = "ended"]
  /\ UNCHANGED <<mEnabled, mDone, mIsRunning, mThreads, done, capture, closed,
                 apc, pending, interrupted, rpc, toVisit, cpc, calls>>

SetDone(s) ==
  /\ spc[s] = "ended" /\ ~Locked
  /\ done' = [done EXCEPT ![s] = TRUE]
  /\ spc' = [spc EXCEPT ![s] = "notify"]
  /\ UNCHANGED <<mEnabled, mDone, mIsRunning, mThreads, capture, closed, apc,
                 pending, interrupted, rpc, toVisit, cpc, calls>>

\* notify_all, after which the thread function returns.
SessionNotify(s) ==
  /\ spc[s] = "notify"
  /\ rpc' = NotifyAll
  /\ spc' = [spc EXCEPT ![s] = "finished"]
  /\ UNCHANGED <<mEnabled, mDone, mIsRunning, mThreads, done, capture, closed,
                 apc, pending, interrupted, toVisit, cpc, calls>>

-----------------------------------------------------------------------------
(* Reaper thread: reaperLoop() and removeCompletedThreads() *)

\* Take the mutex (first, or back from wait) and start removeCompletedThreads.
ReaperLock ==
  /\ rpc = "lock"
  /\ rpc' = "remove"
  /\ toVisit' = mThreads
  /\ UNCHANGED <<mEnabled, mDone, mIsRunning, mThreads, done, spc, capture,
                 closed, apc, pending, interrupted, cpc, calls>>

\* A done entry: thread->join(), which returns once the thread has ended,
\* then erase.  An entry not done is skipped.  (The vector is walked in its
\* order; the outcome does not depend on it, as no done flag can change
\* while the reaper holds the mutex.)
ReaperVisit(s) ==
  /\ rpc = "remove" /\ s \in toVisit
  /\ toVisit' = toVisit \ {s}
  /\ IF done[s]
       THEN /\ spc[s] = "finished"
            /\ spc' = [spc EXCEPT ![s] = "joined"]
            /\ mThreads' = mThreads \ {s}
       ELSE UNCHANGED <<spc, mThreads>>
  /\ UNCHANGED <<mEnabled, mDone, mIsRunning, done, capture, closed, apc,
                 pending, interrupted, rpc, cpc, calls>>

\* Variant of the loop test that forgets the threads still in the vector.
ReaperLoopsUntilDone == ~mDone

\* while (!mDone || !mThreads.empty())
ReaperLoops == ~mDone \/ mThreads # {}

\* The loop test: wait on mSessionDiedCV (releasing the mutex), or return.
ReaperCheck ==
  /\ rpc = "remove" /\ toVisit = {}
  /\ rpc' = IF ReaperLoops THEN "wait" ELSE "exited"
  /\ UNCHANGED <<mEnabled, mDone, mIsRunning, mThreads, done, spc, capture,
                 closed, apc, pending, interrupted, toVisit, cpc, calls>>

\* mSessionDiedCV.wait may return with no notify.
SpuriousWakeup ==
  /\ rpc = "wait"
  /\ rpc' = "lock"
  /\ UNCHANGED <<mEnabled, mDone, mIsRunning, mThreads, done, spc, capture,
                 closed, apc, pending, interrupted, toVisit, cpc, calls>>

\* stop() has returned.
Ended ==
  /\ cpc = "returned"
  /\ UNCHANGED vars

Control ==
  \/ \E on \in BOOLEAN : SetCapture(on)
  \/ CallStop \/ InterruptAcceptor \/ JoinAcceptor \/ CloseThreads
  \/ StopNotify \/ JoinReaper

Acceptor == \/ \E s \in Sessions : Accept(s)
            \/ AcceptNull \/ Register

Reaper == ReaperLock \/ (\E s \in Sessions : ReaperVisit(s)) \/ ReaperCheck

Next ==
  \/ Control \/ Acceptor \/ Reaper
  \/ \E s \in Sessions : ReadLoopEnds(s) \/ SetDone(s) \/ SessionNotify(s)
  \/ SpuriousWakeup
  \/ Ended

(***************************************************************************)
(* Every thread runs when it can.  The control thread may stay in the      *)
(* "running" state (the capture goes on), but once it calls stop() it      *)
(* makes progress.  accept() must return null once interrupted, and        *)
(* runReadLoop must return once the session is closed; before that they    *)
(* may block for good.  Spurious wake-ups never have to happen, but may    *)
(* happen again and again, each time taking the mutex; a thread blocked on *)
(* mMutex is still granted it in the end, which is strong fairness on the  *)
(* steps that take the mutex while the reaper may hold it.                 *)
(***************************************************************************)
Fairness ==
  /\ WF_vars(InterruptAcceptor \/ JoinAcceptor \/ StopNotify \/ JoinReaper)
  /\ SF_vars(CloseThreads) /\ SF_vars(Register)
  /\ WF_vars(interrupted /\ AcceptNull)
  /\ WF_vars(Reaper)
  /\ \A s \in Sessions :
       /\ WF_vars(closed[s] /\ ReadLoopEnds(s))
       /\ SF_vars(SetDone(s)) /\ WF_vars(SessionNotify(s))

Spec == Init /\ [][Next]_vars /\ Fairness

-----------------------------------------------------------------------------

TypeOK ==
  /\ mEnabled \in BOOLEAN /\ mDone \in BOOLEAN /\ mIsRunning \in BOOLEAN
  /\ interrupted \in BOOLEAN
  /\ mThreads \subseteq Sessions /\ toVisit \subseteq mThreads
  /\ done \in [Sessions -> BOOLEAN] /\ capture \in [Sessions -> BOOLEAN]
  /\ closed \in [Sessions -> BOOLEAN]
  /\ spc \in [Sessions -> {"new", "reading", "ended", "notify", "finished", "joined"}]
  /\ apc \in {"accept", "got", "exited"} /\ pending \in Sessions \cup {NoSession}
  /\ rpc \in {"lock", "remove", "wait", "exited"}
  /\ cpc \in {"running", "interrupt", "joinAcceptor", "close", "notify",
              "joinReaper", "returned"}
  /\ calls \in 0 .. MaxCaptureCalls

(***************************************************************************)
(* Every session in the vector has capture enabled exactly when the server *)
(* has: a session accepted while startCapture or stopCapture runs still    *)
(* gets the setting the server ends up with.                               *)
(***************************************************************************)
SessionsFollowCapture == \A s \in mThreads : capture[s] = mEnabled

(***************************************************************************)
(* When stop() returns, the thread of every accepted session has been      *)
(* joined: none is left in mThreads, where destroying a joinable           *)
(* std::thread would call std::terminate.                                  *)
(***************************************************************************)
ThreadsJoinedOnReturn ==
  cpc = "returned" => \A s \in Sessions : spc[s] \in {"new", "joined"}

(***************************************************************************)
(* A call of stop() returns: the acceptor ends, every session closes and   *)
(* ends, and the reaper, woken by the last notify, sees mDone and an empty *)
(* vector.                                                                 *)
(***************************************************************************)
StopReturns == cpc = "interrupt" ~> cpc = "returned"

=============================================================================
