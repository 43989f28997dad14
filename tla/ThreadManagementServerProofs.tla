-------------------- MODULE ThreadManagementServerProofs --------------------
(***************************************************************************)
(* Proofs about the ThreadManagementServer model for every set of sessions *)
(* and every bound on the capture calls.                                   *)
(***************************************************************************)
EXTENDS ThreadManagementServer, TLAPS

(***************************************************************************)
(* SessionsFollowCapture is inductive once the session the acceptor holds  *)
(* is known to be a session, and the vector to hold sessions only.         *)
(***************************************************************************)
PendingIsSession == apc = "got" => pending \in Sessions

IInv ==
  /\ mThreads \subseteq Sessions
  /\ capture \in [Sessions -> BOOLEAN]
  /\ mEnabled \in BOOLEAN
  /\ PendingIsSession
  /\ SessionsFollowCapture

LEMMA InitIInv == Init => IInv
  BY DEF Init, IInv, PendingIsSession, SessionsFollowCapture

LEMMA NextIInv == IInv /\ [Next]_vars => IInv'
  <1> SUFFICES ASSUME IInv, [Next]_vars PROVE IInv'
    OBVIOUS
  <1> USE DEF IInv, PendingIsSession, SessionsFollowCapture
  <1>1. ASSUME NEW on \in BOOLEAN, SetCapture(on) PROVE IInv'
    BY <1>1 DEF SetCapture
  <1>2. CASE CallStop \/ InterruptAcceptor \/ JoinAcceptor \/ CloseThreads
             \/ StopNotify \/ JoinReaper
    BY <1>2 DEF CallStop, InterruptAcceptor, JoinAcceptor, CloseThreads,
                StopNotify, JoinReaper
  <1>3. ASSUME NEW s \in Sessions, Accept(s) PROVE IInv'
    BY <1>3 DEF Accept
  <1>4. CASE AcceptNull
    BY <1>4 DEF AcceptNull
  \* The acceptor reads mEnabled under the mutex for the session it registers.
  <1>5. CASE Register
    BY <1>5 DEF Register, CaptureOnRegister
  <1>6. ASSUME NEW s \in Sessions,
               ReadLoopEnds(s) \/ SetDone(s) \/ SessionNotify(s)
        PROVE IInv'
    BY <1>6 DEF ReadLoopEnds, SetDone, SessionNotify
  <1>7. CASE ReaperLock \/ ReaperCheck \/ SpuriousWakeup
    BY <1>7 DEF ReaperLock, ReaperCheck, SpuriousWakeup
  <1>8. ASSUME NEW s \in Sessions, ReaperVisit(s) PROVE IInv'
    BY <1>8 DEF ReaperVisit
  <1>9. CASE Ended \/ UNCHANGED vars
    BY <1>9 DEF Ended, vars
  <1>10. QED
    BY <1>1, <1>2, <1>3, <1>4, <1>5, <1>6, <1>7, <1>8, <1>9
    DEF Next, Control, Acceptor, Reaper

(***************************************************************************)
(* Every session in mThreads has capture enabled exactly when the server   *)
(* has, whatever the order of accepts, startCapture and stopCapture calls, *)
(* for every number of sessions.                                           *)
(***************************************************************************)
THEOREM TmsSessionsFollowCapture == Spec => []SessionsFollowCapture
  <1>1. Init => IInv
    BY InitIInv
  <1>2. IInv /\ [Next]_vars => IInv'
    BY NextIInv
  <1>3. IInv => SessionsFollowCapture
    BY DEF IInv
  <1>4. QED
    BY <1>1, <1>2, <1>3, PTL DEF Spec

(***************************************************************************)
(* ThreadsJoinedOnReturn rests on four facts: a session between its        *)
(* acceptance and its join is in the vector; the acceptor has exited once  *)
(* stop() is past joining it, so the vector cannot grow after mDone; the   *)
(* reaper exits only with mDone set and the vector empty; and stop()       *)
(* returns, or mIsRunning is false, only after the reaper has exited.      *)
(***************************************************************************)
LiveInVector == \A s \in Sessions : spc[s] \notin {"new", "joined"} => s \in mThreads

AcceptorGone ==
  /\ cpc \in {"close", "notify", "joinReaper", "returned"} => apc = "exited"
  /\ mDone => apc = "exited"

ReaperExitClean == rpc = "exited" => mDone /\ mThreads = {}

ReturnAfterReaper ==
  /\ cpc = "returned" => rpc = "exited"
  /\ ~mIsRunning => rpc = "exited"

JInv ==
  /\ spc \in [Sessions -> {"new", "reading", "ended", "notify", "finished", "joined"}]
  /\ mThreads \subseteq Sessions
  /\ PendingIsSession
  /\ apc = "got" => spc[pending] = "new"
  /\ LiveInVector /\ AcceptorGone /\ ReaperExitClean /\ ReturnAfterReaper

LEMMA InitJInv == Init => JInv
  BY DEF Init, JInv, PendingIsSession, LiveInVector, AcceptorGone,
         ReaperExitClean, ReturnAfterReaper

LEMMA NextJInv == JInv /\ [Next]_vars => JInv'
  <1> SUFFICES ASSUME JInv, [Next]_vars PROVE JInv'
    OBVIOUS
  <1> USE DEF JInv, PendingIsSession, LiveInVector, AcceptorGone,
              ReaperExitClean, ReturnAfterReaper
  <1>1. ASSUME NEW on \in BOOLEAN, SetCapture(on) PROVE JInv'
    BY <1>1 DEF SetCapture
  <1>2. CASE CallStop
    BY <1>2 DEF CallStop
  <1>3. CASE InterruptAcceptor \/ JoinAcceptor \/ CloseThreads \/ JoinReaper
    BY <1>3 DEF InterruptAcceptor, JoinAcceptor, CloseThreads, JoinReaper
  <1>4. CASE StopNotify
    BY <1>4 DEF StopNotify, NotifyAll
  <1>5. ASSUME NEW s \in Sessions, Accept(s) PROVE JInv'
    BY <1>5 DEF Accept
  <1>6. CASE AcceptNull
    BY <1>6 DEF AcceptNull
  \* Register runs only while the acceptor is alive, so before mDone.
  <1>7. CASE Register
    BY <1>7 DEF Register
  <1>8. ASSUME NEW s \in Sessions, ReadLoopEnds(s) \/ SetDone(s) PROVE JInv'
    BY <1>8 DEF ReadLoopEnds, SetDone
  <1>9. ASSUME NEW s \in Sessions, SessionNotify(s) PROVE JInv'
    BY <1>9 DEF SessionNotify, NotifyAll
  <1>10. CASE ReaperLock \/ SpuriousWakeup
    BY <1>10 DEF ReaperLock, SpuriousWakeup
  \* The reaper leaves its loop only when the loop test fails.
  <1>11. CASE ReaperCheck
    BY <1>11 DEF ReaperCheck, ReaperLoops
  \* A joined session leaves the vector together.
  <1>12. ASSUME NEW s \in Sessions, ReaperVisit(s) PROVE JInv'
    BY <1>12 DEF ReaperVisit
  <1>13. CASE Ended \/ UNCHANGED vars
    BY <1>13 DEF Ended, vars
  <1>14. QED
    BY <1>1, <1>2, <1>3, <1>4, <1>5, <1>6, <1>7, <1>8, <1>9, <1>10, <1>11,
       <1>12, <1>13
    DEF Next, Control, Acceptor, Reaper

(***************************************************************************)
(* When stop() returns, the thread of every accepted session has been      *)
(* joined by the reaper, for every number of sessions: no joinable         *)
(* std::thread is left in mThreads.                                        *)
(***************************************************************************)
THEOREM TmsThreadsJoinedOnReturn == Spec => []ThreadsJoinedOnReturn
  <1>1. Init => JInv
    BY InitJInv
  <1>2. JInv /\ [Next]_vars => JInv'
    BY NextJInv
  <1>3. JInv => ThreadsJoinedOnReturn
    BY DEF JInv, LiveInVector, ReturnAfterReaper, ReaperExitClean, ThreadsJoinedOnReturn
  <1>4. QED
    BY <1>1, <1>2, <1>3, PTL DEF Spec

=============================================================================
