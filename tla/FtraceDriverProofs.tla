------------------------- MODULE FtraceDriverProofs -------------------------
(***************************************************************************)
(* Proofs about the FtraceDriver model for every value of its constants.   *)
(***************************************************************************)
EXTENDS FtraceDriver, TLAPS

(***************************************************************************)
(* TracingOnRestored is not inductive: stop() writes back mTracingOn, so   *)
(* the invariant needs that, while a session is open, mTracingOn holds the *)
(* tracing_on value prepare() found, and that no session exists before     *)
(* readEvents.                                                             *)
(***************************************************************************)
SavedWhileOpen == dpc \in {"prepared", "started"} => mTracingOn = savedTracingOn

NoSessionUnread == dpc = "unread" => session = 0

IInv == SavedWhileOpen /\ NoSessionUnread /\ TracingOnRestored

LEMMA InitIInv == Init => IInv
  BY DEF Init, IInv, SavedWhileOpen, NoSessionUnread, TracingOnRestored

LEMMA NextIInv == IInv /\ [Next]_vars => IInv'
  <1> SUFFICES ASSUME IInv, [Next]_vars PROVE IInv'
    OBVIOUS
  <1> USE DEF IInv, SavedWhileOpen, NoSessionUnread, TracingOnRestored
  <1>1. CASE ReadEvents
    BY <1>1 DEF ReadEvents
  <1>2. ASSUME NEW en \in SUBSET (1 .. Len(counters)), Prepare(en) PROVE IInv'
    <2> DEFINE bad == {i \in en : counters[i] = None}
    <2> USE DEF bad
    <2>1. CASE Raw /\ bad # {}
      <3>1. dpc' = "exited" /\ UNCHANGED <<session, tracingOn, savedTracingOn>>
        BY <1>2, <2>1 DEF Prepare
      <3>2. QED
        BY <3>1
    <2>2. CASE ~(Raw /\ bad # {})
      <3>1. /\ dpc' = "prepared"
            /\ mTracingOn' = tracingOn
            /\ savedTracingOn' = tracingOn
        BY <1>2, <2>2 DEF Prepare, ReadTracingOn
      <3>2. QED
        BY <3>1
    <2>3. QED
      BY <2>1, <2>2
  <1>3. CASE Start
    BY <1>3 DEF Start
  <1>4. CASE Stop
    BY <1>4 DEF Stop
  <1>5. CASE Ended \/ UNCHANGED vars
    BY <1>5 DEF Ended, vars
  <1>6. QED
    BY <1>1, <1>2, <1>3, <1>4, <1>5 DEF Next

(***************************************************************************)
(* tracing_on is restored by every stop(): after each session the file     *)
(* holds the value prepare() read, for every number of cpus, counters and  *)
(* sessions, in text and in raw mode.                                      *)
(***************************************************************************)
THEOREM DriverTracingOnRestored == Spec => []TracingOnRestored
  <1>1. Init => IInv
    BY InitIInv
  <1>2. IInv /\ [Next]_vars => IInv'
    BY NextIInv
  <1>3. IInv => TracingOnRestored
    BY DEF IInv
  <1>4. QED
    BY <1>1, <1>2, <1>3, PTL DEF Spec

-----------------------------------------------------------------------------
(***************************************************************************)
(* The counters readEvents registers have distinct enable files: each is a *)
(* tracepoint path or none, and no two counters share a path.  Two events  *)
(* of the XML on one tracepoint break it (driver_shared_enable).           *)
(***************************************************************************)
DistinctEnableFiles ==
  /\ Registered \in Seq(Paths \cup {None})
  /\ \A i, j \in 1 .. Len(Registered) :
       i # j /\ Registered[i] # None => Registered[i] # Registered[j]

\* The counter list is such a list once readEvents has built it.
CountersDistinct ==
  /\ counters \in Seq(Paths \cup {None})
  /\ \A i, j \in 1 .. Len(counters) :
       i # j /\ counters[i] # None => counters[i] # counters[j]

\* The session's counters are counters of the list; none before readEvents.
EnabledFits ==
  /\ isEnabled \subseteq 1 .. Len(counters)
  /\ dpc = "unread" => isEnabled = {} /\ session = 0

(***************************************************************************)
(* While a session is open, each enabled counter's mWasEnabled holds the   *)
(* enable file as prepare() found it: what stop() writes back.             *)
(***************************************************************************)
SavedEnable ==
  dpc \in {"prepared", "started"} =>
    \A i \in WithEnable(isEnabled) : mWasEnabled[i] = savedEnable[counters[i]]

RInv == CountersDistinct /\ EnabledFits /\ SavedEnable /\ TracepointsRestored

LEMMA InitRInv == Init => RInv
  BY DEF Init, RInv, CountersDistinct, EnabledFits, SavedEnable, TracepointsRestored

\* readEvents builds the list and opens no session.
LEMMA ReadEventsRInv ==
  ASSUME DistinctEnableFiles, RInv, ReadEvents
  PROVE  RInv'
  <1>1. /\ dpc = "unread" /\ dpc' = "idle" /\ isEnabled = {}
        /\ UNCHANGED <<isEnabled, session>> /\ session = 0
    BY DEF ReadEvents, RInv, EnabledFits
  <1>2. \/ counters' = << >>
        \/ counters' = Registered
    BY DEF ReadEvents
  <1>3. CountersDistinct'
    <2>1. CASE counters' = << >>
      BY <2>1 DEF CountersDistinct
    <2>2. CASE counters' = Registered
      BY <2>2 DEF DistinctEnableFiles, CountersDistinct
    <2>3. QED
      BY <1>2, <2>1, <2>2
  <1>4. QED
    BY <1>1, <1>3 DEF RInv, EnabledFits, SavedEnable, TracepointsRestored

(***************************************************************************)
(* In text mode prepare() saves, for each enabled counter, its own enable  *)
(* file as it was: no other counter of the session writes that file first. *)
(***************************************************************************)
LEMMA PrepareRInv ==
  ASSUME ~Raw, RInv, NEW en \in SUBSET (1 .. Len(counters)), Prepare(en)
  PROVE  RInv'
  <1>1. /\ mWasEnabled' = [i \in 1 .. Len(counters) |->
                             IF i \in WithEnable(en) THEN WasEnabled(enable, en, i)
                                                     ELSE mWasEnabled[i]]
        /\ isEnabled' = en /\ dpc' = "prepared" /\ savedEnable' = enable
        /\ counters' = counters
    BY DEF Prepare
  <1>2. \A i \in WithEnable(en) : WasEnabled(enable, en, i) = enable[counters[i]]
    BY DEF WasEnabled, WithEnable, RInv, CountersDistinct
  <1>3. SavedEnable'
    BY <1>1, <1>2 DEF SavedEnable, WithEnable
  <1>4. QED
    BY <1>1, <1>3 DEF RInv, CountersDistinct, EnabledFits, TracepointsRestored

\* A step that keeps the list, the session's counters and their saved values.
LEMMA RInvFrame ==
  ASSUME RInv,
         UNCHANGED <<counters, isEnabled, mWasEnabled, savedEnable, session>>,
         dpc' = "unread" => dpc = "unread",
         dpc' \in {"prepared", "started"} => dpc \in {"prepared", "started"},
         dpc' = "idle" /\ session > 0 =>
           \A i \in WithEnable(isEnabled) : enable'[counters[i]] = savedEnable[counters[i]]
  PROVE  RInv'
  <1>1. WithEnable(isEnabled)' = WithEnable(isEnabled)
    BY DEF WithEnable
  <1>2. CountersDistinct' /\ EnabledFits'
    BY DEF RInv, CountersDistinct, EnabledFits
  <1>3. SavedEnable'
    BY <1>1 DEF RInv, SavedEnable
  <1>4. TracepointsRestored'
    BY <1>1 DEF TracepointsRestored
  <1>5. QED
    BY <1>2, <1>3, <1>4 DEF RInv

\* stop() writes back each enabled counter's mWasEnabled, and in text mode
\* with distinct files the counter that writes a file last is its own.
LEMMA StopRInv ==
  ASSUME RInv, Stop
  PROVE  RInv'
  <1>1. /\ dpc = "started" /\ dpc' = "idle"
        /\ enable' = RestoredAfter(isEnabled)
        /\ UNCHANGED <<counters, isEnabled, mWasEnabled, savedEnable, session>>
    BY DEF Stop
  <1>2. ASSUME NEW i \in WithEnable(isEnabled)
        PROVE  enable'[counters[i]] = savedEnable[counters[i]]
    <2> DEFINE p == counters[i]
    <2>1. i \in 1 .. Len(counters) /\ p \in Paths
      BY DEF WithEnable, RInv, EnabledFits, CountersDistinct
    <2>2. \A k \in WithEnable(isEnabled) : counters[k] = p => k = i
      BY DEF WithEnable, RInv, EnabledFits, CountersDistinct
    <2> DEFINE W == WithEnable(isEnabled)
               last == CHOOSE k \in W : /\ counters[k] = p
                                        /\ \A j \in W : counters[j] = p => j <= k
    <2>3. \E k \in W : /\ counters[k] = p
                       /\ \A j \in W : counters[j] = p => j <= k
      BY <2>1, <2>2
    <2>4. last = i
      BY <2>2, <2>3
    <2>5. RestoredAfter(isEnabled)[p] = mWasEnabled[last]
      BY <2>1, <2>3 DEF RestoredAfter
    <2>6. mWasEnabled[i] = savedEnable[p]
      BY <1>1 DEF RInv, SavedEnable
    <2>7. QED
      BY <1>1, <2>4, <2>5, <2>6
  <1>3. QED
    BY <1>1, <1>2, RInvFrame

LEMMA NextRInv ==
  ASSUME ~Raw, DistinctEnableFiles
  PROVE  RInv /\ [Next]_vars => RInv'
  <1> SUFFICES ASSUME RInv, [Next]_vars PROVE RInv'
    OBVIOUS
  <1>1. CASE ReadEvents
    BY <1>1, ReadEventsRInv
  <1>2. CASE \E en \in SUBSET (1 .. Len(counters)) : Prepare(en)
    BY <1>2, PrepareRInv
  <1>3. CASE Start
    BY <1>3, RInvFrame DEF Start
  <1>4. CASE Stop
    BY <1>4, StopRInv
  <1>5. CASE Ended \/ UNCHANGED vars
    <2>1. UNCHANGED <<counters, isEnabled, mWasEnabled, savedEnable, session, dpc, enable>>
      BY <1>5 DEF Ended, vars
    <2>2. QED
      BY <2>1, RInvFrame DEF RInv, TracepointsRestored
  <1>6. QED
    BY <1>1, <1>2, <1>3, <1>4, <1>5 DEF Next

(***************************************************************************)
(* In text mode, when the registered counters have distinct enable files,  *)
(* every stop() puts each tracepoint the session enabled back to the state *)
(* prepare() found it in, for every number of sessions and counters.       *)
(***************************************************************************)
THEOREM DriverTracepointsRestored ==
  ASSUME ~Raw, DistinctEnableFiles
  PROVE  Spec => []TracepointsRestored
  <1>1. Init => RInv
    BY InitRInv
  <1>2. RInv /\ [Next]_vars => RInv'
    BY NextRInv
  <1>3. RInv => TracepointsRestored
    BY DEF RInv
  <1>4. QED
    BY <1>1, <1>2, <1>3, PTL DEF Spec

=============================================================================
