---------------------------- MODULE FtraceDriver ----------------------------
(***************************************************************************)
(* The control thread's side of FtraceDriver.cpp: FtraceDriver::readEvents *)
(* (capability gating and counter registration), prepare, start and stop,  *)
(* with FtraceCounter::prepare/stop, over the tracefs files they read and  *)
(* write: tracing_on, events/enable, each tracepoint's enable file and     *)
(* trace_clock.  Sessions repeat: prepare, start, stop, prepare, ...       *)
(*                                                                         *)
(* Each handler runs on the one control thread and is one step.  The       *)
(* reader threads are abstracted to the entries the FtraceReader           *)
(* constructor pushes on the process-wide list mHead (their behaviour is   *)
(* FtraceReader.tla), so that what stop() walks, interrupts, joins and     *)
(* returns is visible.  A reader is named <<session, cpu>>; its pipe read  *)
(* end pfd[0] is named by the reader.  A tracepoint is a member of Paths;  *)
(* None stands for a null mEnable / missing attribute.                     *)
(***************************************************************************)
EXTENDS Naturals, Sequences, FiniteSets

CONSTANTS
  Raw,               \* gSessionData.mFtraceRaw
  NumCpus,           \* mNumberOfCores
  Paths,             \* tracepoint directories under events/
  None,              \* a missing attribute / null mEnable
  Events,            \* the ftrace_ <event> elements of the events XML, in order
  Writable,          \* the Paths whose enable file passes access(W_OK)
  UseForTracepoints, \* mUseForTracepoints
  Kernel,            \* "old" (< 3.10), "3.10" (< 4.2) or "4.2" (>= 4.2)
  TraceFsOk,         \* access(traceFsConstants.path, R_OK) == 0
  IsRoot,            \* geteuid() == 0
  MaxSessions        \* bound on the number of capture sessions

ASSUME DriverAssumption ==
  /\ Raw \in BOOLEAN /\ UseForTracepoints \in BOOLEAN
  /\ TraceFsOk \in BOOLEAN /\ IsRoot \in BOOLEAN
  /\ NumCpus \in Nat \ {0} /\ MaxSessions \in Nat
  /\ None \notin Paths /\ Writable \subseteq Paths
  /\ Events \in Seq([tracepoint : Paths \cup {None}, enable : Paths \cup {None}])
  /\ Kernel \in {"old", "3.10", "4.2"}

Cpus == 0 .. (NumCpus - 1)
Clocks == {"local", "perf", "mono_raw"}
ReaderIds == (1 .. MaxSessions) \X Cpus

VARIABLES
  tracingOn,        \* the tracing_on file
  enable,           \* each events/<path>/enable file
  traceClock,       \* the clock trace_clock marks [selected]
  supported,        \* mSupported
  monoRaw,          \* mMonotonicRawSupport
  counters,         \* getCounters(): each counter's mEnable, head first
  isEnabled,        \* positions of the counters this session enables
  mWasEnabled,      \* each FtraceCounter::mWasEnabled
  mTracingOn,       \* FtraceDriver::mTracingOn
  mHead,            \* FtraceReader::mHead, newest reader first
  joins,            \* how many times pthread_join was called on each reader
  stopFds,          \* the read ends the last stop() returned
  dpc,              \* "unread", "idle", "prepared", "started" or "exited"
  session,          \* number of prepare() calls so far
  savedTracingOn,   \* history: tracing_on when prepare() was called
  savedEnable       \* history: the enable files when prepare() was called

vars == <<tracingOn, enable, traceClock, supported, monoRaw, counters,
          isEnabled, mWasEnabled, mTracingOn, mHead, joins, stopFds, dpc,
          session, savedTracingOn, savedEnable>>

Init ==
  /\ tracingOn \in {0, 1}
  /\ enable \in [Paths -> {0, 1}]
  /\ traceClock \in Clocks
  /\ supported = FALSE
  /\ monoRaw = FALSE
  /\ counters = << >>
  /\ isEnabled = {}
  /\ mWasEnabled = << >>
  /\ mTracingOn = 0
  /\ mHead = << >>
  /\ joins = [r \in ReaderIds |-> 0]
  /\ stopFds = {}
  /\ dpc = "unread"
  /\ session = 0
  /\ savedTracingOn = 0
  /\ savedEnable = [p \in Paths |-> 0]

-----------------------------------------------------------------------------
(* readEvents *)

\* The enable attribute, or the tracepoint when there is none.
EnableOf(e) == IF e.enable # None THEN e.enable ELSE e.tracepoint

\* The tests that skip an event: tracepoints left to perf, missing enable file.
Registers(e) ==
  /\ UseForTracepoints \/ e.tracepoint = None
  /\ EnableOf(e) = None \/ EnableOf(e) \in Writable

\* setCounters(new FtraceCounter(getCounters(), ...)) pushes on the head, so
\* the list is the registered events in reverse XML order.
Registered ==
  LET kept == SelectSeq(Events, Registers)
  IN  [k \in 1 .. Len(kept) |-> EnableOf(kept[Len(kept) - k + 1])]

ReadEvents ==
  /\ dpc = "unread"
  /\ LET gated == Kernel = "old" \/ ~TraceFsOk \/ ~IsRoot
         ctrs  == IF gated THEN << >> ELSE Registered
     IN  /\ supported' = ~gated
         /\ monoRaw' = (Kernel = "4.2")
         /\ counters' = ctrs
         /\ mWasEnabled' = [i \in 1 .. Len(ctrs) |-> 0]  \* FtraceCounter(): mWasEnabled(0)
  /\ dpc' = "idle"
  /\ UNCHANGED <<tracingOn, enable, traceClock, isEnabled,
                 mTracingOn, mHead, joins, stopFds, session, savedTracingOn,
                 savedEnable>>

-----------------------------------------------------------------------------
(* prepare *)

\* The enabled counters that have an enable file, i.e. that read and write it.
WithEnable(en) == {i \in en : counters[i] # None}

\* The enable files after the loop of counter->prepare() calls over en,
\* starting from the files e0: each writes 1 to its own.
EnabledAfter(e0, en) ==
  [p \in Paths |-> IF \E i \in en : counters[i] = p THEN 1 ELSE e0[p]]

\* Variant of the counter's save that writes 1 before reading the file.
WasEnabledAfterWrite(e0, en, i) == 1

\* readIntFromFile(buf, mWasEnabled) in counter i's prepare(): the file as
\* the global disable and the counters before i in the list left it.
WasEnabled(e0, en, i) ==
  IF \E j \in WithEnable(en) : j < i /\ counters[j] = counters[i]
    THEN 1 ELSE e0[counters[i]]

\* Variant that reads tracing_on after writing "0" to it.
ReadTracingOnLate == 0

\* readIntFromFile(path__tracing_on, mTracingOn), before writing "0".
ReadTracingOn == tracingOn

\* Variant that writes clock_selected ("[perf]") instead of clock ("perf").
TargetClockSelected == IF monoRaw THEN "[mono_raw]" ELSE "[perf]"

\* const char *clock = mMonotonicRawSupport ? "mono_raw" : "perf"
TargetClock == IF monoRaw THEN "mono_raw" ELSE "perf"

\* Variant of prepare's loop that runs for cpu = 1 .. mNumberOfCores.
NewReadersOffByOne(s) == [k \in 1 .. NumCpus |-> <<s, NumCpus - k + 1>>]

\* The FtraceReaders of prepare's loop over the cpus, as mHead lists them.
NewReaders(s) == [k \in 1 .. NumCpus |-> <<s, NumCpus - k>>]

(***************************************************************************)
(* prepare() with the session's enabled counters en.  In raw mode it       *)
(* writes "0" to events/enable (every enable file reads 0), then each      *)
(* enabled counter saves and sets its enable file.  A raw-mode counter     *)
(* with no enable file is fatal (handleException) after the counters       *)
(* before it have set theirs.  Then tracing_on is saved and cleared, the   *)
(* buffer truncated, the clock switched if it is not selected (the write   *)
(* is skipped otherwise, with the same outcome), and in raw mode the       *)
(* barrier armed and one reader per cpu pushed on mHead.                   *)
(***************************************************************************)
Prepare(en) ==
  /\ dpc = "idle" /\ supported /\ session < MaxSessions
  /\ LET e0  == IF Raw THEN [p \in Paths |-> 0] ELSE enable
         bad == {i \in en : counters[i] = None}
     IN  IF Raw /\ bad # {}
           THEN LET first == CHOOSE b \in bad : \A c \in bad : b <= c
                IN  /\ enable' = EnabledAfter(e0, {i \in en : i < first})
                    /\ dpc' = "exited"
                    /\ UNCHANGED <<tracingOn, traceClock, isEnabled, mWasEnabled,
                                   mTracingOn, mHead, session, savedTracingOn,
                                   savedEnable>>
           ELSE /\ mWasEnabled' =
                     [i \in 1 .. Len(counters) |->
                        IF i \in WithEnable(en) THEN WasEnabled(e0, en, i)
                                                ELSE mWasEnabled[i]]
                /\ enable' = EnabledAfter(e0, WithEnable(en))
                /\ mTracingOn' = ReadTracingOn
                /\ tracingOn' = 0
                /\ traceClock' = TargetClock
                /\ mHead' = IF Raw THEN NewReaders(session + 1) \o mHead ELSE mHead
                /\ isEnabled' = en
                /\ session' = session + 1
                /\ dpc' = "prepared"
                /\ savedTracingOn' = tracingOn
                /\ savedEnable' = enable
  /\ UNCHANGED <<supported, monoRaw, counters, joins, stopFds>>

\* start(): write "1" to tracing_on, then (raw mode) the last barrier wait.
Start ==
  /\ dpc = "prepared"
  /\ tracingOn' = 1
  /\ dpc' = "started"
  /\ UNCHANGED <<enable, traceClock, supported, monoRaw, counters, isEnabled,
                 mWasEnabled, mTracingOn, mHead, joins, stopFds, session,
                 savedTracingOn, savedEnable>>

\* The files after stop's loop of counter->stop(): the list is walked from
\* the head, so the last counter on the list with a path writes it last.
RestoredAfter(en) ==
  [p \in Paths |->
     IF \E i \in WithEnable(en) : counters[i] = p
       THEN LET last == CHOOSE i \in WithEnable(en) :
                          /\ counters[i] = p
                          /\ \A j \in WithEnable(en) : counters[j] = p => j <= i
            IN  mWasEnabled[last]
       ELSE enable[p]]

\* The readers on the list; stop() interrupts, returns and joins each.
Listed == {mHead[k] : k \in 1 .. Len(mHead)}

(***************************************************************************)
(* stop(): write mTracingOn back, restore every enabled counter's enable   *)
(* file, and in raw mode interrupt every reader on mHead, collect its      *)
(* pfd0, then join every reader on mHead.                                  *)
(***************************************************************************)
Stop ==
  /\ dpc = "started"
  /\ tracingOn' = mTracingOn
  /\ enable' = RestoredAfter(isEnabled)
  /\ stopFds' = IF Raw THEN Listed ELSE {}
  /\ joins' = IF Raw
                THEN [r \in ReaderIds |-> IF r \in Listed THEN joins[r] + 1 ELSE joins[r]]
                ELSE joins
  /\ dpc' = "idle"
  /\ UNCHANGED <<traceClock, supported, monoRaw, counters, isEnabled,
                 mWasEnabled, mTracingOn, mHead, session, savedTracingOn,
                 savedEnable>>

\* The daemon has exited, or no further session is made (MaxSessions).
Ended ==
  /\ \/ dpc = "exited"
     \/ dpc = "idle" /\ (session = MaxSessions \/ ~supported)
  /\ UNCHANGED vars

Next ==
  \/ ReadEvents
  \/ \E en \in SUBSET (1 .. Len(counters)) : Prepare(en)
  \/ Start
  \/ Stop
  \/ Ended

Spec == Init /\ [][Next]_vars

-----------------------------------------------------------------------------

TypeOK ==
  /\ tracingOn \in {0, 1} /\ mTracingOn \in {0, 1} /\ savedTracingOn \in {0, 1}
  /\ enable \in [Paths -> {0, 1}] /\ savedEnable \in [Paths -> {0, 1}]
  /\ traceClock \in Clocks
  /\ supported \in BOOLEAN /\ monoRaw \in BOOLEAN
  /\ counters \in Seq(Paths \cup {None}) /\ Len(counters) <= Len(Events)
  /\ isEnabled \subseteq 1 .. Len(counters)
  /\ mWasEnabled \in [1 .. Len(counters) -> {0, 1}]
  /\ mHead \in Seq(ReaderIds)
  /\ joins \in [ReaderIds -> 0 .. MaxSessions]
  /\ stopFds \subseteq ReaderIds
  /\ dpc \in {"unread", "idle", "prepared", "started", "exited"}
  /\ session \in 0 .. MaxSessions

(***************************************************************************)
(* After stop() returns, tracing_on holds the value it had when prepare()  *)
(* was called (spec section 4.4: stop restores the previous tracing-on     *)
(* value), whatever the sessions before did to it.                         *)
(***************************************************************************)
TracingOnRestored ==
  dpc = "idle" /\ session > 0 => tracingOn = savedTracingOn

(***************************************************************************)
(* After stop() returns, the enable file of every tracepoint a counter of  *)
(* the session enabled is back to the value it had when prepare() was      *)
(* called (spec section 4.4: stop restores each registered tracepoint's    *)
(* prior enabled state).                                                   *)
(***************************************************************************)
TracepointsRestored ==
  dpc = "idle" /\ session > 0 =>
    \A i \in WithEnable(isEnabled) : enable[counters[i]] = savedEnable[counters[i]]

(***************************************************************************)
(* In raw mode stop() returns the pipe read ends of this session's readers *)
(* and no others (spec section 8: with 2 cpus, stop returns 2 descriptors  *)
(* and both reader threads have exited).                                   *)
(***************************************************************************)
StopReturnsSessionFds ==
  dpc = "idle" /\ session > 0 /\ Raw => stopFds = {session} \X Cpus

=============================================================================
