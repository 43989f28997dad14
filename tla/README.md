# TLA+ models of gator's capture-and-buffering core

This directory holds TLA+ models of the daemon's bounded capture-and-buffering
substrate (`src/daemon/Fifo.cpp`, `src/daemon/FtraceDriver.cpp`), of the
Arm NN session server (`src/daemon/armnn/ThreadManagementServer.cpp`), of the
counter configuration (`src/daemon/ConfigurationXML.cpp`) and of the pure
helpers of `src/daemon/lib/Utils.cpp` that the drivers use, the TLC
configurations that model-check them, and TLAPS proofs. `PROJECT.json`
lists each component, run, mutant, finding and hazard, and maps each model
definition to the source lines it translates.

## 1. The system

| Part | Source | Threads | Shared state |
|---|---|---|---|
| BoundedStreamBuffer (`Fifo`) | `Fifo.cpp` | one writer, one reader | `mWrite`, `mRead`, `mReadCommit`, `mRaggedEnd`, `mEnd` (plain ints/bool), `mWaitForSpaceSem`, the reader semaphore, the byte arena |
| StartBarrier (`Barrier`) | `FtraceDriver.cpp` 30-66 | the N readers plus the control thread | `mCount` (unsigned), mutex, condition variable |
| PerCpuTraceReader (`FtraceReader`) | `FtraceDriver.cpp` 148-344 | one reader thread per CPU, one detached watchdog per reader, the control thread calling `interrupt`/`join` | `mSessionIsActive` (atomic), the fds `mTfd`/`mPfd1`, `isStuck` (atomic, shared with the watchdog), the process-wide list `mHead` |
| FtraceCaptureEngine (`FtraceDriver`, `FtraceCounter`) | `FtraceDriver.cpp` 68-146, 346-651 | the control thread | tracefs files (`tracing_on`, `events/enable`, per-tracepoint `enable`, `trace_clock`), `mTracingOn`, each counter's `mWasEnabled` |
| Arm NN session server (`ThreadManagementServer`) | `armnn/ThreadManagementServer.cpp` | acceptor, reaper, one thread per session, the control thread | `mThreads`, `mEnabled`, `mDone`, each session's `done` flag, all under `mMutex`; `mSessionDiedCV` |
| Counter configuration (`ConfigurationXML`) | `ConfigurationXML.cpp` | the daemon's main thread | `configuration.xml` on disk, `gSessionData.mCounters`, `mIsEBS` |
| Library helpers (`Utils`) | `lib/Utils.cpp` | (pure, called from the drivers) | none beyond the call |

How they interact. `FtraceDriver::prepare` arms the barrier for `cpus + 1`
and starts one `FtraceReader` per CPU, each of which waits at the barrier.
`start` sets `tracing_on` and is the last arrival at the barrier. `stop`
restores `tracing_on` and the tracepoint enables, then interrupts every reader
on the list (`mSessionIsActive = false`, then `SIGUSR1`) and joins them. An
interrupted reader sets its fd non-blocking, starts a watchdog that after 2 s
closes both fds and sends `SIGKILL` if the reader is still stuck, drains the
rest with `splice` and `read`, clears `isStuck` and closes the fds itself.
The `Fifo` is the generic hand-off buffer between a producer and a draining
consumer. Its writer blocks on `mWaitForSpaceSem` while the buffer is full.
Its reader never blocks: `read` returns null when the buffer is empty.

Operations that change state:
- Fifo: the constructor, `write(length)` (advance, wrap, post, wait while
  full), `read(&length)` (empty test, commit cursor loop), `release()`
  (advance, reset at the threshold, post).
- Barrier: `init(n)`, `wait()`.
- FtraceReader: the constructor (pushes itself on `mHead`), `start`,
  `interrupt`, `join`, `run` (barrier, splice loop, drain, watchdog, close).
- FtraceDriver: `readEvents` (capability gating, counter registration),
  `prepare`, `start`, `stop`, `readTracepointFormats`.
- FtraceCounter: `prepare` (save and set the enable), `stop` (restore).
- ThreadManagementServer: the constructor (starts the reaper and the
  acceptor), `acceptLoop`, `runIndividualThread`, `reaperLoop`,
  `startCapture`, `stopCapture` and `stop`.

The hard behaviours, each listed in `PROJECT.json` "hazards" at the line
where it bites:
- the unordered plain stores of the Fifo wrap-around;
- the reader's two separate loads of `mRaggedEnd` and `mWrite`;
- the writer's wait for space;
- the flag-then-signal interrupt that can land before `splice` blocks;
- the watchdog and the reader both closing the same fds;
- the process-wide reader list that outlives a session;
- the save/restore of kernel state across overlapping counters;
- the session server's reaper, which waits on a condition variable with no
  predicate and joins threads while holding the mutex.

Left out on purpose:
- The hwcpipe2 comparison helpers and argument struct, the constant
  headers and the file-I/O wrappers of `lib/Utils` have no state worth a
  model; section 10 and `PROJECT.json` give the reason for each.
- Logging and fatal `handleException()` paths that only print and abort are
  modelled as a stop of the process where they matter, and are otherwise
  left out.

## 2. The Fifo model (`Fifo.tla`)

State. The five cursors and flags of `Fifo`, the two semaphores (as
counters that saturate at `SemValueMax`, which is what `sem_post` does at
`SEM_VALUE_MAX`), the arena `mBuffer`, a program counter for each thread
(`wpc`, `rpc`) and:
- `wnext`, the writer's `mWrite + length`, which the wrap stores as the
  ragged end;
- `wread` and `wread2`, the writer's two loads of `mRead` in `willFill`;
- `nwritten` and `nbytes`, the producer's count of writes and bytes;
- `rfinal`, whether the consumer saw the end of the stream;
- `received`, a history of the bytes the consumer handled.

Data is abstracted: the k-th byte of the stream has value k. So "the consumer
got every byte, once, in order" is `received[j] = j`.

Steps. The two threads share plain ints with no locks. So every load or
store of a field the other thread writes is a step of its own:
- `Write(length)` is `write()` up to its wrap test. It fills the arena,
  sets the end flag and stores `mWrite += length` (Fifo.cpp:87), which the
  consumer can see before the wrap.
- `WrapStoreRagged` and `WrapStoreWrite` are the two stores of the wrap,
  and `WrapFinish` is the second of them.
- `PostReader` is the `sem_post`.
- `CheckFull`, `CheckFullCount` and `CheckFullRagged` are `willFill(0)`:
  it loads `mRead` for its test, loads it again in `numBytesFilled()`, then
  loads `mRaggedEnd` and decides. A build that loads `mRead` once is the
  case where the consumer takes no step between the first two loads.
- `WaitForSpace` is the `sem_wait` of the same loop.
- `ReadCheck`, `ReadCheckRagged` and `ReadCheckEnd` are `isEmpty() &&
  !mEnd`, loading `mWrite`, `mRaggedEnd` and `mEnd` one at a time.
- `ReadRagged` and `ReadWrite` are the two loads of the length loop, and
  `CommitLoaded` is its test.
- `Release` is `release()` up to the threshold test.
- `ReleaseReset` and `ReleaseResetRagged` are the chained reset, whose
  stores the compiler emits right to left. `mReadCommit` is the consumer's
  alone, so it is stored in the same step as `mRead`.
- `PostSpace` is the final `sem_post`.

`WaitReader`, `Consume` and the producer's choice of lengths
(`WriterLengths`) are the loops around the Fifo. They are not under `src/`,
so they are modelled from spec section 4.1.

The order of the wrap's two stores is not fixed by the code: they are plain
`int`s, so the compiler and the CPU may make `mWrite = 0` visible first. The
constant `WrapOrders` says which orders a build may show. Every run uses
`{"raggedFirst", "writeFirst"}`, which is the code as written.

### Properties
- `TypeOK`: the cursors stay inside the `bufferSize + singleBufferSize`
  arena, `mRaggedEnd` is 0 or a wrap point, and the semaphores stay in range.
- `WriterNeverStuck`: a writer blocked for space is eventually let go.
- `ReceivedInOrder`: the consumer handles the k-th byte as its k-th byte, so
  no byte is duplicated, skipped or reordered across wrap-arounds. It is the
  one property of the violation run.

### Runs (`MCFifo.tla`)
All runs use `SingleBufferSize = 3`, `BufferSize = 5`, `MaxWrites = 5` and
`SemValueMax = 2`. Five writes of up to 3 bytes cross the 5-byte threshold
twice. They give ragged ends of every length from 5 to 7 (the arena's last
index), fill the buffer so that the writer blocks, and let the semaphores
saturate. `HistoryBound` keeps the history no longer than the stream. It
prunes only states after a duplicate delivery, so it cuts no behaviour
short before the race has happened.

| Run | WrapOrders | Checks | Result |
|---|---|---|---|
| `fifo_code_progress` | both | `TypeOK`, `WriterNeverStuck` | pass (1,547,440 states) |
| `fifo_wrap_race` | both | `ReceivedInOrder` | violation |

`fifo_wrap_race` finds this trace:
1. The writer stores `mRaggedEnd`.
2. The consumer reads the ragged span, releases it and resets `mRead` and
   `mRaggedEnd` to 0.
3. The consumer then loads the old `mWrite` and hands out bytes
   `[0, old mWrite)` a second time.

The length loop in `read()` only rejects negative lengths, so it does not
plug this race, although spec sections 4.1 and 5 say it does. Publishing
`mWrite = 0` first would not fix it either. The store of `mWrite += length`
is visible on its own, so the consumer can read up to it past the threshold,
release and reset, and read `[0, next)` again (TLC finds this with
`WrapOrders = {"writeFirst"}` as well). The same race also makes the
consumer skip bytes later, and lets it hold a span the writer is about to
refill. So the properties of a correct stream (nothing lost, room for the
next write, the stream refining a bounded queue) do not hold for this code,
and the project states only `ReceivedInOrder`, in the violation run.
`TypeOK` and `WriterNeverStuck` hold whatever the order.

### Fairness
Each thread is an OS thread, so a step it can keep taking is eventually
taken. `WF` is given to every writer step except `Write` itself: a producer
may stop calling `write()`. Every consumer step is weakly fair, because the
spec's consumer drains the buffer. No strong fairness is assumed.
`Finished` is the stutter after both threads are done, so deadlock is
checked and means that both threads are blocked.

### Proofs (`FifoProofs.tla`)
`TypeCorrect` (`Spec => []TypeOK`) is proved for every value of the
constants and both store orders, under the assumptions `SizeAssumption`,
`BoundAssumption` and `BuildAssumption`.

`TypeOK` is not inductive as it stands. The inductive invariant `IInv`
adds three facts:
- `mWrite < mWrapThreshold` except on the wrap path before `mWrite = 0` is
  stored, where `mWrite` is `wnext`. So a write of
  `length <= singleBufferSize` starts below the threshold and stays in the
  arena.
- `wnext >= mWrapThreshold` on the wrap path, so the stored ragged end is a
  wrap point.
- `nbytes <= nwritten * singleBufferSize`, so byte values stay in
  `0..MaxBytes`.

The proof has one step per action. The Boolean part of the type invariant
goes to Zenon and the arithmetic part to SMT. The nonlinear bound is kept in
a lemma of its own.

`WriterNeverStuck` is a liveness property and is only model-checked: TLAPS
does not reason about `ENABLED` and fairness.

## 3. The barrier model (`Barrier.tla`)

State:
- `mCount`, an unsigned int, so `mCount--` at 0 wraps to `UIntMax`;
- `condWaiters`, the threads blocked in `pthread_cond_wait`;
- a `pc` per thread: `idle` before `wait()`, `sleep` in its loop, `done` after.

Every access to `mCount` is made under `mMutex`, and `pthread_cond_wait`
releases the mutex and joins the wait set atomically. So each critical
section is one step and the mutex has no variable. The steps are:
- `Arrive(t)`: `wait()` up to its first `pthread_cond_wait`. It decrements
  `mCount`, then either broadcasts (which empties the wait set) or blocks.
- `SpuriousWakeup(t)`: a thread leaves the wait set with no broadcast.
- `Wake(t)`: `pthread_cond_wait` returns with the mutex held. The thread
  breaks out if `mCount` is 0 and waits again otherwise.

Fairness. `WF` on `Arrive` and `Wake`, because each participant is an OS
thread that does call `wait()`. Spurious wake-ups may happen but never have
to.

The barrier has no run of its own: `FtraceReader.tla` EXTENDS it and runs
its steps as the `mBarrier->wait()` of the readers and of the control thread
(section 4), so its property is checked where the code uses it.
- `ReleaseExact`: no thread leaves `wait()` before `Count` threads have
  called it, whatever spurious wake-ups happen (checked in
  `reader_forced_shutdown`; its mutant leaves the wait loop without testing
  `mCount` again).

Proof (`BarrierProofs.tla`). `BarrierReleaseExact` proves
`Spec => []ReleaseExact` for every set of threads, count and integer width.
It assumes `BarrierAssumption`: the set of threads is finite and no larger
than `UIntMax`. The inductive invariant adds `CountTracksArrivals`:
- with `k` arrivals, `mCount = Count - k` while `k <= Count`;
- it is `UIntMax + 1 + Count - k` past that.

So `mCount = 0` exactly when `k = Count`. A lemma bounds the number of
arrivals by the number of threads, using the cardinality facts of
`FiniteSetTheorems`.

## 4. The reader model (`FtraceReader.tla`)

State. For each reader `c`:
- `active[c]` (`mSessionIsActive`);
- `rpc[c]`, its place in `run()`: the first splice loop, `blocked` inside a
  splice, the drain, the slop of the last page, and the closes;
- `isStuck[c]`;
- its watchdog's `wpc[c]`;
- the number of `close()` calls on `mTfd` and `mPfd1`.

For the process and the control thread:
- `alive`, the process (false after the watchdog's `SIGKILL`);
- `started`, `tracing_on` written by `FtraceDriver::start()`;
- the barrier's `mCount`, wait set and per-thread `pc` (section 3), for the
  readers and the control thread `Main`;
- the control thread's place in `stop()` (`cpc`) and its cursor `cur` on
  `mHead`. The list is walked from the last CPU down, as the constructor
  pushes each new reader on the head.

Steps:
- Barrier steps: `BarrierStep(t, A)` runs step `A` of `Barrier::wait`
  (`Arrive`, `SpuriousWakeup`, `Wake`) in thread `t` while `t` is at its
  `wait()`: a reader at the top of `run()`, or the control thread in
  `start()` after it wrote `tracing_on`. `LeaveBarrier` is a reader's
  return from `wait()`.
- Control steps of `start()`: `StartTracing` (write `tracing_on`, then call
  `wait()`) and `StartReturns` (its `wait()` has returned).
- Reader steps are `TestActive`, `Splice`, `ArmWatchdog`, `Drain`, `Slop`,
  `ClearStuck` and the two closes.
- `PageArrives` is the kernel filling the buffer under a blocked splice.
- Watchdog steps are `WatchdogFire`, the two closes and `WatchdogKill`.
- Control steps are `Interrupt` (clear the flag), `Signal` (`SIGUSR1`) and
  `Join`.
- `SIGUSR1` interrupts only a splice that is blocked: a signal that arrives
  between the test of `mSessionIsActive` and the `splice` call is lost.

Two nondeterministic choices stand in for the kernel and for time:
- `HangsIn` names the loops whose `splice` may never return (an
  uninterruptible wait);
- the watchdog's 2 s timeout may end at any point.

Fairness:
- `WF` on each reader step, each watchdog step and the control steps, since
  all of them run on OS threads;
- no fairness on `PageArrives`: no trace data has to come.

| Run | `HangsIn` | Checks | Result |
|---|---|---|---|
| `reader_forced_shutdown` | splice, drain | `ReleaseExact`, `ReadersStartAfterTracingOn`, `EveryReaderStarts`, `InterruptedReaderEnds` | pass |
| `reader_lost_interrupt` | none | `StopReturns` | violation |
| `reader_double_close` | none | `FdClosedOnce` | violation |

All runs have 2 readers and the control thread, so `Count = 3`, with
`UIntMax = 7`. Every run starts at the barrier, with `tracing_on` not yet
written.

What the runs show:
- **Readers start after tracing is on.** `ReadersStartAfterTracingOn`: no
  reader leaves the barrier before `start()` has written `tracing_on`, so
  no reader splices before the trace is on. Its mutant lets a reader leave
  `wait()` without being released.
- **Every reader starts.** `EveryReaderStarts`: unless the daemon is
  killed, every reader gets past the barrier. Its mutant is the barrier
  without its `pthread_cond_broadcast`.
- **Interrupted readers end.** Every reader that has seen the interrupt
  ends, or the daemon is killed.
- **Lost interrupt.** A `SIGUSR1` sent just before the reader enters
  `splice` is lost. With no trace data the reader then blocks for good and
  `stop()` never returns.
- **Double close.** The watchdog and the reader can both close the same
  fd. A watchdog that fires while the drain is still making progress closes
  `mTfd` and `mPfd1`, and the reader then closes them again. Those
  descriptor numbers may already belong to a new file.
- The watchdog's `SIGKILL` ends the whole daemon, while spec section 4.3
  says it terminates the reader thread. The model takes the kill, and no
  run checks it: the divergence is in one call, not in an order of steps
  (a hazard in `PROJECT.json`).

`CHECK_DEADLOCK FALSE` where it is set: a splice hung in the first loop stops
its reader and `stop()`'s `join` for good. That is a real end of the system:
such a splice has no watchdog yet, so the timeout the spec promises
(section 4.3, cancellation) does not apply to it.

Proof (`FtraceReaderProofs.tla`). `ReadersStartAfterTracingOnProved`
proves `Spec => []ReadersStartAfterTracingOn` for every number of cpus and
every width of `unsigned int`. The property is not inductive; the
invariant `RInv` adds to the barrier's `IInv` (section 3):
- a reader past `"wait"` has returned from `Barrier::wait`;
- the control thread has left `"start"` only by writing `tracing_on`;
- it has called `wait()` only after leaving `"start"`.

With `ReleaseExact`, a returned reader means all `NumCpus + 1` threads have
arrived, so `Arrived = Threads` (cardinality facts of `FiniteSetTheorems`)
and the control thread has arrived, hence written `tracing_on`. The step
proof has one lemma per kind of step: barrier steps, reader steps, the
`start()` step, and the steps of `stop()`.

## 5. The capture engine model (`FtraceDriver.tla`)

The control thread's handlers are each one step:
- `ReadEvents`: the capability gating and the counter registration.
- `Prepare(en)`, where `en` is the session's enabled counters.
- `Start` and `Stop`.

They act over:
- the tracefs files: `tracing_on`, each tracepoint's `enable` (as a function
  from `Paths`, written as a whole by `events/enable`) and `trace_clock`;
- the driver's state: `mSupported`, `mMonotonicRawSupport`, the counter list
  (each counter's `mEnable`, head first), `mWasEnabled` and `mTracingOn`;
- the process-wide reader list `mHead` (readers named `<<session, cpu>>`),
  with the number of `pthread_join` calls on each reader and the read ends
  the last `stop()` returned.

Two history variables record `tracing_on` and the enable files at the time
of `prepare()`. The reader threads themselves are section 4. The model
assumes no other tool writes tracefs during a session.

Registration and the prepare/stop loops:
- The registration filters the events XML (the `Events` constant) with the
  code's two `continue`s. It pushes each kept counter on the head of the
  list, so the list is in reverse XML order. Each new counter starts with
  `mWasEnabled = 0` (the `FtraceCounter` constructor).
- In `prepare()` each enabled counter reads its enable file as the global
  disable and the counters before it left it, then writes 1.
- `stop()` writes each counter's `mWasEnabled` back in the same list order,
  so the last counter on a path decides its value.
- A raw-mode counter without an enable file ends the process
  (`dpc = "exited"`) after the counters before it have written theirs.

| Run | Mode | Checks | Result |
|---|---|---|---|
| `driver_text_sessions` | text, 2 sessions, distinct enable files | `TypeOK`, `TracingOnRestored`, `TracepointsRestored` | pass |
| `driver_shared_enable` | text, two counters on one tracepoint | `TracepointsRestored` | violation |
| `driver_stale_readers` | raw, 2 sessions | `StopReturnsSessionFds` | violation |

Bounds. Every run starts from every initial kernel state (`tracing_on`,
every enable file, every clock). The XML has:
- a tracepoint counter;
- an `enable` override;
- a counter with no enable file (skipped in text mode, fatal in raw mode);
- a tracepoint whose enable file is missing.

Every subset of counters is enabled in each session, and two sessions are
enough to reuse state a session leaves behind. Raw mode is run only by the
violation runs. `TracingOnRestored` in raw mode is covered by the proof
below rather than by a run.

Raw mode and prior enables. With `Raw = TRUE`, TLC finds `TracepointsRestored`
violated in four steps:
1. `prepare()` clears `events/enable` before the counters save their enable
   files, so `mWasEnabled` is 0.
2. `stop()` then turns off a tracepoint that was on before the session.

This is not kept as a run. Spec section 4.4 also says raw mode disables
every tracepoint first, so its "prior state" can be read as the state after
that global disable, which the code does restore. It is listed as a hazard
in `PROJECT.json`.

Findings:
- **Shared tracepoints stay enabled.** When two counters share a
  tracepoint, the second saves the first's 1, and stop restores in the same
  order as prepare. A tracepoint that was off is left on.
- **Stale reader list.** `mHead` is never reset. So the second raw
  session's `stop()` signals and joins the first session's (already joined)
  threads, and returns their read ends as well (spec section 8 says 2
  descriptors for 2 CPUs).

Proof (`FtraceDriverProofs.tla`). `DriverTracingOnRestored` proves
`Spec => []TracingOnRestored` for every instance. The inductive invariant
adds two facts:
- `SavedWhileOpen`: while a session is open, `mTracingOn` is the value
  `prepare()` found;
- `NoSessionUnread`: no session happens before `readEvents`.

`DriverTracepointsRestored` proves `Spec => []TracepointsRestored` under two
hypotheses. Neither can be dropped:
- `~Raw`: in raw mode the property fails (the hazard above).
- `DistinctEnableFiles`: no two registered counters share an enable file.
  Without it the property fails (`driver_shared_enable`). It also states that
  `Registered` is a sequence of paths. The provers know nothing about
  `SelectSeq`, so this cannot be derived from `Events`.

The inductive invariant `RInv` adds three facts to the property:
- `CountersDistinct`: the counter list inherits the distinct files, so
  `stop()`'s writes do not overwrite each other.
- `EnabledFits`: the enabled counters are positions of the list, and none
  exist before `readEvents`.
- `SavedEnable`: while a session is open, each enabled counter's
  `mWasEnabled` is the value its file had at `prepare()`. The files are
  distinct and the global disable happens only in raw mode, so the value
  each counter reads is the saved one.

TLC checked `RInv` on the `driver_text_sessions` instance before it was
proved.

## 6. The Arm NN session server (`ThreadManagementServer.tla`)

Threads:
- **Acceptor** (`acceptLoop`). It calls `accept()` outside the mutex. Under
  the mutex it then sets the new session's capture from `mEnabled`, starts
  its thread and pushes it on `mThreads`.
- **Session thread** (`runIndividualThread`). After `runReadLoop()` returns
  it sets `done` under the mutex, unlocks, and calls `notify_all`.
- **Reaper** (`reaperLoop`). It holds the mutex through
  `removeCompletedThreads`, joining each done thread and erasing it. It then
  waits on `mSessionDiedCV` while `!mDone || !mThreads.empty()`.
- **Control thread.** It calls `startCapture` and `stopCapture` (bounded by
  `MaxCaptureCalls`), then `stop()`:
  1. interrupt the acceptor and join it;
  2. under the mutex, close every session and set `mDone`;
  3. notify, then join the reaper.

Modelling choices:
- Every critical section but the reaper's is one step, taken when the
  reaper does not hold the mutex (`Locked`).
- The condition variable's only waiter is the reaper, so its wait set is
  `rpc = "wait"`. Spurious wake-ups are steps of their own.
- `ISession` and `IAcceptor` are implemented outside the sources.
  `runReadLoop` may return at any time and must return once closed;
  `accept()` may return null at any time and must do so once interrupted.

Fairness:
- weak fairness on each thread's steps;
- strong fairness on the steps that take the mutex while the reaper may
  hold it. Without it the reaper, waking spuriously again and again, could
  keep the mutex from `stop()` forever.

| Run | Instance | Checks | Result |
|---|---|---|---|
| `tms_stop` | 3 sessions, 3 capture calls | `SessionsFollowCapture`, `ThreadsJoinedOnReturn`, `StopReturns` | pass |

- `SessionsFollowCapture`: every session in the vector has capture enabled
  exactly when the server has.
- `ThreadsJoinedOnReturn`: when `stop()` returns, every accepted session's
  thread has been joined. A joinable `std::thread` left in the vector would
  call `std::terminate` when destroyed.
- `StopReturns`: `stop()` returns.

Each property has a mutant that TLC catches:
- new sessions always get `disableCapture`;
- the reaper's loop test forgets the non-empty vector;
- `notify_all` wakes no one.

## 7. The counter configuration (`ConfigurationXML.tla`)

One thread does all of it, so each handler is a step:
- `LoadFromDisk`: `getConfigurationXML` reads a valid `configuration.xml`.
- `LoadDefault`: the file is missing or does not parse (`Parses`, the
  errors of `addCounterToSet` and `addSpeToSet`); an existing file is
  removed and the built-in defaults are used.
- `RemoveFailed`: `::remove` fails, which ends the daemon.
- `HostStores(x)`: the host stores another document between two loads.
- `SetCounters` clears the slots and starts the loop over the counter set
  (in name order). Each pass is one of:
  - `AddCounter`: the claiming driver takes the next slot;
  - `ClaimConflict`: a counter claimed by two drivers ends the daemon;
  - `TooMany`: no slot is left;
  - `LoopEnd`.

| Run | Instance | Checks | Result |
|---|---|---|---|
| `config_counters` | 5 names, 2 drivers, 2 slots, 3 loads, 6 documents | `TypeOK`, `CountersFollowConfiguration` | pass |

The documents cover more claimed counters than slots, unclaimed counters,
a counter claimed by both drivers, a duplicate name, and an SPE with no
id (an invalid file). `CountersFollowConfiguration` says that after
`setCounters` the enabled slots are exactly the first
`MAX_PERFORMANCE_COUNTERS` claimed counters of the configuration just
loaded, with their counts and drivers, and nothing is left from an earlier
configuration. Its mutants keep old slots enabled, or advance the slot
index for an unclaimed counter; the type invariant's mutant lets the loop
fill one slot too many.

Proofs (`ConfigurationXMLProofs.tla`). Both theorems assume
`Parses(DefaultXml)`, which the code treats as fatal when it fails ("bad
default configuration.xml").
- `ConfigTypeCorrect` proves `Spec => []TypeOK`. The inductive invariant
  `TInv` adds that `configs` is a sequence of named counters. This rests on
  three lemmas:
  - `ElemsFinite`: a document's set of counters is finite.
  - `ParsedNames`: the names in a parsed set are distinct.
  - `RankOnto`: ranking by name maps the set onto `1 .. Cardinality(S)`, so
    the `CHOOSE` in `CounterConfiguration` always finds its element.
- `ConfigNoStaleSlot` proves `Spec => []NoStaleSlot`. Once `setCounters`
  has run, the enabled slots are exactly the first `index` slots, each with
  a driver that claims its counter. The inductive invariant `SInv` states
  this (`Filled`) during the loop as well. It is the part of
  `CountersFollowConfiguration` that does not mention which counters are
  claimed. The mutant that keeps old slots enabled breaks it.

The rest of `CountersFollowConfiguration` is defined through `SelectSeq`
(`Claimed`), which the provers cannot reason about, so it stays with TLC.
TLC checked `TInv`, `SInv` and `NoStaleSlot` on the `config_counters`
instance before they were proved.

## 8. The library helpers (`Utils.tla`)

`Utils.tla` models four helpers of `lib/Utils.cpp`, one call per behaviour:
- `readCpuMaskFromFile`: its scanner keeps its loops, one step per pass,
  with the `from`, `split` and `to` indices and the NULs it writes into the
  buffer;
- `roundDownToPowerOfTwo`: the shift-and-or smear as a fold;
- `calculatePerfMmapSizeInPages`: the overflow guard on `kb * 1024`, the
  header page, the round down and the clamp to `INT_MAX`, in wrapping
  `uint64_t` arithmetic;
- `parseLinuxVersion`: the digit loop over `utsname.release`.

The widths are scaled: `uint64_t` has `Width = 8` bits, `1024ULL` is
`KiB = 4` and `INT_MAX` is `IntMax = 15`. So the overflow guard, the wrap of
the product and the clamp all happen on numbers TLC enumerates.

| Run | Instance | Checks | Result |
|---|---|---|---|
| `utils_reference` | every mask text of up to 5 characters, every `uint8`, `kb` 0..70 with 6 page sizes, release texts of up to 5 characters | the four `...MatchesReference/List/Release` properties | pass |

Each property compares the result with a reference definition written from
the formats, not from the code: the cpulist format, the largest power of
two, the largest power-of-two ring that fits, and `KERNEL_VERSION` of the
release numbers. Each mutant is a plausible slip: a range that stops one
cpu short, a smear one shift short, no overflow guard, a version digit
added without shifting the previous ones.

## 9. What is proved and what is only checked

| Theorem | Module | Statement |
|---|---|---|
| `TypeCorrect` | `FifoProofs` | `Spec => []TypeOK` for the Fifo, both store orders |
| `BarrierReleaseExact` | `BarrierProofs` | `Spec => []ReleaseExact` |
| `DriverTracingOnRestored` | `FtraceDriverProofs` | `Spec => []TracingOnRestored` |
| `TmsSessionsFollowCapture` | `ThreadManagementServerProofs` | `Spec => []SessionsFollowCapture` |
| `TmsThreadsJoinedOnReturn` | `ThreadManagementServerProofs` | `Spec => []ThreadsJoinedOnReturn` |
| `ReadersStartAfterTracingOnProved` | `FtraceReaderProofs` | `Spec => []ReadersStartAfterTracingOn` |
| `DriverTracepointsRestored` | `FtraceDriverProofs` | `Spec => []TracepointsRestored` in text mode with distinct enable files |
| `ConfigTypeCorrect` | `ConfigurationXMLProofs` | `Spec => []TypeOK` when the defaults parse |
| `ConfigNoStaleSlot` | `ConfigurationXMLProofs` | `Spec => []NoStaleSlot` when the defaults parse |

The session server's proofs rest on these inductive invariants:
- `IInv` adds to `SessionsFollowCapture` that the session the acceptor holds
  is a session.
- `JInv` adds four facts:
  - a session between its acceptance and its join is in `mThreads`;
  - the acceptor has exited once `mDone` is set, so the vector no longer
    grows;
  - the reaper exits only with `mDone` set and the vector empty;
  - `stop()` returns only after the reaper has exited.

TLC checked both invariants on a two-session instance before they were
proved.

What stays with TLC:
- The liveness properties (`WriterNeverStuck`, `EveryReaderStarts`,
  `InterruptedReaderEnds`, `StopReturns`) are checked by TLC only: TLAPS
  does not reason about fairness and `ENABLED`.
- The `Utils` properties are about recursive definitions over strings:
  what a recursive definition computes for every input needs induction
  over data, which the installed provers cannot instantiate, and `Utils`
  uses RECURSIVE operators and `Bitwise`. They stay with TLC.
- `TracepointsRestored` is proved only in text mode and with distinct
  enable files. Outside those conditions it fails, and TLC shows how.
- `CountersFollowConfiguration` and the type invariant of `FtraceDriver`
  are checked on the instances above only. Both rest on `SelectSeq` (the
  claimed counters, the registered counters), and the provers have no facts
  about its length or elements.

## 10. Not modelled

- `readTracepointFormats` only copies format files to the consumer.
- The XML filter on `ftrace_` names and the missing-`regex` abort come from
  the choice of `Events`.
- `ConfigurationXML`: `getDefaultConfigurationXml` (string building of the
  default document, taken as the constant `DefaultXml`), the parser
  (`ConfigurationXMLParser`, not in these sources), event codes, warnings
  and the error text.
- `lib/Utils`: `readIntFromFile`, `readInt64FromFile`, `writeToFile` and the
  other file wrappers are one system call each; `isRootOrShell` and the
  path helpers read process state with no step to interleave.
- The hwcpipe2 comparison operators (`compare.cpp`) and the argument
  struct (`backend_args.hpp`): field-by-field equality and plain data,
  with no state.
- Constant headers (CLI flags, protocol version).

## 11. Plan

1. **FtraceSession.tla.** Compose the driver with the readers, so that
   `stop()` restores `tracing_on` before it interrupts them. Restoring
   `tracing_on = 1` keeps pages coming, and pages unblock a reader whose
   interrupt was lost. Check whether that closes the lost-interrupt trace.
2. **More proofs:** restate `Claimed` and `Registered` through a fold of
   the community modules, so that `CountersFollowConfiguration` and the
   driver's type invariant can be proved.
