\* The kernel may hang a splice in either loop. Two readers and the control
\* thread meet at the start barrier (init(3)), then stop() interrupts them.
\* Every reader that has seen the interrupt still ends, or gatord is killed.
CONSTANTS
  NumCpus = 2
  Main = Main
  Threads <- MCThreads
  Count = 3
  UIntMax = 7
  HangsIn = {"splice", "drain"}

SPECIFICATION Spec
\* A splice hung in the first loop, with no watchdog armed, stops its reader and
\* stop()'s join with it for good: a real end of the system, which the run
\* reader_lost_interrupt's property StopReturns stands for; it is not checked
\* as a deadlock here.
CHECK_DEADLOCK FALSE

INVARIANT ReleaseExact
INVARIANT ReadersStartAfterTracingOn
PROPERTY EveryReaderStarts
PROPERTY InterruptedReaderEnds
