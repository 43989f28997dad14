\* Raw mode, two sessions: the read ends stop() returns in the second one.
CONSTANTS
  sched = sched
  freq = freq
  gpu = gpu
  None = None
  Paths = {sched, freq, gpu}
  Events <- DistinctEvents
  Writable <- MCWritable
  Raw = TRUE
  NumCpus = 2
  UseForTracepoints = TRUE
  Kernel = "4.2"
  TraceFsOk = TRUE
  IsRoot = TRUE
  MaxSessions = 2
SPECIFICATION Spec
INVARIANT StopReturnsSessionFds
