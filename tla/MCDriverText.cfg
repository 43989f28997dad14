\* Text mode, two sessions, counters with distinct enable files.
CONSTANTS
  sched = sched
  freq = freq
  gpu = gpu
  None = None
  Paths = {sched, freq, gpu}
  Events <- DistinctEvents
  Writable <- MCWritable
  Raw = FALSE
  NumCpus = 2
  UseForTracepoints = TRUE
  Kernel = "4.2"
  TraceFsOk = TRUE
  IsRoot = TRUE
  MaxSessions = 2
SPECIFICATION Spec
INVARIANT TypeOK TracingOnRestored TracepointsRestored
