\* Text mode, two counters on one tracepoint: the enable file after stop.
CONSTANTS
  sched = sched
  freq = freq
  gpu = gpu
  None = None
  Paths = {sched, freq, gpu}
  Events <- SharedEvents
  Writable <- MCWritable
  Raw = FALSE
  NumCpus = 2
  UseForTracepoints = TRUE
  Kernel = "4.2"
  TraceFsOk = TRUE
  IsRoot = TRUE
  MaxSessions = 1
SPECIFICATION Spec
INVARIANT TracepointsRestored
