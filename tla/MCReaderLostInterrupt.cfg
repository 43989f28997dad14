\* A kernel that never hangs: stop() can still wait forever on a reader that missed SIGUSR1.
CONSTANTS
  NumCpus = 2
  Main = Main
  Threads <- MCThreads
  Count = 3
  UIntMax = 7
  HangsIn = {}

SPECIFICATION Spec

PROPERTY StopReturns
