\* A kernel that never hangs: the watchdog and its reader race on close(mTfd) and close(mPfd1).
CONSTANTS
  NumCpus = 2
  Main = Main
  Threads <- MCThreads
  Count = 3
  UIntMax = 7
  HangsIn = {}

SPECIFICATION Spec

INVARIANT FdClosedOnce
