\* uint64_t scaled to 8 bits (shifts 1, 2, 4), 1024ULL to 4 and INT_MAX to
\* 15, so that perf_event_mlock_kb = 64 .. 70 overflows and the clamp is hit.
CONSTANTS
  Width = 8
  KiB = 4
  IntMax = 15
  Calls <- MCCalls
  Unreadable = Unreadable

SPECIFICATION Spec

INVARIANT CpuMaskMatchesList
INVARIANT RoundDownMatchesReference
INVARIANT MmapPagesMatchReference
INVARIANT VersionMatchesRelease
