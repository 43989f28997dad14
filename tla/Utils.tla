------------------------------- MODULE Utils --------------------------------
(***************************************************************************)
(* The pure helpers of lib/Utils.cpp that the daemon's drivers rely on:    *)
(* readCpuMaskFromFile's scanner of a "0-3,5\n" cpu list,                  *)
(* roundDownToPowerOfTwo's bit smear, calculatePerfMmapSizeInPages' sizing *)
(* of the perf ring buffer with its overflow guard and int clamp, and      *)
(* parseLinuxVersion's reading of utsname.release.                         *)
(*                                                                         *)
(* One call is made per behaviour.  readCpuMaskFromFile keeps its loop     *)
(* structure, one step per pass of its inner and outer loops; the other    *)
(* helpers are operators, one step per call.  A character is a string of  *)
(* length one and NUL the C string terminator.  uint64_t has Width bits:   *)
(* the smear shifts by 1, 2, 4, ... up to Width \div 2 as the code shifts  *)
(* by 1 .. 32 for 64 bits, and 1024ULL and INT_MAX are the constants KiB   *)
(* and IntMax, so that the overflow guard and the clamp are reached on     *)
(* small numbers.                                                          *)
(***************************************************************************)
EXTENDS Integers, Sequences, SequencesExt, Bitwise

CONSTANTS
  Width,        \* bits of std::uint64_t
  KiB,          \* 1024ULL
  IntMax,       \* std::numeric_limits<int>::max()
  Calls,        \* the calls made: [fn |-> ..., arg |-> ...]
  Unreadable    \* a cpumask path that canAccess(true, false, false) refuses

Log2Width == CHOOSE k \in 0 .. Width : 2^k = Width

ASSUME UtilsAssumption ==
  /\ Width \in Nat \ {0} /\ \E k \in 0 .. Width : 2^k = Width
  /\ KiB \in Nat \ {0} /\ IntMax \in Nat \ {0}

UMax == 2^Width - 1

NUL == "NUL"
Digits == {"0", "1", "2", "3", "4", "5", "6", "7", "8", "9"}

\* *ch - '0'
Val(c) == CHOOSE d \in 0 .. 9 : <<"0", "1", "2", "3", "4", "5", "6", "7", "8", "9">>[d + 1] = c

\* Character i (from 0, as in C) of a NUL-terminated string s.
At(s, i) == IF i < Len(s) THEN s[i + 1] ELSE NUL

(***************************************************************************)
(* strtol(s + i, nullptr, 10) on the characters the scanner lets through:  *)
(* leading white space, an optional sign, then the longest run of digits;  *)
(* 0 when there is none.                                                   *)
(***************************************************************************)
RECURSIVE DigitRun(_, _, _)
DigitRun(s, i, acc) ==
  IF At(s, i) \in Digits THEN DigitRun(s, i + 1, 10 * acc + Val(At(s, i))) ELSE acc

Strtol(s, i) ==
  LET j == CHOOSE j \in i .. Len(s) :
             /\ \A k \in i .. (j - 1) : At(s, k) \in {" ", "\n"}
             /\ At(s, j) \notin {" ", "\n"}
  IN  CASE At(s, j) = "-" -> -DigitRun(s, j + 1, 0)
        [] At(s, j) = "+" -> DigitRun(s, j + 1, 0)
        [] OTHER          -> DigitRun(s, j, 0)

VARIABLES
  call,      \* the call being made
  contents,  \* readCpuMaskFromFile's copy of the file, NUL-terminated
  from,      \* start of the current item
  split,     \* position of the last '-' of the current item
  to,        \* end of the current item
  result,    \* what the call returns (the cpu set of readCpuMaskFromFile)
  pc         \* "call", "outer", "inner" or "done"

vars == <<call, contents, from, split, to, result, pc>>

Init ==
  /\ call \in Calls
  /\ contents = << >>
  /\ from = 0 /\ split = 0 /\ to = 0
  /\ result = {}
  /\ pc = "call"

-----------------------------------------------------------------------------
(* readCpuMaskFromFile                                                     *)

\* The file is readable: its contents are split with from = split = to = 0.
MaskOpen ==
  /\ pc = "call" /\ call.fn = "mask" /\ call.arg # Unreadable
  /\ contents' = call.arg \o <<NUL>>
  /\ pc' = "outer"
  /\ UNCHANGED <<call, from, split, to, result>>

\* canAccess fails: the empty set is returned.
MaskUnreadable ==
  /\ pc = "call" /\ call.fn = "mask" /\ call.arg = Unreadable
  /\ pc' = "done"
  /\ UNCHANGED <<call, contents, from, split, to, result>>

Length == Len(contents) - 1

\* while (to < length)
MaskOuter ==
  /\ pc = "outer"
  /\ pc' = IF to < Length THEN "inner" ELSE "done"
  /\ UNCHANGED <<call, contents, from, split, to, result>>

\* The inner loop moves the end pointer over digits and '-'.
MaskScan ==
  /\ pc = "inner" /\ to < Length
  /\ At(contents, to) \in Digits \cup {"-"}
  /\ split' = IF At(contents, to) = "-" THEN to ELSE split
  /\ to' = to + 1
  /\ UNCHANGED <<call, contents, from, result, pc>>

\* Variant of the range loop that stops before its last cpu.
CpuRangeOpen(nf, nt) == nf .. (nt - 1)

\* while (nf <= nt) { result.insert(nf); nf += 1; }
CpuRange(nf, nt) == nf .. nt

\* s with character i set to NUL (contents[i] = 0).
Terminate(s, i) == [s EXCEPT ![i + 1] = NUL]

(***************************************************************************)
(* The inner loop ends (end of the contents or another character).  A      *)
(* non-empty item is a range if a '-' follows its first character: both   *)
(* ends are terminated and read with strtol; otherwise it is one cpu.      *)
(* Then to += 1; from = to; split = to.                                    *)
(***************************************************************************)
MaskItem ==
  /\ pc = "inner"
  /\ to < Length => At(contents, to) \notin Digits \cup {"-"}
  /\ LET range  == from < to /\ split > from
         single == from < to /\ ~(split > from)
         c1     == IF range THEN Terminate(Terminate(contents, split), to)
                   ELSE IF single THEN Terminate(contents, to) ELSE contents
     IN  /\ contents' = c1
         /\ result' = result \cup
                        (IF range THEN CpuRange(Strtol(c1, from), Strtol(c1, split + 1))
                         ELSE IF single THEN {Strtol(c1, from)} ELSE {})
  /\ to' = to + 1 /\ from' = to + 1 /\ split' = to + 1
  /\ pc' = "outer"
  /\ UNCHANGED call

-----------------------------------------------------------------------------
(* roundDownToPowerOfTwo and calculatePerfMmapSizeInPages                  *)

\* Variant of the smear that leaves out its widest shift.
SmearsShort == [i \in 1 .. (Log2Width - 1) |-> 2^(i - 1)]

\* in |= (in >> 1); in |= (in >> 2); ... ; in |= (in >> 32) for 64 bits.
Smears == [i \in 1 .. Log2Width |-> 2^(i - 1)]

RoundDownToPowerOfTwo(in) ==
  IF in = 0 THEN 0
  ELSE LET s == FoldLeft(LAMBDA x, k : x | shiftR(x, k), in, Smears)
       IN  s - shiftR(s, 1)

\* Unsigned arithmetic of std::uint64_t.
U64Mul(a, b) == (a * b) % (UMax + 1)
U64Sub(a, b) == (a - b) % (UMax + 1)

\* Variant with no overflow guard: every value passes.
MaxPerfEventMlockKbUnchecked == UMax

\* std::numeric_limits<std::uint64_t>::max() / 1024ULL
MaxPerfEventMlockKb == UMax \div KiB

CalculatePerfMmapSizeInPages(kb, page) ==
  IF kb <= MaxPerfEventMlockKb /\ page > 0 /\ U64Mul(kb, KiB) > page
  THEN LET bufferPages == RoundDownToPowerOfTwo(U64Sub(U64Mul(kb, KiB), page)) \div page
       IN  IF bufferPages < IntMax THEN bufferPages ELSE IntMax
  ELSE 0

-----------------------------------------------------------------------------
(* parseLinuxVersion                                                       *)

\* Variant that adds each digit without shifting the ones before it.
AccumulateNoShift(x, c) == x + Val(c)

\* version[part] = 10 * version[part] + *ch - '0'
Accumulate(x, c) == 10 * x + Val(c)

(***************************************************************************)
(* The loop over utsname.release from character i: while a digit and part *)
(* < 3, add it to version[part]; after it, a '.' moves to the next part.   *)
(***************************************************************************)
RECURSIVE VersionLoop(_, _, _, _)
VersionLoop(s, i, part, v) ==
  IF At(s, i) \in Digits /\ part < 3
  THEN LET v1 == [v EXCEPT ![part] = Accumulate(@, At(s, i))]
       IN  IF At(s, i + 1) = "."
             THEN VersionLoop(s, i + 2, part + 1, v1)
             ELSE VersionLoop(s, i + 1, part, v1)
  ELSE v

\* KERNEL_VERSION(a, b, c)
KernelVersion(a, b, c) == a * 2^16 + b * 2^8 + c

ParseLinuxVersion(s) ==
  LET v == VersionLoop(s, 0, 0, [p \in 0 .. 2 |-> 0]) IN KernelVersion(v[0], v[1], v[2])

-----------------------------------------------------------------------------
(* The calls                                                               *)

RoundDownCall ==
  /\ pc = "call" /\ call.fn = "round"
  /\ result' = RoundDownToPowerOfTwo(call.arg)
  /\ pc' = "done"
  /\ UNCHANGED <<call, contents, from, split, to>>

MmapCall ==
  /\ pc = "call" /\ call.fn = "mmap"
  /\ result' = CalculatePerfMmapSizeInPages(call.arg[1], call.arg[2])
  /\ pc' = "done"
  /\ UNCHANGED <<call, contents, from, split, to>>

VersionCall ==
  /\ pc = "call" /\ call.fn = "version"
  /\ result' = ParseLinuxVersion(call.arg)
  /\ pc' = "done"
  /\ UNCHANGED <<call, contents, from, split, to>>

\* The call has returned.
Returned == pc = "done" /\ UNCHANGED vars

Next ==
  \/ MaskOpen \/ MaskUnreadable \/ MaskOuter \/ MaskScan \/ MaskItem
  \/ RoundDownCall \/ MmapCall \/ VersionCall
  \/ Returned

Spec == Init /\ [][Next]_vars

-----------------------------------------------------------------------------
(* Reference definitions                                                   *)

\* The fields of s between the separators sep.
RECURSIVE Fields(_, _)
Fields(s, sep) ==
  IF \E i \in 1 .. Len(s) : s[i] = sep
  THEN LET i == CHOOSE i \in 1 .. Len(s) : s[i] = sep /\ \A j \in 1 .. (i - 1) : s[j] # sep
       IN  <<SubSeq(s, 1, i - 1)>> \o Fields(SubSeq(s, i + 1, Len(s)), sep)
  ELSE <<s>>

IsNumber(f) == Len(f) > 0 /\ \A i \in 1 .. Len(f) : f[i] \in Digits

Decimal(f) == FoldLeft(LAMBDA x, c : 10 * x + Val(c), 0, f)

\* A cpu list item: "n", or "n-m" for the cpus n to m.
IsItem(f) ==
  \/ IsNumber(f)
  \/ \E d \in 1 .. Len(f) : f[d] = "-" /\ IsNumber(SubSeq(f, 1, d - 1))
                                     /\ IsNumber(SubSeq(f, d + 1, Len(f)))

ItemCpus(f) ==
  IF IsNumber(f) THEN {Decimal(f)}
  ELSE LET d == CHOOSE d \in 1 .. Len(f) : f[d] = "-"
       IN  Decimal(SubSeq(f, 1, d - 1)) .. Decimal(SubSeq(f, d + 1, Len(f)))

\* A cpu list as the kernel prints one (cpulist format): items separated by
\* ',' and a final newline.
ListBody(t) == IF Len(t) > 0 /\ t[Len(t)] = "\n" THEN SubSeq(t, 1, Len(t) - 1) ELSE t

IsCpuList(t) == Len(ListBody(t)) > 0 /\ \A f \in Range(Fields(ListBody(t), ",")) : IsItem(f)

CpuListCpus(t) == UNION {ItemCpus(f) : f \in Range(Fields(ListBody(t), ","))}

\* The largest power of two not above n (0 for 0).
LargestPowerOfTwo(n) ==
  IF n = 0 THEN 0 ELSE CHOOSE p \in {2^i : i \in 0 .. Width} : p <= n /\ n < 2 * p

\* The ring buffer perf_event_mlock_kb allows, one page being the header:
\* the largest power-of-two data size that fits, in pages, at most IntMax,
\* and 0 when the limit in bytes is not a uint64_t or leaves no data page.
MmapPages(kb, page) ==
  IF page = 0 \/ kb * KiB <= page \/ kb * KiB > UMax THEN 0
  ELSE LET n == LargestPowerOfTwo(kb * KiB - page) \div page
       IN  IF n < IntMax THEN n ELSE IntMax

\* A release "a.b.c", "a.b" or "a", followed by anything that is neither a
\* digit nor a '.'.
ReleasePrefix(t) ==
  LET n == CHOOSE n \in 0 .. Len(t) :
             /\ \A i \in 1 .. n : t[i] \in Digits \cup {"."}
             /\ n < Len(t) => t[n + 1] \notin Digits \cup {"."}
  IN  SubSeq(t, 1, n)

IsRelease(t) ==
  LET fs == Fields(ReleasePrefix(t), ".")
  IN  Len(fs) <= 3 /\ \A k \in 1 .. Len(fs) : IsNumber(fs[k])

ReleaseVersion(t) ==
  LET fs == Fields(ReleasePrefix(t), ".")
      F(k) == IF k <= Len(fs) THEN Decimal(fs[k]) ELSE 0
  IN  KernelVersion(F(1), F(2), F(3))

-----------------------------------------------------------------------------
(* Properties                                                              *)

(***************************************************************************)
(* readCpuMaskFromFile returns exactly the cpus a well-formed cpu list     *)
(* names, ranges and multi-digit numbers included: the scanner's from,     *)
(* split and to, and the NULs it writes into the contents, delimit each    *)
(* item as the cpulist format does.                                        *)
(***************************************************************************)
CpuMaskMatchesList ==
  pc = "done" /\ call.fn = "mask" /\ call.arg # Unreadable /\ IsCpuList(call.arg)
    => result = CpuListCpus(call.arg)

(***************************************************************************)
(* roundDownToPowerOfTwo returns the largest power of two not above its    *)
(* argument, for every value of the width, top bit included: the smear    *)
(* sets every bit below the highest one.                                   *)
(***************************************************************************)
RoundDownMatchesReference ==
  pc = "done" /\ call.fn = "round" => result = LargestPowerOfTwo(call.arg)

(***************************************************************************)
(* calculatePerfMmapSizeInPages returns the largest power-of-two number of *)
(* data pages that fits beside the header page in perf_event_mlock_kb,     *)
(* clamped to INT_MAX, and 0 when the limit does not fit a uint64_t in     *)
(* bytes: the overflow guard keeps a wrapped product from being used.      *)
(***************************************************************************)
MmapPagesMatchReference ==
  pc = "done" /\ call.fn = "mmap" => result = MmapPages(call.arg[1], call.arg[2])

(***************************************************************************)
(* parseLinuxVersion returns KERNEL_VERSION of the release's major, minor  *)
(* and patch numbers (0 for those missing), whatever suffix follows them:  *)
(* the version FtraceDriver compares with 3.10 and 4.2.                    *)
(***************************************************************************)
VersionMatchesRelease ==
  pc = "done" /\ call.fn = "version" /\ IsRelease(call.arg)
    => result = ReleaseVersion(call.arg)

=============================================================================
