------------------------------- MODULE MCUtils -------------------------------
(***************************************************************************)
(* Model-checking instance of Utils: every cpumask file of up to five      *)
(* characters over digits, '-', ',' and newline, every 8-bit value for     *)
(* roundDownToPowerOfTwo, perf_event_mlock_kb up to past the overflow      *)
(* guard with page sizes 0 to 16, and every release string of up to five   *)
(* characters over digits, '.' and '-' with numbers of at most two digits. *)
(***************************************************************************)
EXTENDS Utils

MaskChars == {"0", "1", "2", "-", ",", "\n"}
ReleaseChars == {"0", "1", "4", ".", "-"}

Texts(chars, n) == UNION {[1 .. k -> chars] : k \in 0 .. n}

\* Release numbers have at most two digits, as every Linux release has.
ShortNumbers(t) == \A i \in 1 .. (Len(t) - 2) : \E j \in i .. (i + 2) : t[j] \notin Digits

MCCalls ==
  {[fn |-> "mask", arg |-> t] : t \in Texts(MaskChars, 5) \cup {Unreadable}}
  \cup {[fn |-> "round", arg |-> n] : n \in 0 .. UMax}
  \cup {[fn |-> "mmap", arg |-> <<kb, page>>] : kb \in 0 .. 70, page \in {0, 1, 2, 4, 8, 16}}
  \cup {[fn |-> "version", arg |-> t] : t \in {r \in Texts(ReleaseChars, 5) : ShortNumbers(r)}}

=============================================================================
