--------------------------- MODULE MCFtraceReader ---------------------------
(***************************************************************************)
(* Model-checking instance of FtraceReader, given its constants by the     *)
(* .cfg files: two CPUs, so stop() interrupts one reader while the other   *)
(* is still splicing and joins one while the other is still draining.      *)
(***************************************************************************)
EXTENDS FtraceReader

\* mBarrier's participants: the readers and the control thread.
MCThreads == Readers \cup {Main}

=============================================================================
