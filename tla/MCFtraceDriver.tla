--------------------------- MODULE MCFtraceDriver ---------------------------
(***************************************************************************)
(* Instances of FtraceDriver for TLC.  Tracepoints are model values given  *)
(* in the cfg; the events XML is one of the sequences below.               *)
(***************************************************************************)
EXTENDS FtraceDriver

CONSTANTS sched, freq, gpu

\* Distinct enable files: a tracepoint, an enable override, no enable at all,
\* and a tracepoint whose enable file is missing.
DistinctEvents ==
  << [tracepoint |-> sched, enable |-> None],
     [tracepoint |-> None, enable |-> freq],
     [tracepoint |-> None, enable |-> None],
     [tracepoint |-> gpu, enable |-> None] >>

\* Two counters on the same tracepoint (different regexes in the XML).
SharedEvents ==
  << [tracepoint |-> sched, enable |-> None],
     [tracepoint |-> sched, enable |-> None] >>

\* A tracepoint whose enable file is missing is skipped by readEvents.
MCWritable == {sched, freq}

=============================================================================
