------------------------------- MODULE MCFifo -------------------------------
(***************************************************************************)
(* Model-checking instance of Fifo, given its sizes by the .cfg files: a   *)
(* 5-byte wrap threshold with writes of up to 3 bytes and 5 non-empty      *)
(* writes, so a stream wraps twice and leaves ragged ends of every length  *)
(* from 5 to 7, the buffer fills, and the writer blocks for space.         *)
(***************************************************************************)
EXTENDS Fifo

\* The consumer's history never needs to be longer than the stream.
HistoryBound == Len(received) <= MaxBytes

=============================================================================
