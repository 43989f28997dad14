\* The wrap stores in either order, as the code allows: the cursors stay in the
\* arena and the writer is never left waiting for space.
CONSTANTS
  SingleBufferSize = 3
  BufferSize = 5
  MaxWrites = 5
  SemValueMax = 2
  WrapOrders = {"raggedFirst", "writeFirst"}

SPECIFICATION Spec
CONSTRAINT HistoryBound

INVARIANT TypeOK
PROPERTY WriterNeverStuck
