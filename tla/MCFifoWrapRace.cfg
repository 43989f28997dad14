\* The wrap stores in either order, as the code allows: the consumer can get bytes twice.
CONSTANTS
  SingleBufferSize = 3
  BufferSize = 5
  MaxWrites = 5
  SemValueMax = 2
  WrapOrders = {"raggedFirst", "writeFirst"}

SPECIFICATION Spec
CONSTRAINT HistoryBound

INVARIANT ReceivedInOrder
