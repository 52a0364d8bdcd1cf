\* Market closes execute completely.
CONSTANTS
  Lot = 2
  Leftovers = {0}
  MaxOrders = 3
  MaxCandle = 3
  MaxFaults = 2
  Levels = {"TP_HIT"}
  RoomOrders = 1
  RoomFaults = 1
SPECIFICATION RoomSpec
INVARIANTS
  RoomTypeOK
  BooksMatchExchange
  ClosedIsNotActive
PROPERTIES
  JournaledBeforeSubmit
  ImplementsFailClosed
  AttemptResolved
  ViewCatchesUp
  CloseTold
