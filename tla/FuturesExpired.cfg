\* A market close may execute only a part of its quantity, or nothing.
CONSTANTS
  Lot = 2
  Leftovers = {0, 1, 2}
  MaxOrders = 1
  MaxCandle = 1
  MaxFaults = 0
SPECIFICATION Spec
INVARIANT ClosedMeansBoughtBack
