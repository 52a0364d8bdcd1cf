CONSTANTS
  NTraders = 2
  Fixed = {1}
  Guarded = {}
  MaxOrders = 2
  MaxCandle = 1
  MaxFaults = 2
SPECIFICATION Spec
INVARIANT OneBuyPerCandle
