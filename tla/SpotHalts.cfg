\* The deployment with protection enabled; one crash is enough.
CONSTANTS
  NTraders = 2
  Fixed = {1}
  Guarded = {1}
  MaxOrders = 2
  MaxCandle = 1
  MaxFaults = 1
SPECIFICATION Spec
PROPERTY AutomationHaltsAsAWhole
