\* One guarded fixed-TP/SL trader and one trader with a dynamic stop, as
\* build_traders makes them with protection enabled.
CONSTANTS
  NTraders = 2
  Fixed = {1}
  Guarded = {1}
  MaxOrders = 3
  MaxCandle = 2
  MaxFaults = 2
SPECIFICATION FairSpec
INVARIANTS
  TypeOK
  TrackedOrBlocked
  BooksTellTheTruth
  NeverSoldTwice
  OneExposurePerTrader
  ProtectedBeforeDecision
PROPERTIES
  JournaledBeforeSubmit
  ImplementsFailClosed
  AttemptResolved
  ProtectionEstablished
