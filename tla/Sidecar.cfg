\* Two logs as in the launcher, one of them possibly not there yet; two
\* threads serve three validation requests.
CONSTANTS
  NSources = 2
  StartAtEnd = TRUE
  Noise = {2}
  MaxLines = 3
  MaxRestarts = 1
  MaxCrashes = 1
  Threads = {r1, r2}
  MaxEntries = 2
  MaxRequests = 3
  MaxStops = 1
SPECIFICATION RuntimeSpec
INVARIANTS
  RuntimeTypeOK
  ConsumedIsPublished
  ReplayNeedsCrash
  HistoryNotReplayed
  ValidationLossIsTold
PROPERTY LineDelivered
