\* One position of each origin.  Next to the trading process either the
\* scripts run or the monitor, which records one hit; two script runs, one crash.
CONSTANTS
  Baseline = {b}
  Triple = {t}
  Manual = {m}
  Legacy = {l}
  Hits = {"TP_HIT"}
  Attempts = 2
  MaxScripts = 2
  MaxHits = 1
  MaxCrashes = 1
SPECIFICATION Spec
INVARIANTS
  TypeOK
  BooksMatchExchange
  BoughtIsTracked
  ToldBeforeMarked
PROPERTIES
  ClosedIsFinal
\* The trading process may stay halted, as an operator has to look.
CHECK_DEADLOCK FALSE
