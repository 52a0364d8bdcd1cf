\* Two hours after the boundary, one market, and in each behaviour an append by
\* hand, or a filled gap and a fault, or a file restored or removed, a second
\* manifest and a fault.
CONSTANTS
  Stages <- MCStages
  MinimumSignals = 2
  MinimumSelected = 1
  Markets <- MCMarkets
  Milestones = {1, 2}
  StaleAfter = 0
  Settings = {"daily", "default"}
  MaxHours = 2
  Budgets <- MCBudgets
SPECIFICATION FairSpec
INVARIANTS
  TypeOK
  MilestoneAudited
  OneFrozenContract
  HealthyIsConsistent
PROPERTIES
  EvidenceRecorded
