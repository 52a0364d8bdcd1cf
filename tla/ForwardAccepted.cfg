\* One market that nothing disturbs.
CONSTANTS
  Stages <- MCStages
  MinimumSignals = 2
  MinimumSelected = 1
  Markets <- MCMarkets
  Milestones = {1, 2}
  StaleAfter = 0
  Settings = {"daily", "default"}
  MaxHours = 2
  Budgets <- NoDisturbance
SPECIFICATION Spec
INVARIANTS
  AcceptedIsValidated
