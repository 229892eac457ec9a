\* All four scripts and the six fault cases of the profile, in its order.
CONSTANTS
  Campaigns = {"fault", "recovery", "capture", "assurance"}
  Cases <- AllCases
SPECIFICATION Spec
INVARIANTS
  RestoredIsTrue
  PassIsEarned
  DecisionsPaused
  FaultsEndAsExpected
