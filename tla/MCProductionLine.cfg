SPECIFICATION LineSpec
CONSTANTS
  Speeds = {50, 55, 60}
  InitialSpeed = 50
  MaxSpeed = 80
  NormalMax = 50
  HighMin = 60
  BottleCycle = 2
  MaxSamples = 3
  MaxFaults = 1
INVARIANTS
  ModeFollowsNewest
PROPERTY RecipeFollowsSpeed
CHECK_DEADLOCK FALSE
