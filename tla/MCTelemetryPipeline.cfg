SPECIFICATION Spec
CONSTANTS
  OpcuaNodes = {"temp"}
  PollList <- MCPollList
  DropBad = {"temp"}
  NoRule = {}
  NoContext = {"lot"}
  MaxReadings = 2
  MaxFaults = 3
INVARIANTS
  SuccessIsPublished
  PublishedInOrder
PROPERTIES
  EveryReadingSettles
  LostConnectionReplaced
CHECK_DEADLOCK FALSE
