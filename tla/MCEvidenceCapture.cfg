SPECIFICATION Spec
CONSTANTS
  Capacity = 1
  Resolution = 0
  Micro = 2
  Offsets <- OneOffset
  Rates <- EitherWay
  MaxTime = 4
  MaxRecords = 2
  MaxInstances = 2
INVARIANTS CaptureIsClosed CalibrationIsSound
