SPECIFICATION Spec
CONSTANTS
  Lens <- Boundaries
  MaxFrames = 2
  Offsets <- HeaderBytes
  SendLens <- AroundBoundaries
CHECK_DEADLOCK FALSE
INVARIANTS
  TypeOK
  ExtractsWhatArrived
  LengthSurvives
