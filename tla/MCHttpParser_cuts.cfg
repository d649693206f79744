SPECIFICATION Spec
CONSTANTS
  Scripts <- MCScripts
  MaxHeader = 30
  Websockets = TRUE
INVARIANTS
  StreamIsUnderstood
  EveryRequestServed
