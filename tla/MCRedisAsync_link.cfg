SPECIFICATION Spec
CONSTANTS
  Commands <- MCCommands
  NULL = NULL
  MaxMsgs = 1
  MaxSent = 3
INVARIANTS
  ContextIsSound
PROPERTIES
  ImplementsAsyncLink
  CommandsAreAnswered
  DisconnectCompletes
