SPECIFICATION FormatsSpec
CONSTANTS
    Scripts <- MCScripts
    MaxChunk = 3
    STACK_SIZE = 2
    DISCARD = 6
    MAX_ELEMENTS = 4
    MAX_DOUBLE = 4
    LLONG_MAX = 127
    INT_MAX = 31
    Verbs <- MCVerbs
    Separator <- MCSeparator
    Callbacks <- MCCallbacks
    Messages <- MCMessages
    JSON_INT_MAX = 127
    JSON_PARSER_MAX_DEPTH = 7
INVARIANTS ReaderIsSound RepliesAsWritten SizesAgree MessagesAreCommands DocumentsAreComplete
CHECK_DEADLOCK FALSE
