SPECIFICATION Spec
CONSTANTS
    Requests <- MCRequests
    Extensions <- MCExtensions
    AlwaysOff <- MCAlwaysOff
    Env <- MCEnv
    Digits <- MCDigits
    LowerCase <- MCLowerCase
    Users <- MCUsers
    ADDR_BITS = 2
    INT_MAX = 31
INVARIANTS ArgumentsAsSent AclAsDocumented
CHECK_DEADLOCK FALSE
