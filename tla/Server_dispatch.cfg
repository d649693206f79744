SPECIFICATION Spec
CONSTANTS
    N = 2
    MaxFd = 7
    PIPE = 1
    MaxConnects = 3
    MaxHup = 1
    MaxFail = 1
    MaxLines = 1
INVARIANTS HandedOver LogIsShared
PROPERTY ClientsAreTaken
CHECK_DEADLOCK FALSE
