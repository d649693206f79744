SPECIFICATION Spec
CONSTANTS
    N = 2
    MaxFd = 7
    PIPE = 1
    MaxConnects = 1
    MaxHup = 1
    MaxFail = 1
    MaxLines = 1
INVARIANT LogToDiskOrStderr
CHECK_DEADLOCK FALSE
