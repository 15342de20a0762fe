CONSTANTS
    Cmds = {c1, c2}
    Values = {"v0", "locked", "unlocked", "partiallyLocked"}
    Empty = "v0"
    Errors = {e1}
    InvalidParam = e1
    NoError = NoError
    Names = {"lock.setConfig", "unknown.cmd"}
    NoName = NoName
    Defs = {"lock.setConfig"}
    ParamSchema <- MCLockParamSchema
    ProgressSchema <- MCLockEmptySchema
    ResultsSchema <- MCLockEmptySchema
    Absent = Absent
    NotObject = NotObject
    MaxDepth = 2

SPECIFICATION LockFairSpec

INVARIANT LockTypeOK
INVARIANT AnsweredAfterHandler
PROPERTY CommandsReclaimed
CHECK_DEADLOCK FALSE
