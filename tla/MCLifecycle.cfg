CONSTANTS
    Cmds = {c1, c2}
    Values = {"v0", "v1"}
    Empty = "v0"
    Errors = {e1, e2}
    NoError = NoError
    Names = {"d1", "u1"}
    NoName = NoName
    Defs = {"d1"}
    ParamSchema <- MCParamSchema
    ProgressSchema <- MCProgressSchema
    ResultsSchema <- MCResultsSchema
    Absent = Absent
    NotObject = NotObject
    MaxDepth = 2


SPECIFICATION Spec

PROPERTY ImplementsLifecycle
CHECK_DEADLOCK FALSE
