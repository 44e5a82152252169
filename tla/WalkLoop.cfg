\* Every table of up to three rows in one second.
SPECIFICATION WalkSpec
CONSTANTS
    RowIds = {1, 2, 3}
    Times = {1}
INVARIANT OneClass
INVARIANT EndsAsWalk
PROPERTY Terminates
CHECK_DEADLOCK FALSE
